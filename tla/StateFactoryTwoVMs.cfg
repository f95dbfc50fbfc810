SPECIFICATION Spec
CONSTANTS
  v1 = v1
  v2 = v2
  c1 = c1
  c2 = c2
  LuaState = {s1, s2, s3}
  VM = {v1, v2}
  Coroutine = {c1, c2}
  VMOf <- OneEach
  Null = null
  Together = 2
SYMMETRY Interchangeable
CHECK_DEADLOCK FALSE
INVARIANTS
  FindsItsState
