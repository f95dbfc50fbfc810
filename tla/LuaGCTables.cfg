SPECIFICATION Spec
CONSTANTS
  M = M
  R = R
  W = W
  U = U
  U2 = U2
  S = S
  C = C
  V = V
  Co = Co
  Nil = Nil
  Main = M
  Registry = R
  Slots = {1}
  Obj = {M, R, W, U, S}
  Kind <- TableHeap
INVARIANTS
  TypeOK
  LiveKept
  WhiteBetweenCycles
PROPERTIES
  WeakClearedIfDead
