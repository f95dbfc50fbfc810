SPECIFICATION FairSpec
CONSTANTS
  M = M
  R = R
  W = W
  U = U
  U2 = U2
  S = S
  C = C
  V = V
  Co = Co
  Nil = Nil
  Main = M
  Registry = R
  Slots = {1}
  Obj = {M, R, U, U2}
  Kind <- ProgressHeap
PROPERTIES
  FinalizedBeforeFree
  GarbageCollected
