SPECIFICATION Spec
CONSTANTS
  s1 = s1
  o1 = o1
  IntKeys <- Ints
  StrKeys = {s1}
  PtrKeys = {o1}
  Hash <- Hashes
  Values = {v1}
  Nil = nil
  Off = off
  Error = error
  MAXBITS = 2
  MaxInt = 4
  NewArray = {0, 3}
  NewHash = {0, 3}
INVARIANTS
  BorderFound
  SizesAreBest
  ReinsertionFits
PROPERTIES
  ImplementsMap
