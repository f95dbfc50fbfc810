CONSTANTS
  Main = main
  Co = {c1, c2}
  MAXCCALLS = 3
  Extra = 2
  MaxFrames = 4
SPECIFICATION Spec
INVARIANTS TypeOK ErrorsUndone ThrowStaysInThread DepthBoundedByLevel
PROPERTIES YieldsToResumer ImplementsCoroutine
SYMMETRY CoSymmetry
