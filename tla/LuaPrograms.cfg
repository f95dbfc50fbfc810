SPECIFICATION Spec
CONSTANTS
  MAXINDEXRK = 1
  MAXSTACK = 12
  LFIELDS_PER_FLUSH = 2
  MAXARG_C = 1
  MAXARG_Bx = 12
  MAXARG_sBx = 30
  MAXTAGLOOP = 3
  LUAI_MAXCCALLS = 12
  LUAI_MAXVARS = 6
  LUAI_MAXUPVALUES = 2
  Programs <- AllPrograms
  Args <- ArgLists
  Globals <- GlobalVars
  Lost = {0, 1, 5}
INVARIANTS
  SameResult
  Judged
  AssertionsHold
  CodeChecks
  FlagsHonest
PROPERTIES
  LoadInvertsDump
CHECK_DEADLOCK FALSE
