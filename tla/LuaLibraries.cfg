CONSTANTS
  LUA_MAXCAPTURES = 2
  Texts <- MCTexts
  Tables <- MCTables
  Inits <- MCInits
  Module = {"A", "B"}
  MaxCalls = 4
  MaxRuns = 3
  MaxClears = 1
SPECIFICATION Spec
CHECK_DEADLOCK FALSE
INVARIANTS MatchesBest Sorts RequiresOnce
