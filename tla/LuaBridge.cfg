CONSTANTS
  ui = ui
  bg = bg
  Thread = {ui, bg}
  Engine = {ui}
  Userdata = {"o", "C"}
  Classes = {"C"}
  Argument <- MCArgument
  Result <- MCResult
  Names = {"f", "g", "x"}
  Methods <- MCMethods
  Fields = {"x"}
  ClassNames = {"K"}
  OtherNames = {"none"}
  MaxDepth = 8
  Budget <- MCBudget
SPECIFICATION Spec
CHECK_DEADLOCK FALSE
INVARIANTS CallsWhatItPushed RunsTheMethodNamed AnswerArrives EnvOfCaller StackLeftAsFound
