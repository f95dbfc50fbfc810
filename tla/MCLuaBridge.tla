---------------------------- MODULE MCLuaBridge ----------------------------
(***************************************************************************)
(* Values of the constants of LuaBridge for TLC: a class and an object, a  *)
(* method f of no or one argument, a method g of none, a field x.          *)
(***************************************************************************)
EXTENDS LuaBridge, TLC

CONSTANTS ui, bg

MCMethods == {[name |-> "f", params |-> 0, array |-> FALSE],
              [name |-> "f", params |-> 1, array |-> FALSE],
              [name |-> "g", params |-> 0, array |-> FALSE],
              [name |-> "new", params |-> 1, array |-> FALSE]}
MCArgument == {Str("a")}
MCBudget == ui :> 4 @@ bg :> 1
MCResult == {Value("number", "1")}
=============================================================================
