------------------------------ MODULE MCLuaRef ------------------------------
(* Small instances of LuaRef: every LuaObject of one LuaState, or one of a   *)
(* second LuaState for a coroutine of the same VM.                           *)
EXTENDS LuaRef, FiniteSets, TLC

CONSTANTS a1, a2, main, thread, v1

OneState  == [o \in Object |-> main]
TwoStates == [o \in Object |-> IF o = CHOOSE x \in Object : TRUE THEN thread ELSE main]
\* One value is a number that looks like a reference.
Values == {v1, 2}
Interchangeable == Permutations(App) \cup Permutations(Object)
=============================================================================
