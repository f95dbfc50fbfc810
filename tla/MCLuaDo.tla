------------------------------ MODULE MCLuaDo ------------------------------
(***************************************************************************)
(* Values of the constants of LuaDo for TLC.  The coroutines are           *)
(* interchangeable: no definition tells them apart, and every property     *)
(* that is checked speaks of states and steps only.                        *)
(***************************************************************************)
EXTENDS LuaDo, TLC

CoSymmetry == Permutations(Co)
=============================================================================
