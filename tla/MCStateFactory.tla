--------------------------- MODULE MCStateFactory ---------------------------
(* Two VMs, each with the address of one coroutine, for StateFactory.       *)
EXTENDS StateFactory

CONSTANTS v1, v2, c1, c2

OneEach == c1 :> v1 @@ c2 :> v2
Interchangeable == Permutations(LuaState)
=============================================================================
