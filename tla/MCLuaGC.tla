------------------------------ MODULE MCLuaGC ------------------------------
(* Small heaps for LuaGC: tables, a weak table, a userdata with a finalizer *)
(* and a string; two userdata with finalizers; or closures, an upvalue and  *)
(* a coroutine.                                                             *)
EXTENDS LuaGC, TLC

CONSTANTS M, R, W, U, U2, S, C, V, Co

TableHeap == M :> "thread" @@ R :> "table" @@ W :> "weaktable" @@ U :> "udata_gc" @@ S :> "string"
ProgressHeap == M :> "thread" @@ R :> "table" @@ U :> "udata_gc" @@ U2 :> "udata_gc"
ClosureHeap == M :> "thread" @@ R :> "table" @@ Co :> "thread" @@ C :> "function" @@ V :> "upval"
=============================================================================
