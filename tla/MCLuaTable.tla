----------------------------- MODULE MCLuaTable -----------------------------
(* A small instance of LuaTable.  The hash of a number is the sum of the two *)
(* words of its double (hashnum); strings and pointers collide by choice.    *)
EXTENDS LuaTable, TLC

CONSTANTS s1, o1
Ints == {1, 2, 4}
DoubleHash == (1 :> 1072693248) @@ (2 :> 1073741824) @@ (3 :> 1074266112)
              @@ (4 :> 1074790400)
Hashes == DoubleHash @@ (s1 :> 7) @@ (o1 :> 6)
=============================================================================
