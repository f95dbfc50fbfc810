----------------------------- MODULE LuaValues ------------------------------
(***************************************************************************)
(* What the compiler and the interpreter share: the limits, the operands   *)
(* of an instruction, the values of Lua and their arithmetic.  A value is  *)
(* a tuple whose first element is its type.                                *)
(***************************************************************************)
EXTENDS Integers, Sequences, SequencesExt

CONSTANTS MAXSTACK,           \* registers of a function
          LFIELDS_PER_FLUSH,  \* list items stored by one SETLIST
          LUAI_MAXCCALLS      \* nested rules of the parser, and nested functions of a chunk

BITRK == 256
LUA_MULTRET == -1
ISK(x) == x >= BITRK

NilV == <<"nil">>
Num(n) == <<"num", n>>
Str(x) == <<"str", x>>
Bool(b) == <<"bool", b>>

\* The numbers are integers here; '/' and '^' of constants are not folded.
Fold(op, v1, v2) == CASE op = "ADD" -> v1 + v2
                      [] op = "SUB" -> v1 - v2
                      [] op = "MUL" -> v1 * v2
                      [] op = "MOD" -> IF v2 > 0 THEN v1 % v2 ELSE -((-v1) % (-v2))
                      [] op = "UNM" -> -v1
=============================================================================
