------------------------------- MODULE LuaRun -------------------------------
(***************************************************************************)
(* A run of the machine of LuaVM: of any function, with any arguments, one *)
(* instruction at a time.                                                  *)
(***************************************************************************)
EXTENDS LuaVM

CONSTANT Globals   \* the global variables at the start

VARIABLE m         \* the machine, none before

none == <<>>

\* The main function f is called.
Machine(f, args) ==
    [frames |-> <<NewFrame([p |-> f, up |-> <<>>], args, NilV, 0, LUA_MULTRET, Regs1)>>,
     tabs |-> <<NewTable(Globals)>>, env |-> <<"tab", 1>>, cells |-> <<>>, funs |-> <<>>,
     status |-> "run", res |-> <<>>]

Instruction == m # none /\ m.status = "run" /\ m' = Advance(m)

RunInit == m = none
RunNext == \/ m = none /\ \E f, args : m' = Machine(f, args)
           \/ Instruction
RunSpec == RunInit /\ [][RunNext]_m

-----------------------------------------------------------------------------
\* The cache of absent metamethods (Table.flags) never hides one that is there:
\* it is cleared by every write, also when the lookup that a write makes fills
\* it for the table being written (lvm.c:133).
FlagsHonest ==
    m # none => \A i \in DOMAIN m.tabs : \A event \in m.tabs[i].flags :
        GetTable(m, <<"tab", i>>, Str(event)) = NilV
=============================================================================
