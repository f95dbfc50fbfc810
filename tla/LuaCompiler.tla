----------------------------- MODULE LuaCompiler ----------------------------
(***************************************************************************)
(* From source text to results: luaY_parser compiles a chunk statement by  *)
(* statement, luaU_dump and luaU_undump may carry the function through a   *)
(* file, and luaV_execute runs it instruction by instruction.              *)
(*                                                                         *)
(* The programs are a constant.  Each says what the language defines for   *)
(* it: whether it is well formed, and its result for every argument list.  *)
(***************************************************************************)
EXTENDS LuaParser, BinaryChunk, LuaRun

CONSTANTS Programs,  \* [toks, valid, want, dump]: want is a function on Args
          Args,      \* argument lists of the main function
          Lost       \* items missing at the end of a file that was read

VARIABLES prog, args,
          s,         \* the parser
          p,         \* the compiled or loaded prototype, none before
          mode       \* the phase the program is in
vars == <<prog, args, s, p, m, mode>>

Init == /\ prog \in Programs
        /\ args = none /\ p = none /\ m = none
        /\ s = luaY_open(prog.toks)
        /\ mode = "compile"

\* One turn of the loop of chunk, for the main function.
Statement ==
    /\ mode = "compile" /\ tok(s) \notin block_follow
    /\ s' = OneStatement(s)
    /\ mode' = IF tok(s) \in {"return", "break"} THEN "compiled" ELSE "compile"
    /\ UNCHANGED <<prog, args, p, m>>

\* The end of luaY_parser: the main function, or the error it raised.
CloseFunc ==
    /\ mode = "compiled" \/ (mode = "compile" /\ tok(s) \in block_follow)
    /\ s' = luaY_close(s)
    /\ mode' = IF s'.err THEN "rejected" ELSE "ready"
    /\ p' = IF s'.err THEN none ELSE Proto(s'.fs)
    /\ UNCHANGED <<prog, args, m>>

\* The function is dumped, and loaded again from what is left of the file.
Reload(strip, lost) ==
    LET file == luaU_dump(p, strip)
        load(z) == /\ p' = IF z.ok THEN z.v ELSE none
                   /\ mode' = IF z.ok THEN "reloaded" ELSE "unloadable"
    IN /\ mode = "ready" /\ prog.dump
       /\ load(luaU_undump(SubSeq(file, 1, Len(file) - lost)))
       /\ UNCHANGED <<prog, args, s, m>>

Start(a) ==
    /\ mode \in {"ready", "reloaded"}
    /\ args' = a /\ m' = Machine(p, a) /\ mode' = "run"
    /\ UNCHANGED <<prog, s, p>>

Step ==
    /\ mode = "run" /\ Instruction
    /\ UNCHANGED <<prog, args, s, p, mode>>

Next == \/ Statement \/ CloseFunc
        \/ \E strip \in BOOLEAN, lost \in Lost : Reload(strip, lost)
        \/ \E a \in Args : Start(a)
        \/ Step

Spec == Init /\ [][Next]_vars

-----------------------------------------------------------------------------
Outcome == IF m.status = "error" THEN <<"error">> ELSE m.res

\* The compiled function returns what the language defines, or raises an error
\* exactly when it does: jump lists, registers, closing of upvalues, adjusting
\* of value lists and the batches of constructors all have to agree with the
\* interpreter (lcode.c, lparser.c against lvm.c).
SameResult == mode = "run" /\ m.status # "run" => Outcome = prog.want[args]

\* A text is compiled when it is well formed and within the limits, and
\* rejected otherwise: syntax errors, LUAI_MAXVARS, LUAI_MAXUPVALUES,
\* LUAI_MAXCCALLS and MAXSTACK, the constants and functions MAXARG_Bx can
\* number, the jumps MAXARG_sBx can reach.
Judged == /\ mode = "rejected" => ~prog.valid
          /\ p # none => prog.valid

\* The assertions of lcode.c and lparser.c hold: registers are freed in stack
\* order, the lists a condition leaves are empty, blocks start with no
\* temporary, a tail call starts at the first free register.
AssertionsHold == s.err \/ s.fs.err \/ s.fs.sound

Waiting(i) == \/ i.op = "JMP" /\ i.b = NO_JUMP
              \/ i.op = "TESTSET" /\ i.a = NO_REG
RECURSIVE Patched(_)
Patched(pt) == /\ \A n \in DOMAIN pt.code : ~Waiting(pt.code[n])
               /\ \A i \in DOMAIN pt.p : Patched(pt.p[i])

\* Every function the compiler emits passes the checker of ldebug.c
\* (close_func asserts it), and no jump is left waiting for a target.
CodeChecks == mode = "ready" => luaG_checkcode(p) /\ Patched(p)

RECURSIVE Stripped(_)
Stripped(f) == [f EXCEPT !.source = "=?", !.upvalues = <<>>,
                         !.p = [i \in DOMAIN @ |-> Stripped(@[i])]]

\* A chunk that was dumped is loaded as the function it was, less its names
\* when it was stripped; a file that ends early is never loaded.
LoadInvertsDump ==
    [][\A strip \in BOOLEAN, lost \in Lost :
          Reload(strip, lost) =>
              IF lost > 0 THEN mode' = "unloadable"
              ELSE p' = IF strip THEN Stripped(p) ELSE p]_vars
=============================================================================
