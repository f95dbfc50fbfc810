------------------------------ MODULE LuaCode -------------------------------
(***************************************************************************)
(* The code generator of the Lua compiler (lcode.c).  Its state is the     *)
(* FuncState of the function being compiled; every luaK_ function is an    *)
(* operator from FuncState to FuncState.                                   *)
(*                                                                         *)
(* The expression descriptor a function of lcode.c gets by reference is    *)
(* fs.e.  A jump that waits for its target sits in a list: each jump holds *)
(* the offset of the next one, so the lists live inside the code itself.   *)
(***************************************************************************)
EXTENDS LuaValues

CONSTANTS MAXINDEXRK,         \* the last constant an operand can name
          MAXARG_Bx,          \* constants, and functions, of a function
          MAXARG_sBx,         \* instructions a jump can skip
          MAXARG_C            \* batches of items a SETLIST can number

NO_JUMP == -1
NO_REG == 255

\* An instruction; b also stands for Bx and sBx.
Instr(op, a, b, c) == [op |-> op, a |-> a, b |-> b, c |-> c]
TestMode == {"EQ", "LT", "LE", "TEST", "TESTSET", "TFORLOOP"}

Exp(k, i) == [k |-> k, info |-> i, aux |-> 0, t |-> NO_JUMP, f |-> NO_JUMP]

pc(fs) == Len(fs.code)
At(fs, i) == fs.code[i + 1]
hasjumps(e) == e.t # e.f
isnumeral(e) == e.k = "VKNUM" /\ e.t = NO_JUMP /\ e.f = NO_JUMP

\* A lua_assert of the code generator: kept as a flag that must stay TRUE.
lua_assert(fs, cond) == [fs EXCEPT !.sound = @ /\ cond]

-----------------------------------------------------------------------------
(* Jump lists.                                                             *)

getjump(fs, i) == IF At(fs, i).b = NO_JUMP THEN NO_JUMP ELSE i + 1 + At(fs, i).b

fixjump(fs, i, dest) ==
    LET offset == dest - (i + 1)
    IN [fs EXCEPT !.code[i + 1].b = offset,
                  !.err = @ \/ offset > MAXARG_sBx \/ -offset > MAXARG_sBx]

\* The jumps of a list, from its head.
RECURSIVE Jumps(_, _)
Jumps(fs, list) ==
    IF list = NO_JUMP THEN <<>> ELSE <<list>> \o Jumps(fs, getjump(fs, list))

\* luaK_concat: the head of the joined list, and the code with the link set
Joined(l1, l2) == IF l1 = NO_JUMP THEN l2 ELSE l1
Linked(fs, l1, l2) ==
    IF l1 = NO_JUMP \/ l2 = NO_JUMP THEN fs
    ELSE fixjump(fs, Last(Jumps(fs, l1)), l2)

\* the position of the instruction that controls a jump
getjumpcontrol(fs, i) ==
    IF i >= 1 /\ At(fs, i - 1).op \in TestMode THEN i - 1 ELSE i

RECURSIVE need_value(_, _)
\* some jump of the list brings no value
need_value(fs, list) ==
    list # NO_JUMP /\ \/ At(fs, getjumpcontrol(fs, list)).op # "TESTSET"
                      \/ need_value(fs, getjump(fs, list))

IsTestSet(fs, node) == At(fs, getjumpcontrol(fs, node)).op = "TESTSET"

\* A TESTSET gets its register, or becomes a TEST when no value is wanted
\* or the value is already there.
patchtestreg(fs, node, reg) ==
    LET test(old) == IF reg # NO_REG /\ reg # old.b THEN [old EXCEPT !.a = reg]
                     ELSE Instr("TEST", old.b, 0, old.c)
    IN IF IsTestSet(fs, node)
       THEN [fs EXCEPT !.code[getjumpcontrol(fs, node) + 1] = test(@)] ELSE fs

RECURSIVE removevalues(_, _)
removevalues(fs, list) ==
    IF list = NO_JUMP THEN fs
    ELSE removevalues(patchtestreg(fs, list, NO_REG), getjump(fs, list))

RECURSIVE patchlistaux(_, _, _, _, _)
patchlistaux(fs, list, vtarget, reg, dtarget) ==
    LET target == IF IsTestSet(fs, list) THEN vtarget ELSE dtarget
    IN IF list = NO_JUMP THEN fs
       ELSE patchlistaux(fixjump(patchtestreg(fs, list, reg), list, target),
                         getjump(fs, list), vtarget, reg, dtarget)

dischargejpc(fs) ==
    [patchlistaux(fs, fs.jpc, pc(fs), NO_REG, pc(fs)) EXCEPT !.jpc = NO_JUMP]

luaK_getlabel(fs) == [fs EXCEPT !.lasttarget = pc(fs)]

luaK_patchtohere(fs, list) ==
    [Linked(luaK_getlabel(fs), fs.jpc, list) EXCEPT !.jpc = Joined(@, list)]

luaK_patchlist(fs, list, target) ==
    IF target = pc(fs) THEN luaK_patchtohere(fs, list)
    ELSE patchlistaux(lua_assert(fs, target < pc(fs)), list, target, NO_REG, target)

\* Append a list to the true or the false exits of the expression.
ToT(fs, list) == [Linked(fs, fs.e.t, list) EXCEPT !.e.t = Joined(@, list)]
ToF(fs, list) == [Linked(fs, fs.e.f, list) EXCEPT !.e.f = Joined(@, list)]

-----------------------------------------------------------------------------
(* Instructions.                                                           *)

luaK_code(fs, i) == [dischargejpc(fs) EXCEPT !.code = Append(@, i)]
luaK_codeABC(fs, op, a, b, c) == luaK_code(fs, Instr(op, a, b, c))
luaK_codeABx(fs, op, a, bc) == luaK_code(fs, Instr(op, a, bc, 0))

\* The jump is at pc(fs); the jumps to here go on from it.
luaK_jump(fs) ==
    LET j == luaK_codeABx([fs EXCEPT !.jpc = NO_JUMP], "JMP", 0, NO_JUMP)
    IN Linked(j, pc(fs), fs.jpc)

\* The jump is at pc(fs) + 1.
condjump(fs, op, a, b, c) == luaK_jump(luaK_codeABC(fs, op, a, b, c))

luaK_ret(fs, first, nret) == luaK_codeABC(fs, "RETURN", first, nret + 1, 0)

luaK_nil(fs, from, n) ==
    LET last == At(fs, pc(fs) - 1)
        straight == pc(fs) > fs.lasttarget  \* no jump to the current position
    IN IF straight /\ pc(fs) = 0 /\ from >= fs.nactvar THEN fs
       ELSE IF straight /\ pc(fs) > 0 /\ last.op = "LOADNIL"
               /\ last.a <= from /\ from <= last.b + 1
       THEN [fs EXCEPT !.code[pc(fs)].b = IF from + n - 1 > @ THEN from + n - 1 ELSE @]
       ELSE luaK_codeABC(fs, "LOADNIL", from, from + n - 1, 0)

code_label(fs, a, b, jump) == luaK_codeABC(luaK_getlabel(fs), "LOADBOOL", a, b, jump)

luaK_setlist(fs, base, nelems, tostore) ==
    LET c == (nelems - 1) \div LFIELDS_PER_FLUSH + 1
        b == IF tostore = LUA_MULTRET THEN 0 ELSE tostore
        store == luaK_codeABC(lua_assert(fs, tostore # 0), "SETLIST", base, b,
                              IF c <= MAXARG_C THEN c ELSE 0)
        coded == IF c <= MAXARG_C THEN store ELSE luaK_code(store, Instr("DATA", c, 0, 0))
    IN [coded EXCEPT !.freereg = base + 1]

-----------------------------------------------------------------------------
(* Registers and constants.                                                *)

\* (Mutant: one register too many.)
luaK_checkstackOneMore(fs, n) ==
    LET new == fs.freereg + n
    IN [fs EXCEPT !.maxstack = IF new > @ THEN new ELSE @,
                  !.err = @ \/ (new > fs.maxstack /\ new > MAXSTACK)]
luaK_checkstack(fs, n) ==
    LET new == fs.freereg + n
    IN [fs EXCEPT !.maxstack = IF new > @ THEN new ELSE @,
                  !.err = @ \/ (new > fs.maxstack /\ new >= MAXSTACK)]

luaK_reserveregs(fs, n) == [luaK_checkstack(fs, n) EXCEPT !.freereg = @ + n]

freereg(fs, reg) ==
    IF ISK(reg) \/ reg < fs.nactvar THEN fs
    ELSE [lua_assert(fs, reg = fs.freereg - 1) EXCEPT !.freereg = @ - 1]

freeexp(fs, e) == IF e.k = "VNONRELOC" THEN freereg(fs, e.info) ELSE fs
Freed(fs) == freeexp(fs, fs.e)

\* addk: the constant v is reused; its index is KIndex in the new state
addk(fs, v) ==
    IF v \in Range(fs.k) THEN fs
    ELSE [fs EXCEPT !.k = Append(@, v), !.err = @ \/ Len(fs.k) + 1 > MAXARG_Bx]
KIndex(fs, v) == (CHOOSE i \in DOMAIN fs.k : fs.k[i] = v) - 1

-----------------------------------------------------------------------------
(* Expressions to values and registers.                                    *)

Relocable(fs) == [fs EXCEPT !.e.k = "VRELOCABLE", !.e.info = pc(fs) - 1]

luaK_setreturns(fs, nresults) ==
    CASE fs.e.k = "VCALL" -> [fs EXCEPT !.code[fs.e.info + 1].c = nresults + 1]
      [] fs.e.k = "VVARARG" ->
            luaK_reserveregs([fs EXCEPT !.code[fs.e.info + 1].b = nresults + 1,
                                        !.code[fs.e.info + 1].a = fs.freereg], 1)
      [] OTHER -> fs

luaK_setoneret(fs) ==
    CASE fs.e.k = "VCALL" ->
            [fs EXCEPT !.e.k = "VNONRELOC", !.e.info = At(fs, fs.e.info).a]
      [] fs.e.k = "VVARARG" ->
            [fs EXCEPT !.code[fs.e.info + 1].b = 2, !.e.k = "VRELOCABLE"]
      [] OTHER -> fs

luaK_dischargevars(fs) ==
    LET e == fs.e
        instr == CASE e.k = "VUPVAL" -> Instr("GETUPVAL", 0, e.info, 0)
                   [] e.k = "VGLOBAL" -> Instr("GETGLOBAL", 0, e.info, 0)
                   [] e.k = "VINDEXED" -> Instr("GETTABLE", 0, e.info, e.aux)
        freed == IF e.k = "VINDEXED" THEN freereg(freereg(fs, e.aux), e.info) ELSE fs
    IN CASE e.k = "VLOCAL" -> [fs EXCEPT !.e.k = "VNONRELOC"]
         [] e.k \in {"VUPVAL", "VGLOBAL", "VINDEXED"} -> Relocable(luaK_code(freed, instr))
         [] OTHER -> luaK_setoneret(fs)

InReg(fs, reg) == [fs EXCEPT !.e.k = "VNONRELOC", !.e.info = reg]
\* discharge2reg of an expression that is no variable any more
LoadedTo(fs, reg) ==
    LET e == fs.e
        f == IF e.k = "VKNUM" THEN addk(fs, Num(e.info)) ELSE fs
        instr == CASE e.k = "VTRUE" -> Instr("LOADBOOL", reg, 1, 0)
                   [] e.k = "VFALSE" -> Instr("LOADBOOL", reg, 0, 0)
                   [] e.k = "VK" -> Instr("LOADK", reg, e.info, 0)
                   [] e.k = "VKNUM" -> Instr("LOADK", reg, KIndex(f, Num(e.info)), 0)
                   [] e.k = "VNONRELOC" -> Instr("MOVE", reg, e.info, 0)
    IN IF e.k \in {"VVOID", "VJMP"} THEN fs
       ELSE InReg(CASE e.k = "VNIL" -> luaK_nil(fs, reg, 1)
                    [] e.k = "VRELOCABLE" -> [fs EXCEPT !.code[e.info + 1].a = reg]
                    [] e.k = "VNONRELOC" /\ reg = e.info -> fs
                    [] OTHER -> luaK_code(f, instr), reg)
discharge2reg(fs, reg) == LoadedTo(luaK_dischargevars(fs), reg)

discharge2anyreg(fs) ==
    IF fs.e.k = "VNONRELOC" THEN fs
    ELSE discharge2reg(luaK_reserveregs(fs, 1), fs.freereg)

\* The values of an expression with jumps: a LOADBOOL for each truth value.
WithBools(fs, reg) ==
    LET jump == fs.e.k = "VJMP"
    IN luaK_patchtohere(code_label(code_label(IF jump THEN fs ELSE luaK_jump(fs), reg, 0, 1),
                                   reg, 1, 0),
                        IF jump THEN NO_JUMP ELSE pc(fs))
\* They are the last instructions when some jump brings no value; the exits of
\* e go to them or past them.
ExitsPatched(fs, e, reg) ==
    LET p_f == pc(fs) - 2
    IN patchlistaux(patchlistaux(luaK_getlabel(fs), e.f, pc(fs), reg, p_f),
                    e.t, pc(fs), reg, p_f + 1)
ExitsTo(fs, reg) ==
    IF ~hasjumps(fs.e) THEN fs
    ELSE ExitsPatched(IF need_value(fs, fs.e.t) \/ need_value(fs, fs.e.f)
                      THEN WithBools(fs, reg) ELSE fs, fs.e, reg)
JumpToT(fs) == IF fs.e.k = "VJMP" THEN ToT(fs, fs.e.info) ELSE fs

exp2reg(fs, reg) ==
    [ExitsTo(JumpToT(discharge2reg(fs, reg)), reg) EXCEPT !.e = Exp("VNONRELOC", reg)]

ToTop(fs) == exp2reg(luaK_reserveregs(fs, 1), fs.freereg)
luaK_exp2nextreg(fs) == ToTop(Freed(luaK_dischargevars(fs)))

AnyReg(fs) ==
    LET stays == fs.e.k = "VNONRELOC" /\ fs.e.info >= fs.nactvar
        top == Freed(fs)
    IN IF fs.e.k = "VNONRELOC" /\ ~hasjumps(fs.e) THEN fs
       ELSE exp2reg(IF stays THEN fs ELSE luaK_reserveregs(top, 1),
                    IF stays THEN fs.e.info ELSE top.freereg)
luaK_exp2anyreg(fs) == AnyReg(luaK_dischargevars(fs))

luaK_exp2val(fs) == IF hasjumps(fs.e) THEN luaK_exp2anyreg(fs) ELSE luaK_dischargevars(fs)

\* The constant an expression is, if an operand may name it.
Constant(e) == CASE e.k = "VNIL" -> NilV
                 [] e.k = "VKNUM" -> Num(e.info)
                 [] OTHER -> Bool(e.k = "VTRUE")

\* A constant as an operand, or a register
ConstantOrReg(fs) ==
    LET new == addk(fs, Constant(fs.e))
    IN IF fs.e.k \in {"VKNUM", "VTRUE", "VFALSE", "VNIL"} /\ Len(fs.k) <= MAXINDEXRK
       THEN [new EXCEPT !.e.k = "VK", !.e.info = KIndex(new, Constant(fs.e))]
       ELSE IF fs.e.k = "VK" /\ fs.e.info <= MAXINDEXRK THEN fs
       ELSE luaK_exp2anyreg(fs)
luaK_exp2RK(fs) == ConstantOrReg(luaK_exp2val(fs))
\* what luaK_exp2RK returned
RK(fs) == IF fs.e.k = "VK" THEN fs.e.info + BITRK ELSE fs.e.info

luaK_storevar(fs, var) ==
    LET set(f) == luaK_codeABC(f, IF var.k = "VUPVAL" THEN "SETUPVAL" ELSE "SETGLOBAL",
                               f.e.info, var.info, 0)
        settable(f) == luaK_codeABC(f, "SETTABLE", var.info, var.aux, RK(f))
    IN CASE var.k = "VLOCAL" -> exp2reg(Freed(fs), var.info)
         [] var.k \in {"VUPVAL", "VGLOBAL"} -> Freed(set(luaK_exp2anyreg(fs)))
         [] OTHER -> Freed(lua_assert(settable(luaK_exp2RK(fs)), var.k = "VINDEXED"))

\* fs.e is the object, in a register, key the method name
SelfOf(fs, key) ==
    LET self(f) == [Freed(luaK_codeABC(f, "SELF", Freed(fs).freereg, fs.e.info, RK(f)))
                       EXCEPT !.e = InReg(fs, Freed(fs).freereg).e]
    IN self(luaK_exp2RK([luaK_reserveregs(Freed(fs), 2) EXCEPT !.e = key]))
luaK_self(fs, key) == SelfOf(luaK_exp2anyreg(fs), key)

\* e is the key of table tab
luaK_indexed(fs0, tab) ==
    LET indexed(fs) == [fs EXCEPT !.e = [tab EXCEPT !.aux = RK(fs), !.k = "VINDEXED"]]
    IN indexed(luaK_exp2RK(fs0))

-----------------------------------------------------------------------------
(* Conditions.                                                             *)

invertjump(fs) ==
    LET i == getjumpcontrol(fs, fs.e.info)
    IN [lua_assert(fs, At(fs, i).op \in TestMode \ {"TEST", "TESTSET"})
            EXCEPT !.code[i + 1].a = 1 - @]

\* The jump is the last instruction of the result.
jumponcond(fs, cond) ==
    LET ie == At(fs, fs.e.info)
        test(f) == condjump(Freed(f), "TESTSET", NO_REG, f.e.info, cond)
    IN IF fs.e.k = "VRELOCABLE" /\ ie.op = "NOT"
       THEN condjump([fs EXCEPT !.code = Front(@)], "TEST", ie.b, 0, 1 - cond)
       ELSE test(discharge2anyreg(fs))

\* A condition jumps away if it is false, or true, and goes on here otherwise.
ExitFalse(fs, last) == [luaK_patchtohere(ToF(fs, last), fs.e.t) EXCEPT !.e.t = NO_JUMP]
ExitTrue(fs, last) == [luaK_patchtohere(ToT(fs, last), fs.e.f) EXCEPT !.e.f = NO_JUMP]

\* ... of an expression that is no variable any more
GoIfTrue(fs) ==
    LET onjump(f) == ExitFalse(f, pc(f) - 1)
    IN CASE fs.e.k \in {"VK", "VKNUM", "VTRUE"} -> ExitFalse(fs, NO_JUMP)
         [] fs.e.k = "VJMP" -> ExitFalse(invertjump(fs), fs.e.info)
         [] OTHER -> onjump(jumponcond(fs, 0))
luaK_goiftrue(fs) == GoIfTrue(luaK_dischargevars(fs))

GoIfFalse(fs) ==
    LET onjump(f) == ExitTrue(f, pc(f) - 1)
    IN CASE fs.e.k \in {"VNIL", "VFALSE"} -> ExitTrue(fs, NO_JUMP)
         [] fs.e.k = "VJMP" -> ExitTrue(fs, fs.e.info)
         [] OTHER -> onjump(jumponcond(fs, 1))
luaK_goiffalse(fs) == GoIfFalse(luaK_dischargevars(fs))

Negated(fs) ==
    LET code(f) == Relocable(luaK_codeABC(Freed(f), "NOT", 0, f.e.info, 0))
    IN CASE fs.e.k \in {"VNIL", "VFALSE"} -> [fs EXCEPT !.e.k = "VTRUE"]
         [] fs.e.k \in {"VK", "VKNUM", "VTRUE"} -> [fs EXCEPT !.e.k = "VFALSE"]
         [] fs.e.k = "VJMP" -> invertjump(fs)
         [] OTHER -> code(discharge2anyreg(fs))
codenot(fs) ==
    LET swapped(f) == [f EXCEPT !.e.t = f.e.f, !.e.f = f.e.t]
        valueless(f) == removevalues(removevalues(f, f.e.f), f.e.t)
    IN valueless(swapped(Negated(luaK_dischargevars(fs))))

-----------------------------------------------------------------------------
(* Operators.                                                              *)

constfolding(op, e1, e2) ==
    /\ isnumeral(e1) /\ isnumeral(e2)
    /\ op \in {"ADD", "SUB", "MUL", "MOD", "UNM"}
    /\ op = "MOD" => e2.info # 0

\* (Mutant: the operands are freed in their order, whatever registers they
\* have.)
FreedInOrder(fs, e1, o1, e2, o2) == freeexp(freeexp(fs, e1), e2)
\* the two operands, the one in the higher register first
FreedBoth(fs, e1, o1, e2, o2) ==
    IF o1 > o2 THEN freeexp(freeexp(fs, e1), e2) ELSE freeexp(freeexp(fs, e2), e1)

\* e1 op fs.e, the second operand ready
ArithWith(fs, op, e1) ==
    LET o2 == IF op \in {"UNM", "LEN"} THEN 0 ELSE RK(fs)
        code(f) == luaK_codeABC(FreedBoth(f, f.e, RK(f), fs.e, o2), op, 0, RK(f), o2)
    IN Relocable(code(luaK_exp2RK([fs EXCEPT !.e = e1])))
codearith(fs, op, e1) ==
    IF constfolding(op, e1, fs.e)
    THEN [fs EXCEPT !.e = [e1 EXCEPT !.info = Fold(op, e1.info, fs.e.info)]]
    ELSE ArithWith(IF op \in {"UNM", "LEN"} THEN fs ELSE luaK_exp2RK(fs), op, e1)

\* the comparison of fs.e, the first operand, ready, with e2
CompWith(fs, op, cond, e2) ==
    LET swap == cond = 0 /\ op # "EQ"
        a == RK(fs)
        code(f, b) == [condjump(freeexp(Freed(f), fs.e), op, IF swap THEN 1 ELSE cond,
                                IF swap THEN b ELSE a, IF swap THEN a ELSE b)
                          EXCEPT !.e = [fs.e EXCEPT !.info = pc(f) + 1, !.k = "VJMP"]]
        operand(f) == code(f, RK(f))
    IN operand(luaK_exp2RK([fs EXCEPT !.e = e2]))
codecomp(fs, op, cond, e1) == CompWith(luaK_exp2RK([fs EXCEPT !.e = e1]), op, cond, fs.e)

unary(fs, op) == codearith([fs EXCEPT !.e = Exp("VKNUM", 0)], op, fs.e)
luaK_prefix(fs, op) ==
    IF op = "not" THEN codenot(fs)
    ELSE unary(IF op = "-" /\ isnumeral(fs.e) THEN fs ELSE luaK_exp2anyreg(fs),
               IF op = "#" THEN "LEN" ELSE "UNM")

ArithOp == [o \in {"+", "-", "*", "/", "%", "^", ".."} |->
               CASE o = "+" -> "ADD" [] o = "-" -> "SUB" [] o = "*" -> "MUL" [] o = "/" -> "DIV"
                 [] o = "%" -> "MOD" [] o = "^" -> "POW" [] o = ".." -> "CONCAT"]

\* The operation and the condition of a comparison.
CompOp == [o \in {"==", "~=", "<", "<=", ">", ">="} |->
              CASE o = "==" -> <<"EQ", 1>> [] o = "~=" -> <<"EQ", 0>>
                [] o = "<" -> <<"LT", 1>> [] o = "<=" -> <<"LE", 1>>
                [] o = ">" -> <<"LT", 0>> [] o = ">=" -> <<"LE", 0>>]

luaK_infix(fs, op) ==
    CASE op = "and" -> luaK_goiftrue(fs)
      [] op = "or" -> luaK_goiffalse(fs)
      [] op = ".." -> luaK_exp2nextreg(fs)
      [] OTHER -> IF op \in DOMAIN ArithOp /\ isnumeral(fs.e) THEN fs ELSE luaK_exp2RK(fs)

\* The string that fs.e is goes into the CONCAT that it may be.
InConcat(fs) == fs.e.k = "VRELOCABLE" /\ At(fs, fs.e.info).op = "CONCAT"
Concat(fs, e1) ==
    [freeexp(lua_assert(fs, e1.info = At(fs, fs.e.info).b - 1), e1)
        EXCEPT !.code[fs.e.info + 1].b = e1.info,
               !.e = [e1 EXCEPT !.k = "VRELOCABLE", !.info = fs.e.info]]

\* fs.e is the second operand
binaryop(fs, op, e1) ==
    IF op = ".." /\ InConcat(fs) THEN Concat(fs, e1)
    ELSE codearith(IF op = ".." THEN luaK_exp2nextreg(fs) ELSE fs, ArithOp[op], e1)
luaK_posfix(fs, op, e1) ==
    CASE op = "and" -> ToF(lua_assert(luaK_dischargevars(fs), e1.t = NO_JUMP), e1.f)
      [] op = "or" -> ToT(lua_assert(luaK_dischargevars(fs), e1.f = NO_JUMP), e1.t)
      [] op \in DOMAIN ArithOp ->
            binaryop(IF op = ".." THEN luaK_exp2val(fs) ELSE fs, op, e1)
      [] OTHER -> codecomp(fs, CompOp[op][1], CompOp[op][2], e1)
=============================================================================
