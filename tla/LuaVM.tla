------------------------------- MODULE LuaVM -------------------------------
(***************************************************************************)
(* The interpreter of Lua (luaV_execute of lvm.c with the calls of ldo.c), *)
(* one instruction at a time, and the checker of the code it trusts        *)
(* (symbexec of ldebug.c).                                                 *)
(*                                                                         *)
(* A machine is a record: frames (the CallInfos, each with its own window  *)
(* of registers), tabs, cells (upvalues), funs (closures), env, status     *)
(* and res (the values the main function returned).  An open upvalue is a  *)
(* cell that stands for a register of its frame until luaF_close.  Only    *)
(* tables have metatables, strings have no order and are not converted to  *)
(* numbers, and the hooks of the debug library are left out.               *)
(***************************************************************************)
EXTENDS LuaValues, FiniteSets

CONSTANT MAXTAGLOOP   \* objects that one access may go through

ASSUME MaxTagLoopAssumption == MAXTAGLOOP \in Nat \ {0}

OpModes == \* op |-> <<T, A, B, C>>: test, sets A, argument modes
    [o \in {"MOVE", "LOADNIL", "UNM", "NOT", "LEN"} |-> <<FALSE, TRUE, "R", "N">>]
    @@ [o \in {"GETUPVAL", "VARARG"} |-> <<FALSE, TRUE, "U", "N">>]
    @@ [o \in {"LOADBOOL", "NEWTABLE", "CALL", "TAILCALL"} |-> <<FALSE, TRUE, "U", "U">>]
    @@ [o \in {"GETTABLE", "SELF"} |-> <<FALSE, TRUE, "R", "K">>]
    @@ [o \in {"ADD", "SUB", "MUL", "DIV", "MOD", "POW"} |-> <<FALSE, TRUE, "K", "K">>]
    @@ [o \in {"EQ", "LT", "LE"} |-> <<TRUE, FALSE, "K", "K">>]
    @@ [o \in {"TEST", "TESTSET"} |-> <<TRUE, TRUE, "R", "U">>]
    @@ ("SETUPVAL" :> <<FALSE, FALSE, "U", "N">>) @@ ("SETTABLE" :> <<FALSE, FALSE, "K", "K">>)
    @@ ("CONCAT" :> <<FALSE, TRUE, "R", "R">>) @@ ("RETURN" :> <<FALSE, FALSE, "U", "N">>)
    @@ ("TFORLOOP" :> <<TRUE, FALSE, "N", "U">>) @@ ("SETLIST" :> <<FALSE, FALSE, "U", "U">>)
    @@ ("CLOSE" :> <<FALSE, FALSE, "N", "N">>)
ABx == {"LOADK", "GETGLOBAL", "SETGLOBAL", "CLOSURE"}
AsBx == {"JMP", "FORLOOP", "FORPREP"}

-----------------------------------------------------------------------------
(* symbexec: what a function must satisfy before it may run.               *)

\* (The table of line numbers is left out.)
precheck(pt) ==
    /\ pt.maxstack <= MAXSTACK
    /\ pt.numparams + (IF "HASARG" \in pt.is_vararg THEN 1 ELSE 0) <= pt.maxstack
    /\ "NEEDSARG" \in pt.is_vararg => "HASARG" \in pt.is_vararg
    /\ Len(pt.upvalues) <= pt.nups
    /\ pt.code # <<>> /\ Last(pt.code).op = "RETURN"

luaG_checkopenop(i) == i.op \in {"CALL", "TAILCALL", "RETURN", "SETLIST"} /\ i.b = 0

checkArgMode(pt, r, mode) ==
    CASE mode = "N" -> r = 0
      [] mode = "R" -> r < pt.maxstack
      [] mode = "K" -> IF ISK(r) THEN r - BITRK < Len(pt.k) ELSE r < pt.maxstack
      [] OTHER -> TRUE

\* The instruction at pc, by its operation; op(n) is the instruction n later.
CheckOp(pt, i, at, op(_)) ==
    LET size == Len(pt.code)
        reg(r) == r < pt.maxstack
    IN CASE i.op = "LOADBOOL" -> i.c = 1 => /\ at + 2 < size
                                            /\ op(1).op = "SETLIST" => op(1).c # 0
         [] i.op \in {"GETUPVAL", "SETUPVAL"} -> i.b < pt.nups
         [] i.op \in {"GETGLOBAL", "SETGLOBAL"} -> pt.k[i.b + 1][1] = "str"
         [] i.op = "SELF" -> reg(i.a + 1)
         [] i.op = "CONCAT" -> i.b < i.c
         [] i.op = "TFORLOOP" -> i.c >= 1 /\ reg(i.a + 2 + i.c)
         [] i.op \in {"FORLOOP", "FORPREP"} -> reg(i.a + 3)
         [] i.op \in {"CALL", "TAILCALL"} ->
               /\ i.b # 0 => reg(i.a + i.b - 1)
               /\ IF i.c = 0 THEN luaG_checkopenop(op(1)) ELSE i.c > 1 => reg(i.a + i.c - 2)
         [] i.op = "RETURN" -> i.b > 1 => reg(i.a + i.b - 2)
         [] i.op = "SETLIST" -> /\ i.b > 0 => reg(i.a + i.b)
                                /\ i.c = 0 => at + 1 < size - 1
         [] i.op = "CLOSURE" ->
               /\ i.b < Len(pt.p) /\ at + pt.p[i.b + 1].nups < size
               /\ \A j \in 1..pt.p[i.b + 1].nups : op(j).op \in {"GETUPVAL", "MOVE"}
         [] i.op = "VARARG" ->
               /\ "ISVARARG" \in pt.is_vararg /\ "NEEDSARG" \notin pt.is_vararg
               /\ i.b = 0 => luaG_checkopenop(op(1))
               /\ reg(i.a + i.b - 2)
         [] OTHER -> TRUE

\* symbexec of the whole function: every instruction but the count that
\* follows a SETLIST without one
symbexec(pt) ==
    LET size == Len(pt.code)
        data == {n \in 1..size : n > 1 /\ pt.code[n - 1].op = "SETLIST" /\ pt.code[n - 1].c = 0}
        okay(n) ==
            LET i == pt.code[n]
                mode == OpModes[i.op]
                dest == n + i.b
            IN /\ i.a < pt.maxstack
               /\ IF i.op \in ABx
                  THEN i.op # "CLOSURE" => i.b < Len(pt.k)
                  ELSE IF i.op \in AsBx
                  THEN 0 <= dest /\ dest < size /\ dest + 1 \notin data
                  ELSE /\ checkArgMode(pt, i.b, mode[3]) /\ checkArgMode(pt, i.c, mode[4])
                       /\ mode[1] => n + 1 < size /\ pt.code[n + 1].op = "JMP"
               /\ CheckOp(pt, i, n - 1, LAMBDA j : pt.code[n + j])
    IN precheck(pt) /\ \A n \in (1..size) \ data : okay(n)

-----------------------------------------------------------------------------
(* Registers and calls.                                                    *)

Top(m) == Last(m.frames)
SetTop(m, fr) == [m EXCEPT !.frames[Len(m.frames)] = fr]

Reg(m, i) == LET fr == Top(m)
             IN IF i \in DOMAIN fr.open THEN m.cells[fr.open[i]] ELSE fr.r[i]
SetReg(m, i, v) ==
    LET fr == Top(m)
    IN IF i \in DOMAIN fr.open THEN [m EXCEPT !.cells[fr.open[i]] = v]
       ELSE SetTop(m, [fr EXCEPT !.r = (i :> v) @@ @])
\* vs to the registers from i on
SetRegs(m, i, vs) ==
    LET fr == Top(m)
        regs == i..(i + Len(vs) - 1)
        open(c) == {x \in regs \cap DOMAIN fr.open : fr.open[x] = c}
        set == SetTop(m, [fr EXCEPT !.r = [x \in regs \ DOMAIN fr.open |-> vs[x - i + 1]] @@ @])
    IN [set EXCEPT !.cells = [c \in DOMAIN m.cells |->
           IF open(c) = {} THEN m.cells[c] ELSE vs[(CHOOSE x \in open(c) : TRUE) - i + 1]]]
Regs(m, i, n) == [j \in 1..n |-> Reg(m, i + j - 1)]
Const(m, x) == Top(m).p.k[x + 1]
RKv(m, x) == IF ISK(x) THEN Const(m, x - BITRK) ELSE Reg(m, x)
Jump(m, n) == [m EXCEPT !.frames[Len(m.frames)].pc = @ + n]
Raise(m) == [m EXCEPT !.status = "error"]
IsFunction(v) == v[1] \in {"fun", "cfun"}
IsFalse(v) == v \in {NilV, Bool(FALSE)}

luaF_close(m, level) ==
    LET fr == Top(m)
        closed == {i \in DOMAIN fr.open : i >= level}
    IN SetTop(m, [fr EXCEPT
         !.r = [i \in closed |-> m.cells[fr.open[i]]] @@ @,
         !.open = [i \in DOMAIN @ \ closed |-> @[i]]])

\* The cells of registers, opened where there are none.
luaF_findupval(m, regs) ==
    LET fr == Top(m)
        new == SetToSeq(regs \ DOMAIN fr.open)
        cell(x) == Len(m.cells) + (CHOOSE j \in DOMAIN new : new[j] = x)
    IN SetTop([m EXCEPT !.cells = @ \o [j \in DOMAIN new |-> fr.r[new[j]]]],
              [fr EXCEPT !.open = [x \in Range(new) |-> cell(x)] @@ @])

\* Tables hold their fields, their metatable (0: none) and the metamethods
\* known to be absent from them when they serve as a metatable.
NewTable(fields) == [map |-> fields, meta |-> 0, flags |-> {}]
GetTable(m, t, key) == LET map == m.tabs[t[2]].map
                       IN IF key \in DOMAIN map THEN map[key] ELSE NilV
SetTable(m, t, key, v) == [m EXCEPT !.tabs[t[2]].map = (key :> v) @@ @]
Meta(m, v) == IF v[1] = "tab" THEN m.tabs[v[2]].meta ELSE 0

\* luaT_gettmbyobj
Metamethod(m, v, event) ==
    IF Meta(m, v) = 0 THEN NilV ELSE GetTable(m, <<"tab", Meta(m, v)>>, Str(event))

\* fasttm and luaT_gettm: the metamethod, and the machine that may have noted
\* its absence
fasttm(m, mt, event) ==
    LET tm == GetTable(m, <<"tab", mt>>, Str(event))
    IN IF mt = 0 \/ event \in m.tabs[mt].flags THEN [m |-> m, tm |-> NilV]
       ELSE [m |-> IF tm = NilV THEN [m EXCEPT !.tabs[mt].flags = @ \cup {event}] ELSE m,
             tm |-> tm]

\* A test that holds does the jump that follows, otherwise skips it.
Test(m, holds) == Jump(m, IF holds THEN Top(m).p.code[Top(m).pc + 1].b + 1 ELSE 1)

-----------------------------------------------------------------------------
(* Calls.  What happens to the results of a call: <<"regs">> stores them,  *)
(* <<"loop">> is the call of a generator, <<"test", truth>> a comparison   *)
(* that holds when its result is so, <<"concat", vs>> concatenates vs and  *)
(* the result.                                                             *)

Regs1 == <<"regs">>

\* The next pass of luaV_concat is over vs, its result for register ra.
Concatenating(m, vs, ra) == [m EXCEPT !.frames[Len(m.frames)].concat = <<vs, ra>>]

\* luaD_poscall: n results (all of them for LUA_MULTRET) from register ra on
Deliver(m, ra, n, vs, cont) ==
    LET wanted == IF n = LUA_MULTRET THEN vs
                  ELSE [j \in 1..n |-> IF j <= Len(vs) THEN vs[j] ELSE NilV]
        set == SetRegs(m, ra, wanted)
        next == Top(m).p.code[Top(m).pc + 1]
    IN CASE cont[1] = "regs" ->
               IF n = LUA_MULTRET THEN [set EXCEPT !.frames[Len(m.frames)].top = ra + Len(vs)]
               ELSE set
         [] cont[1] = "loop" -> IF Reg(set, ra) = NilV THEN Jump(set, 1)
                                ELSE Jump(SetReg(set, ra - 1, Reg(set, ra)), next.b + 1)
         [] cont[1] = "test" -> Test(m, IsFalse(wanted[1]) # cont[2])
         [] OTHER -> Concatenating(m, cont[2] \o wanted, ra)

\* The C functions the programs use: results and machine.
CFunction(m, f, args) ==
    LET a(i) == IF i <= Len(args) THEN args[i] ELSE NilV
        vs(x) == [m |-> m, vs |-> x]
    IN CASE f = "id" -> vs(args)
         [] f = "two" -> vs(<<Num(1), Num(2)>>)
         [] f = "upto" -> \* a generator: 1, 2, ... up to the state
              vs(IF a(2) = NilV THEN <<Num(1), a(1)>>
                 ELSE IF a(2)[2] < a(1)[2] THEN <<Num(a(2)[2] + 1), a(1)>> ELSE <<NilV>>)
         [] f = "setmetatable" ->
              [m |-> [m EXCEPT !.tabs[a(1)[2]].meta = IF a(2) = NilV THEN 0 ELSE a(2)[2]],
               vs |-> <<a(1)>>]
         [] OTHER -> \* rawset
              [m |-> [SetTable(m, a(1), a(2), a(3)) EXCEPT !.tabs[a(1)[2]].flags = {}],
               vs |-> <<a(1)>>]

\* luaD_precall of a Lua function, with adjust_varargs: the new frame
NewFrame(fn, args, arg, ra, n, cont) ==
    LET p == fn.p
        fixed == [i \in 0..(p.maxstack - 1) |->
                     IF i < p.numparams /\ i < Len(args) THEN args[i + 1]
                     ELSE IF i = p.numparams /\ "NEEDSARG" \in p.is_vararg THEN arg
                     ELSE NilV]
    IN [p |-> p, up |-> fn.up, r |-> fixed, top |-> 0, pc |-> 0, ret |-> ra, nres |-> n,
        cont |-> cont, concat |-> <<>>, open |-> [i \in {} |-> 0],
        va |-> IF p.is_vararg = {} THEN <<>> ELSE SubSeq(args, p.numparams + 1, Len(args))]

\* luaD_precall
\* tryfuncTM: what is called, and with what
Callee(m, f, args) ==
    LET tm == Metamethod(m, f, "__call")
    IN IF IsFunction(f) \/ ~IsFunction(tm) THEN [f |-> f, args |-> args]
       ELSE [f |-> tm, args |-> <<f>> \o args]

Call(m, f0, args0, ra, n, cont) ==
    LET f == Callee(m, f0, args0).f
        args == Callee(m, f0, args0).args
        fn == m.funs[f[2]]
        extra == SubSeq(args, fn.p.numparams + 1, Len(args))
        argtab == [i \in {Num(j) : j \in DOMAIN extra} |-> extra[i[2]]]
                  @@ (Str("n") :> Num(Len(extra)))
        m1 == IF "NEEDSARG" \in fn.p.is_vararg
              THEN [m EXCEPT !.tabs = Append(@, NewTable(argtab))] ELSE m
        done == CFunction(m, f[2], args)
    IN CASE f[1] = "cfun" -> Deliver(done.m, ra, n, done.vs, cont)
         [] f[1] = "fun" ->
              [m1 EXCEPT !.frames = Append(@,
                  NewFrame(fn, args, <<"tab", Len(m1.tabs)>>, ra, n, cont))]
         [] OTHER -> Raise(m)

Return(m, vs) ==
    LET fr == Top(m)
        rest == [m EXCEPT !.frames = Front(@)]
    IN IF Len(m.frames) = 1 THEN [rest EXCEPT !.status = "done", !.res = vs]
       ELSE Deliver(rest, fr.ret, fr.nres, vs, fr.cont)

-----------------------------------------------------------------------------
(* Operations on values and their metamethods.                             *)

\* object: the one the access has come to by following metamethods that are
\* no functions
luaV_gettable(m, t0, key, ra) ==
    LET raw(t) == GetTable(m, t, key)
        fast(t) == fasttm(m, Meta(m, t), "__index")
        follows(t) == /\ t[1] = "tab" /\ raw(t) = NilV
                      /\ fast(t).tm # NilV /\ ~IsFunction(fast(t).tm)
        object[n \in 0..(MAXTAGLOOP - 1)] ==
            IF n = 0 THEN t0
            ELSE IF follows(object[n - 1]) THEN fast(object[n - 1]).tm ELSE object[n - 1]
        t == object[MAXTAGLOOP - 1]
    IN IF t[1] # "tab" \/ follows(t) THEN Raise(m)
       ELSE IF raw(t) # NilV THEN SetReg(m, ra, raw(t))
       ELSE IF fast(t).tm = NilV THEN SetReg(fast(t).m, ra, NilV)
       ELSE Call(m, fast(t).tm, <<t, key>>, ra, 1, Regs1)

\* (Mutant: what the lookup noted about a table that is its own metatable is
\* kept when the field is set.)
SetFieldKeepFlags(m, t, key, v) == SetTable(m, t, key, v)
SetField(m, t, key, v) == [SetTable(m, t, key, v) EXCEPT !.tabs[t[2]].flags = {}]

\* luaH_set: the field is there, with no value when it is new.
Field(m, t, key) == [SetTable(m, t, key, GetTable(m, t, key)) EXCEPT !.tabs[t[2]].flags = {}]

\* The field is made before the metamethod is looked up; a table may be its
\* own metatable.  An access a is a machine and the object it has come to by
\* following metamethods that are no functions.
Made(a, key) == Field(a.m, a.t, key)
NewIndex(a, key) == fasttm(Made(a, key), Meta(a.m, a.t), "__newindex")
Follows(a, key) == /\ a.t[1] = "tab" /\ key # NilV /\ GetTable(a.m, a.t, key) = NilV
                   /\ NewIndex(a, key).tm # NilV /\ ~IsFunction(NewIndex(a, key).tm)
Followed(a, key) ==
    IF Follows(a, key) THEN [m |-> Made(a, key), t |-> NewIndex(a, key).tm] ELSE a
Access(m, t, key) ==
    LET access[n \in 0..(MAXTAGLOOP - 1)] ==
            IF n = 0 THEN [m |-> m, t |-> t] ELSE Followed(access[n - 1], key)
    IN access[MAXTAGLOOP - 1]

luaV_settable(m, t, key, v) ==
    LET a == Access(m, t, key)
        fast == NewIndex(a, key)
    IN IF a.t[1] # "tab" \/ key = NilV \/ Follows(a, key) THEN Raise(a.m)
       ELSE IF GetTable(a.m, a.t, key) # NilV THEN SetField(Made(a, key), a.t, key, v)
       ELSE IF fast.tm = NilV THEN SetField(fast.m, a.t, key, v)
       ELSE Call(Made(a, key), fast.tm, <<a.t, key, v>>, 0, 0, Regs1)

\* call_binTM: the metamethod of the first operand, else of the second
BinaryTM(m, x, y, event) ==
    IF Metamethod(m, x, event) # NilV THEN Metamethod(m, x, event) ELSE Metamethod(m, y, event)

EventOf == [op \in {"ADD", "SUB", "MUL", "DIV", "MOD", "POW", "UNM"} |->
               CASE op = "ADD" -> "__add" [] op = "SUB" -> "__sub" [] op = "MUL" -> "__mul"
                 [] op = "DIV" -> "__div" [] op = "MOD" -> "__mod" [] op = "POW" -> "__pow"
                 [] op = "UNM" -> "__unm"]
Arith(m, op, x, y, ra) ==
    LET tm == BinaryTM(m, x, y, EventOf[op])
    IN IF x[1] = "num" /\ y[1] = "num" THEN SetReg(m, ra, Num(Fold(op, x[2], y[2])))
       ELSE IF tm = NilV THEN Raise(m) ELSE Call(m, tm, <<x, y>>, ra, 1, Regs1)

\* a border of the table
Length(m, t) ==
    CHOOSE n \in 0..Cardinality(DOMAIN m.tabs[t[2]].map) :
        /\ \A i \in 1..n : GetTable(m, t, Num(i)) # NilV
        /\ GetTable(m, t, Num(n + 1)) = NilV

Text(v) == IF v[1] = "num" THEN ToString(v[2]) ELSE v[2]
\* One pass of luaV_concat, over the last two values; the result goes to
\* register ra.
luaV_concat(m, vs, ra) ==
    LET n == Len(vs)
        x == vs[n - 1]
        y == vs[n]
        rest == SubSeq(vs, 1, n - 2)
        tm == BinaryTM(m, x, y, "__concat")
    IN IF n = 1 THEN SetReg(m, ra, y)
       ELSE IF {x[1], y[1]} \subseteq {"num", "str"}
       THEN Concatenating(m, Append(rest, Str(Text(x) \o Text(y))), ra)
       ELSE IF tm = NilV THEN Raise(m)
       ELSE Call(m, tm, <<x, y>>, ra, 1, <<"concat", rest>>)

\* get_compTM and luaV_equalval: the jump is done when the answer is want
luaV_equalval(m, x, y, want) ==
    LET f1 == fasttm(m, Meta(m, x), "__eq")
        f2 == fasttm(f1.m, Meta(m, y), "__eq")
        same == Meta(m, x) = Meta(m, y)
        tm == IF f1.tm = NilV \/ same \/ f1.tm = f2.tm THEN f1.tm ELSE NilV
        m1 == IF f1.tm = NilV \/ same THEN f1.m ELSE f2.m
    IN IF x = y \/ x[1] # "tab" \/ y[1] # "tab" THEN Test(m, (x = y) = want)
       ELSE IF tm = NilV THEN Test(m1, ~want)
       ELSE Call(m1, tm, <<x, y>>, 0, 1, <<"test", want>>)

\* call_orderTM: both operands must have the same metamethod
OrderTM(m, x, y, event) ==
    IF Metamethod(m, x, event) = Metamethod(m, y, event) THEN Metamethod(m, x, event) ELSE NilV

luaV_lessthan(m, x, y, want) ==
    LET tm == OrderTM(m, x, y, "__lt")
    IN CASE x[1] = "num" /\ y[1] = "num" -> Test(m, (x[2] < y[2]) = want)
         [] x[1] = y[1] /\ tm # NilV -> Call(m, tm, <<x, y>>, 0, 1, <<"test", want>>)
         [] OTHER -> Raise(m)

\* without __le, not y < x
lessequal(m, x, y, want) ==
    LET le == OrderTM(m, x, y, "__le")
    IN CASE x[1] = "num" /\ y[1] = "num" -> Test(m, (x[2] <= y[2]) = want)
         [] x[1] = y[1] /\ le # NilV -> Call(m, le, <<x, y>>, 0, 1, <<"test", want>>)
         [] OTHER -> luaV_lessthan(m, y, x, ~want)

-----------------------------------------------------------------------------
(* luaV_execute: the next instruction.                                     *)

Closure(m, i) ==
    LET p == Top(m).p.p[i.b + 1]
        at == Top(m).pc
        ups == [j \in 1..p.nups |-> Top(m).p.code[at + j]]
        opened == luaF_findupval(m, {ups[j].b : j \in {j \in 1..p.nups : ups[j].op = "MOVE"}})
        up == [j \in 1..p.nups |-> IF ups[j].op = "MOVE" THEN Top(opened).open[ups[j].b]
                                   ELSE Top(m).up[ups[j].b + 1]]
        made == [opened EXCEPT !.funs = Append(@, [p |-> p, up |-> up])]
    IN Jump(SetReg(made, i.a, <<"fun", Len(made.funs)>>), p.nups)

ForLoop(m, i) ==
    LET step == Reg(m, i.a + 2)[2]
        idx == Reg(m, i.a)[2] + step
        limit == Reg(m, i.a + 1)[2]
    IN IF IF step > 0 THEN idx <= limit ELSE limit <= idx
       THEN Jump(SetReg(SetReg(m, i.a, Num(idx)), i.a + 3, Num(idx)), i.b) ELSE m
ForPrep(m, i) ==
    IF \E j \in 0..2 : Reg(m, i.a + j)[1] # "num" THEN Raise(m)
    ELSE Jump(SetReg(m, i.a, Num(Reg(m, i.a)[2] - Reg(m, i.a + 2)[2])), i.b)

SetList(m, i) ==
    LET n == IF i.b = 0 THEN Top(m).top - i.a - 1 ELSE i.b
        c == IF i.c = 0 THEN Top(m).p.code[Top(m).pc + 1].a ELSE i.c
        first == (c - 1) * LFIELDS_PER_FLUSH
        tab == Reg(m, i.a)[2]
        vals == [k \in {Num(first + j) : j \in 1..n} |-> Reg(m, i.a + k[2] - first)]
    IN Jump([m EXCEPT !.tabs[tab].map =
                 [k \in DOMAIN vals \cup DOMAIN @ |-> IF k \in DOMAIN vals THEN vals[k] ELSE @[k]]],
            IF i.c = 0 THEN 1 ELSE 0)

VarArg(m, i) ==
    LET va == Top(m).va
        n == IF i.b = 0 THEN Len(va) ELSE i.b - 1
        set == SetRegs(m, i.a, [j \in 1..n |-> IF j <= Len(va) THEN va[j] ELSE NilV])
    IN IF i.b = 0 THEN [set EXCEPT !.frames[Len(m.frames)].top = i.a + n] ELSE set

\* The values from register i on: n - 1 of them, or up to top when n is 0.
Operands(m, i, n) == Regs(m, i, IF n = 0 THEN Top(m).top - i ELSE n - 1)

Moves(m, i) ==
    CASE i.op = "MOVE" -> SetReg(m, i.a, Reg(m, i.b))
      [] i.op = "LOADK" -> SetReg(m, i.a, Const(m, i.b))
      [] i.op = "LOADBOOL" -> Jump(SetReg(m, i.a, Bool(i.b = 1)), i.c)
      [] i.op = "LOADNIL" -> SetRegs(m, i.a, [j \in 1..(i.b - i.a + 1) |-> NilV])
      [] i.op = "GETUPVAL" -> SetReg(m, i.a, m.cells[Top(m).up[i.b + 1]])
      [] i.op = "SETUPVAL" -> [m EXCEPT !.cells[Top(m).up[i.b + 1]] = Reg(m, i.a)]
      [] i.op = "GETGLOBAL" -> luaV_gettable(m, m.env, Const(m, i.b), i.a)
      [] i.op = "SETGLOBAL" -> luaV_settable(m, m.env, Const(m, i.b), Reg(m, i.a))

Tables(m, i) ==
    CASE i.op = "GETTABLE" -> luaV_gettable(m, Reg(m, i.b), RKv(m, i.c), i.a)
      [] i.op = "SETTABLE" -> luaV_settable(m, Reg(m, i.a), RKv(m, i.b), RKv(m, i.c))
      [] i.op = "NEWTABLE" ->
            SetReg([m EXCEPT !.tabs = Append(@, NewTable([x \in {} |-> NilV]))],
                   i.a, <<"tab", Len(m.tabs) + 1>>)
      [] i.op = "SELF" -> luaV_gettable(SetReg(m, i.a + 1, Reg(m, i.b)), Reg(m, i.b),
                                        RKv(m, i.c), i.a)
      [] i.op = "SETLIST" -> SetList(m, i)

Operations(m, i) ==
    LET b == Reg(m, i.b)
    IN CASE i.op = "UNM" -> Arith(m, "UNM", b, b, i.a)
         [] i.op = "NOT" -> SetReg(m, i.a, Bool(IsFalse(b)))
         [] i.op = "LEN" -> CASE b[1] = "tab" -> SetReg(m, i.a, Num(Length(m, b)))
                              [] b[1] = "str" -> SetReg(m, i.a, Num(Len(b[2])))
                              [] OTHER -> Raise(m)
         [] i.op = "CONCAT" -> luaV_concat(m, Regs(m, i.b, i.c - i.b + 1), i.a)
         [] OTHER -> Arith(m, i.op, RKv(m, i.b), RKv(m, i.c), i.a)

Branches(m, i) ==
    LET holds == IsFalse(Reg(m, IF i.op = "TEST" THEN i.a ELSE i.b)) # (i.c = 1)
    IN CASE i.op = "JMP" -> Jump(m, i.b)
         [] i.op = "EQ" -> luaV_equalval(m, RKv(m, i.b), RKv(m, i.c), i.a = 1)
         [] i.op = "LT" -> luaV_lessthan(m, RKv(m, i.b), RKv(m, i.c), i.a = 1)
         [] i.op = "LE" -> lessequal(m, RKv(m, i.b), RKv(m, i.c), i.a = 1)
         [] i.op = "TEST" -> Test(m, holds)
         [] i.op = "TESTSET" -> IF holds THEN Test(SetReg(m, i.a, Reg(m, i.b)), TRUE)
                                ELSE Test(m, FALSE)
         [] i.op = "FORLOOP" -> ForLoop(m, i)
         [] i.op = "FORPREP" -> ForPrep(m, i)
         [] i.op = "TFORLOOP" ->
               Call(SetRegs(m, i.a + 3, Regs(m, i.a, 3)), Reg(m, i.a), Regs(m, i.a + 1, 2),
                    i.a + 3, i.c, <<"loop">>)

\* The frame of the caller is gone when a tail call runs a Lua function.
TailCall(m, i, args) ==
    LET fr == Top(m)
        closed == luaF_close(m, 0)
        lua == Callee(m, Reg(m, i.a), args).f[1] = "fun"
    IN IF ~lua THEN Call(m, Reg(m, i.a), args, i.a, LUA_MULTRET, Regs1)
       ELSE Call([closed EXCEPT !.frames = Front(@)], Reg(m, i.a), args,
                 fr.ret, fr.nres, fr.cont)

Functions(m, i) ==
    LET args == Operands(m, i.a + 1, i.b)
    IN CASE i.op = "CALL" -> Call(m, Reg(m, i.a), args, i.a, i.c - 1, Regs1)
         [] i.op = "TAILCALL" -> TailCall(m, i, args)
         [] i.op = "RETURN" -> Return(luaF_close(m, 0), Operands(m, i.a, i.b))
         [] i.op = "CLOSE" -> luaF_close(m, i.a)
         [] i.op = "CLOSURE" -> Closure(m, i)
         [] i.op = "VARARG" -> VarArg(m, i)

Execute(m0) ==
    LET i == Top(m0).p.code[Top(m0).pc + 1]
        m == Jump(m0, 1)
    IN CASE i.op \in {"MOVE", "LOADK", "LOADBOOL", "LOADNIL", "GETUPVAL", "SETUPVAL",
                      "GETGLOBAL", "SETGLOBAL"} -> Moves(m, i)
         [] i.op \in {"GETTABLE", "SETTABLE", "NEWTABLE", "SELF", "SETLIST"} -> Tables(m, i)
         [] i.op \in {"JMP", "EQ", "LT", "LE", "TEST", "TESTSET", "FORLOOP", "FORPREP",
                      "TFORLOOP"} -> Branches(m, i)
         [] i.op \in {"CALL", "TAILCALL", "RETURN", "CLOSE", "CLOSURE", "VARARG"} ->
               Functions(m, i)
         [] OTHER -> Operations(m, i)

\* The next instruction, or the next pass of a concatenation.
Advance(m) ==
    LET concat == Top(m).concat
    IN IF concat = <<>> THEN Execute(m)
       ELSE luaV_concat([m EXCEPT !.frames[Len(m.frames)].concat = <<>>], concat[1], concat[2])
=============================================================================
