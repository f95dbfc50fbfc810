----------------------------- MODULE LuaParser ------------------------------
(***************************************************************************)
(* The parser of the Lua compiler (lparser.c): recursive descent over the  *)
(* tokens of the lexer, which drives the code generator as it goes.  One   *)
(* operator for each rule, from parser state to parser state:              *)
(*   toks, pos   the tokens, and the one the parser looks at               *)
(*   ahead       1 when the lexer is one token ahead of it, 0 when not     *)
(*   lastline    the line of the token before it                           *)
(*   fs          the FuncState of the function being compiled; its prev    *)
(*               holds that of the enclosing function                      *)
(*   level       nested rules (L->nCcalls)                                 *)
(*   err         a syntax error was raised                                 *)
(* An error leaves the parser by a long jump; here it drains the tokens,   *)
(* and what the rules still return does not matter.                        *)
(***************************************************************************)
EXTENDS LuaCode, FiniteSetsExt

CONSTANTS LUAI_MAXVARS,     \* active local variables of a function
          LUAI_MAXUPVALUES

tok(s) == IF s.pos > Len(s.toks) THEN "EOS" ELSE s.toks[s.pos].tok[1]
sem(s) == s.toks[s.pos].tok[2]
linenumber(s) ==
    IF s.pos + s.ahead > Len(s.toks) THEN 0 ELSE s.toks[s.pos + s.ahead].line
luaX_next(s) == [s EXCEPT !.pos = @ + 1, !.ahead = 0, !.lastline = linenumber(s)]
luaX_lookahead(s) == [s EXCEPT !.ahead = 1]
\* the token after the one the parser looks at
nexttok(s) == tok(luaX_next(s))

\* luaX_syntaxerror
SyntaxError(s) == [s EXCEPT !.err = TRUE, !.pos = Len(s.toks) + 1,
                            !.fs.e = Exp("VNIL", 0)]

checknext(s, c) == IF tok(s) = c THEN luaX_next(s) ELSE SyntaxError(s)
testnext(s, c) == IF tok(s) = c THEN luaX_next(s) ELSE s

hasmultret(e) == e.k \in {"VCALL", "VVARARG"}
WithE(s, e) == [s EXCEPT !.fs.e = e]

enterlevel(s) ==
    IF s.level + 1 > LUAI_MAXCCALLS THEN [SyntaxError(s) EXCEPT !.level = @ + 1]
    ELSE [s EXCEPT !.level = @ + 1]
leavelevel(s) == [s EXCEPT !.level = @ - 1]

codestring(s, x) ==
    LET f == addk(s.fs, Str(x))
    IN [s EXCEPT !.fs = [f EXCEPT !.e = Exp("VK", KIndex(f, Str(x)))]]
checkname(s) ==
    IF tok(s) = "NAME" THEN codestring(luaX_next(s), sem(s)) ELSE SyntaxError(s)

-----------------------------------------------------------------------------
(* Variables.                                                              *)

\* The name at the current token becomes the local variable nactvar + n,
\* active from the next adjustlocalvars on.
Declare(s, name, n) ==
    IF s.fs.nactvar + n + 1 > LUAI_MAXVARS THEN SyntaxError(s)
    ELSE [s EXCEPT !.fs.actvar = Append(SubSeq(@, 1, s.fs.nactvar + n), name)]
new_localvar(s, n) ==
    IF tok(s) = "NAME" THEN Declare(luaX_next(s), sem(s), n) ELSE SyntaxError(s)

adjustlocalvars(s, nvars) == [s EXCEPT !.fs.nactvar = @ + nvars]

searchvar(fs, n) == Max({0} \cup {i \in 1..fs.nactvar : fs.actvar[i] = n}) - 1

\* the block that declares the variable must close it
markupval(fs, level) ==
    LET outer == {i \in DOMAIN fs.bl : fs.bl[i].nactvar <= level}
    IN IF outer = {} THEN fs ELSE [fs EXCEPT !.bl[Max(outer)].upval = TRUE]

indexupvalue(fs, name, v) ==
    LET same == {i \in DOMAIN fs.upvalues :
                    fs.upvalues[i].k = v.k /\ fs.upvalues[i].info = v.info}
        new == [fs EXCEPT !.upvalues = Append(@, [k |-> v.k, info |-> v.info, name |-> name]),
                          !.err = @ \/ Len(fs.upvalues) + 1 > LUAI_MAXUPVALUES]
    IN IF same # {} THEN [fs EXCEPT !.e = Exp("VUPVAL", Min(same) - 1)]
       ELSE [new EXCEPT !.e = Exp("VUPVAL", Len(fs.upvalues))]

RECURSIVE singlevaraux(_, _, _)
singlevaraux(fs, n, base) ==
    LET v == searchvar(fs, n)
        up == singlevaraux(fs.prev[1], n, FALSE)
        f == [fs EXCEPT !.prev = <<up>>, !.e = up.e]
    IN IF v >= 0 THEN [(IF base THEN fs ELSE markupval(fs, v)) EXCEPT !.e = Exp("VLOCAL", v)]
       ELSE IF fs.prev = <<>> THEN [fs EXCEPT !.e = Exp("VGLOBAL", NO_REG)]
       ELSE IF up.e.k = "VGLOBAL" THEN f ELSE indexupvalue(f, n, up.e)

singlevar(s) ==
    LET global(f) == [f EXCEPT !.e.info = KIndex(f, Str(sem(s)))]
        named(f) == IF f.e.k = "VGLOBAL" THEN global(addk(f, Str(sem(s)))) ELSE f
    IN IF tok(s) # "NAME" THEN SyntaxError(s)
       ELSE [luaX_next(s) EXCEPT !.fs = named(singlevaraux(@, sem(s), TRUE))]

adjust_assign(s, nvars, nexps) ==
    LET more == nvars - nexps
        extra == Max({0, more + 1})
        open(f) == IF extra > 1 THEN luaK_reserveregs(f, extra - 1) ELSE f
        closed(f) == IF more <= 0 THEN f
                     ELSE luaK_nil(luaK_reserveregs(f, more), f.freereg, more)
    IN [s EXCEPT !.fs = IF hasmultret(@.e) THEN open(luaK_setreturns(@, extra))
                        ELSE closed(IF @.e.k = "VVOID" THEN @ ELSE luaK_exp2nextreg(@))]

-----------------------------------------------------------------------------
(* Blocks and functions.                                                   *)

enterblock(s, isbreakable) ==
    [s EXCEPT !.fs = [lua_assert(@, @.freereg = @.nactvar) EXCEPT !.bl =
        Append(@, [breaklist |-> NO_JUMP, isbreakable |-> isbreakable,
                   nactvar |-> s.fs.nactvar, upval |-> FALSE])]]

\* (Mutant: the block does not close the variables it declares.)
leaveblockNoClose(s) ==
    LET bl == Last(s.fs.bl)
        f == [s.fs EXCEPT !.bl = Front(@), !.nactvar = bl.nactvar, !.freereg = bl.nactvar]
    IN [s EXCEPT !.fs = luaK_patchtohere(f, bl.breaklist)]

leaveblock(s) ==
    LET bl == Last(s.fs.bl)
        f1 == [s.fs EXCEPT !.bl = Front(@), !.nactvar = bl.nactvar]
        f2 == IF bl.upval THEN luaK_codeABC(f1, "CLOSE", bl.nactvar, 0, 0) ELSE f1
        f3 == [lua_assert(f2, ~(bl.isbreakable /\ bl.upval)) EXCEPT !.freereg = bl.nactvar]
    IN [s EXCEPT !.fs = luaK_patchtohere(f3, bl.breaklist)]

open_func(prev, vararg) ==
    [code |-> <<>>, lasttarget |-> -1, jpc |-> NO_JUMP, freereg |-> 0, nactvar |-> 0,
     actvar |-> <<>>, bl |-> <<>>, k |-> <<>>, p |-> <<>>, upvalues |-> <<>>,
     maxstack |-> 2, numparams |-> 0, is_vararg |-> vararg, prev |-> prev,
     e |-> Exp("VVOID", 0), err |-> FALSE, sound |-> TRUE]

\* close_func: the final return, and the prototype
Finished(fs) == luaK_ret([fs EXCEPT !.nactvar = 0], 0, 0)
Proto(fs) == [source |-> "chunk", upvalues |-> [i \in DOMAIN fs.upvalues |-> fs.upvalues[i].name],
              code |-> fs.code, k |-> fs.k, p |-> fs.p, nups |-> Len(fs.upvalues),
              numparams |-> fs.numparams, is_vararg |-> fs.is_vararg,
              maxstack |-> fs.maxstack]

\* an instruction after the CLOSURE for every upvalue it captures
pushclosure(fs, f) ==
    LET capture(u) == Instr(IF u.k = "VLOCAL" THEN "MOVE" ELSE "GETUPVAL", 0, u.info, 0)
        err == fs.err \/ Len(fs.p) + 1 > MAXARG_Bx
        new == [fs EXCEPT !.p = Append(@, Proto(f)), !.err = err]
    IN [luaK_codeABx(new, "CLOSURE", 0, Len(fs.p))
            EXCEPT !.code = @ \o [i \in DOMAIN f.upvalues |-> capture(f.upvalues[i])],
                   !.e = Exp("VRELOCABLE", pc(fs))]

-----------------------------------------------------------------------------
(* Functions.                                                              *)

\* The rules that may contain themselves; nested has their definitions.
RECURSIVE nested(_, _, _)
subexpr(s, limit) == nested("subexpr", s, limit)
primaryexp(s) == nested("primaryexp", s, 0)
constructor(s) == nested("constructor", s, 0)
chunk(s) == nested("chunk", s, 0)
\* one turn of the loop of chunk
OneStatement(s) == nested("statement", s, 0)

\* The rest of parlist after n parameters.
RECURSIVE params(_, _)
params(s, n) ==
    LET name == new_localvar(s, n)
        dots == [Declare(luaX_next(s), "arg", n)
                    EXCEPT !.fs.is_vararg = {"HASARG", "NEEDSARG", "ISVARARG"}]
    IN CASE tok(s) = "..." -> [s |-> dots, n |-> n + 1]
         [] tok(s) = "NAME" -> IF tok(name) = "," THEN params(luaX_next(name), n + 1)
                               ELSE [s |-> name, n |-> n + 1]
         [] OTHER -> [s |-> SyntaxError(s), n |-> n]

parlist(s) ==
    LET ps == IF tok(s) = ")" THEN [s |-> s, n |-> 0] ELSE params(s, 0)
        a == adjustlocalvars(ps.s, ps.n)
        hasarg == IF "HASARG" \in a.fs.is_vararg THEN 1 ELSE 0
    IN [a EXCEPT !.fs = luaK_reserveregs([@ EXCEPT !.numparams = a.fs.nactvar - hasarg],
                                         a.fs.nactvar)]

close_func(fs) ==
    LET outer(f) == [f.prev[1] EXCEPT !.err = @ \/ f.err,
                                      !.sound = @ /\ f.sound /\ f.bl = <<>>]
    IN pushclosure(outer(fs), fs)

body(s, needself) ==
    LET opened == checknext([s EXCEPT !.fs = open_func(<<s.fs>>, {})], "(")
        self == IF needself THEN adjustlocalvars(Declare(opened, "self", 0), 1) ELSE opened
    IN [checknext(chunk(checknext(parlist(self), ")")), "end")
           EXCEPT !.fs = close_func(Finished(@))]

-----------------------------------------------------------------------------
(* Expressions.                                                            *)

Unary == {"-", "not", "#"}
\* left and right priority of the binary operators
priority == [o \in {"+", "-", "*", "/", "%", "^", "..", "==", "~=", "<", "<=", ">", ">=",
                    "and", "or"} |->
                CASE o \in {"+", "-"} -> <<6, 6>> [] o \in {"*", "/", "%"} -> <<7, 7>>
                  [] o = "^" -> <<10, 9>> [] o = ".." -> <<5, 4>>
                  [] o = "and" -> <<2, 2>> [] o = "or" -> <<1, 1>>
                  [] OTHER -> <<3, 3>>]
UNARY_PRIORITY == 8

expr(s) == subexpr(s, 0)

\* the field of fs.e, a register, that the current name tells
named(s) == [checkname(s) EXCEPT !.fs = luaK_indexed(@, s.fs.e)]
\* fs.e is the object; the token is the dot or the colon
field(s) == named([luaX_next(s) EXCEPT !.fs = luaK_exp2anyreg(@)])

yindex(s) ==
    LET x == expr(luaX_next(s)) IN checknext([x EXCEPT !.fs = luaK_exp2val(@)], "]")

\* explist1: the values but the last go to registers; n counts them
RECURSIVE exprs(_, _)
exprs(s, n) ==
    LET x == expr(s)
    IN IF tok(x) = "," THEN exprs([luaX_next(x) EXCEPT !.fs = luaK_exp2nextreg(@)], n + 1)
       ELSE [s |-> x, n |-> n]
explist1(s) == exprs(s, 1)

RECURSIVE items(_, _)
\* the value of the field whose key, an operand, is fs.e
recvalue(s, freereg0, cc) ==
    LET set(fs) == [luaK_codeABC(fs, "SETTABLE", cc.tab, RK(s.fs), RK(fs))
                       EXCEPT !.freereg = freereg0]
    IN items([expr(s) EXCEPT !.fs = set(luaK_exp2RK(@))], [cc EXCEPT !.nh = @ + 1])
recfield(s, cc) ==
    recvalue([checknext(IF tok(s) = "NAME" THEN checkname(s) ELSE yindex(s), "=")
                 EXCEPT !.fs = luaK_exp2RK(@)], s.fs.freereg, cc)

listfield(s, cc) ==
    LET item(x) == items(x, [cc EXCEPT !.v = x.fs.e, !.na = @ + 1, !.tostore = @ + 1])
    IN item(expr(s))

\* The pending list item goes to a register, a full batch to the table.
closelistfield(fs, cc) ==
    LET full == cc.tostore = LFIELDS_PER_FLUSH
        flushed(f) == IF full THEN luaK_setlist(f, cc.tab, cc.na, cc.tostore) ELSE f
    IN IF cc.v.k = "VVOID" THEN [fs |-> fs, cc |-> cc]
       ELSE [fs |-> flushed(luaK_exp2nextreg([fs EXCEPT !.e = cc.v])),
             cc |-> [cc EXCEPT !.v.k = "VVOID", !.tostore = IF full THEN 0 ELSE @]]

\* an item after the pending one is closed
item(s0, closed) ==
    LET s == [IF tok(s0) = "NAME" THEN luaX_lookahead(s0) ELSE s0 EXCEPT !.fs = closed.fs]
    IN IF tok(s) = "[" \/ (tok(s) = "NAME" /\ nexttok(s) = "=")
       THEN recfield(s, closed.cc) ELSE listfield(s, closed.cc)

\* The loop of constructor, after an item or at the start (first).
items(s, cc) ==
    LET sep == IF cc.first \/ tok(s) \notin {",", ";"} THEN s ELSE luaX_next(s)
        more == cc.first \/ tok(s) \in {",", ";"}
        pending == cc.v.k = "VVOID" \/ cc.tostore > 0
    IN IF ~more \/ tok(sep) = "}" THEN [s |-> sep, cc |-> cc]
       ELSE item(sep, closelistfield(lua_assert(sep.fs, pending), [cc EXCEPT !.first = FALSE]))

lastlistfield(fs, cc) ==
    LET f == [fs EXCEPT !.e = cc.v]
    IN IF cc.tostore = 0 THEN fs
       ELSE IF hasmultret(cc.v)
       THEN luaK_setlist(luaK_setreturns(f, LUA_MULTRET), cc.tab, cc.na, LUA_MULTRET)
       ELSE luaK_setlist(IF cc.v.k = "VVOID" THEN f ELSE luaK_exp2nextreg(f),
                         cc.tab, cc.na, cc.tostore)
\* an open list at the end is not counted
Counted(cc) == IF cc.tostore > 0 /\ hasmultret(cc.v) THEN cc.na - 1 ELSE cc.na

\* NEWTABLE, at pc, gets the numbers of items (luaO_int2fb rounds them up).
closecons(all, at) ==
    LET sized(fs) == [fs EXCEPT !.code[at].b = Counted(all.cc), !.code[at].c = all.cc.nh,
                                !.e = Exp("VNONRELOC", all.cc.tab)]
    IN [checknext(all.s, "}") EXCEPT !.fs = sized(lastlistfield(@, all.cc))]
allitems(s) == items(checknext(s, "{"),
                     [v |-> Exp("VVOID", 0), tab |-> s.fs.e.info, nh |-> 0, na |-> 0,
                      tostore |-> 0, first |-> TRUE])
tablecons(s) ==
    LET new(fs) == [luaK_codeABC(fs, "NEWTABLE", 0, 0, 0) EXCEPT !.e = Exp("VRELOCABLE", pc(fs))]
    IN closecons(allitems([s EXCEPT !.fs = luaK_exp2nextreg(new(@))]), pc(s.fs) + 1)

CallTo(fs, base, open) ==
    LET nparams == IF open THEN LUA_MULTRET ELSE fs.freereg - (base + 1)
    IN [luaK_codeABC(fs, "CALL", base, nparams + 1, 2)
           EXCEPT !.e = Exp("VCALL", pc(fs)), !.freereg = base + 1]
\* the call with the arguments that end in fs.e
CallArgs(fs, base) ==
    CallTo(IF hasmultret(fs.e) \/ fs.e.k = "VVOID" THEN fs ELSE luaK_exp2nextreg(fs),
         base, hasmultret(fs.e))

\* fs.e is the function, in the register that becomes the base of the call
funcargs(s) ==
    LET open(x) == [x EXCEPT !.fs = luaK_setreturns(@, LUA_MULTRET)]
        args == CASE tok(s) = "(" /\ linenumber(s) # s.lastline -> SyntaxError(s)
                  [] tok(s) = "(" /\ nexttok(s) = ")" ->
                       WithE(luaX_next(luaX_next(s)), Exp("VVOID", 0))
                  [] tok(s) = "(" /\ nexttok(s) # ")" -> checknext(open(explist1(luaX_next(s)).s), ")")
                  [] tok(s) = "{" -> constructor(s)
                  [] tok(s) = "STRING" -> luaX_next(codestring(s, sem(s)))
                  [] OTHER -> SyntaxError(s)
    IN [args EXCEPT !.fs = CallArgs(lua_assert(@, s.fs.e.k = "VNONRELOC"), s.fs.e.info)]

prefixexp(s) ==
    LET x == checknext(expr(luaX_next(s)), ")")
    IN CASE tok(s) = "(" -> [x EXCEPT !.fs = luaK_dischargevars(@)]
         [] tok(s) = "NAME" -> singlevar(s)
         [] OTHER -> SyntaxError(s)

\* fs.e is the table, in a register
index(s) == [yindex(s) EXCEPT !.fs = luaK_indexed(@, s.fs.e)]
\* fs.e is the object
method(s) == [checkname(luaX_next(s)) EXCEPT !.fs = luaK_self([@ EXCEPT !.e = s.fs.e], @.e)]

RECURSIVE suffixes(_)
suffixes(s) ==
    CASE tok(s) = "." -> suffixes(field(s))
      [] tok(s) = "[" -> suffixes(index([s EXCEPT !.fs = luaK_exp2anyreg(@)]))
      [] tok(s) \in {":", "(", "STRING", "{"} ->
            suffixes(funcargs(IF tok(s) = ":" THEN method(s)
                              ELSE [s EXCEPT !.fs = luaK_exp2nextreg(@)]))
      [] OTHER -> s

simpleexp(s) ==
    LET t == tok(s)
        dots == [s.fs EXCEPT !.is_vararg = @ \ {"NEEDSARG"}]
        coded == luaK_codeABC(dots, "VARARG", 0, 1, 0)
    IN CASE t = "NUMBER" -> WithE(luaX_next(s), Exp("VKNUM", sem(s)))
         [] t = "STRING" -> luaX_next(codestring(s, sem(s)))
         [] t = "nil" -> WithE(luaX_next(s), Exp("VNIL", 0))
         [] t = "true" -> WithE(luaX_next(s), Exp("VTRUE", 0))
         [] t = "false" -> WithE(luaX_next(s), Exp("VFALSE", 0))
         [] t = "..." ->
               IF s.fs.is_vararg = {} THEN SyntaxError(s)
               ELSE [luaX_next(s) EXCEPT !.fs = [coded EXCEPT !.e = Exp("VVARARG", pc(coded) - 1)]]
         [] t = "{" -> constructor(s)
         [] t = "function" -> body(luaX_next(s), FALSE)
         [] OTHER -> primaryexp(s)

\* subexpr -> (simpleexp | unop subexpr) { binop subexpr }, for the binary
\* operators of a priority above limit
operand(s) ==
    IF tok(s) \in Unary
    THEN [subexpr(luaX_next(s), UNARY_PRIORITY) EXCEPT !.fs = luaK_prefix(@, tok(s))]
    ELSE simpleexp(s)
RECURSIVE binaries(_, _)
\* fs.e is the first operand, the token the operator
binary(s, limit) ==
    LET op == tok(s)
    IN binaries([subexpr(luaX_next(s), priority[op][2]) EXCEPT !.fs = luaK_posfix(@, op, s.fs.e)],
                limit)
binaries(s, limit) ==
    IF tok(s) \notin DOMAIN priority \/ priority[tok(s)][1] <= limit THEN s
    ELSE binary([s EXCEPT !.fs = luaK_infix(@, tok(s))], limit)

-----------------------------------------------------------------------------
(* Statements.                                                             *)

block_follow == {"else", "elseif", "end", "until", "EOS"}

block(s) == leaveblock(chunk(enterblock(s, FALSE)))

\* A list of jumps is returned beside the state: the exits of a condition.
WithExits(s) == [s |-> s, f |-> s.fs.e.f]
cond(s) ==
    LET jump(fs) == luaK_goiftrue([fs EXCEPT !.e.k = IF @ = "VNIL" THEN "VFALSE" ELSE @])
    IN WithExits([expr(s) EXCEPT !.fs = jump(@)])

\* (Mutant: the loop remembers its last break only.)
breakstatLastOnly(s) ==
    LET loops == {i \in DOMAIN s.fs.bl : s.fs.bl[i].isbreakable}
    IN IF loops = {} THEN SyntaxError(s)
       ELSE [s EXCEPT !.fs = [luaK_jump(@) EXCEPT !.bl[Max(loops)].breaklist = pc(s.fs)]]
breakstat(s) ==
    LET loops == {i \in DOMAIN s.fs.bl : s.fs.bl[i].isbreakable}
        b == Max(loops)
        upval == \E i \in (b + 1)..Len(s.fs.bl) : s.fs.bl[i].upval
        f1 == IF upval THEN luaK_codeABC(s.fs, "CLOSE", s.fs.bl[b].nactvar, 0, 0) ELSE s.fs
        j == pc(f1)
        f2 == Linked(luaK_jump(f1), s.fs.bl[b].breaklist, j)
    IN IF loops = {} THEN SyntaxError(s)
       ELSE [s EXCEPT !.fs = [f2 EXCEPT !.bl[b].breaklist = Joined(@, j)]]

JumpBack(s, target) == [s EXCEPT !.fs = luaK_patchlist(luaK_jump(@), pc(s.fs), target)]
PatchHere(s, list) == [s EXCEPT !.fs = luaK_patchtohere(@, list)]

loopbody(c, init) ==
    JumpBack(block(checknext(enterblock(c.s, TRUE), "do")), init)
whilerest(c, init) == PatchHere(leaveblock(checknext(loopbody(c, init), "end")), c.f)
whilestat(s) ==
    whilerest(cond(luaX_next([s EXCEPT !.fs = luaK_getlabel(@)])), pc(s.fs))

\* the end of the scope of a repeat, after its condition
untilrest(c, init) ==
    IF Last(c.s.fs.bl).upval
    THEN JumpBack(leaveblock(PatchHere(breakstat(c.s), c.f)), init)
    ELSE [leaveblock(c.s) EXCEPT !.fs = luaK_patchlist(@, c.f, init)]
repeatstat(s) ==
    LET start == enterblock(enterblock([s EXCEPT !.fs = luaK_getlabel(@)], TRUE), FALSE)
    IN leaveblock(untilrest(cond(checknext(chunk(luaX_next(start)), "until")), pc(s.fs)))

forblock(s, nvars) ==
    LET scope == adjustlocalvars(enterblock(s, FALSE), nvars)
    IN leaveblock(block([scope EXCEPT !.fs = luaK_reserveregs(@, nvars)]))
\* the end of a for loop, whose body starts at prep + 1
forloop(s, prep, base, nvars, isnum) ==
    IF isnum
    THEN [s EXCEPT !.fs = luaK_patchlist(luaK_codeABx(@, "FORLOOP", base, NO_JUMP),
                                         pc(s.fs), prep + 1)]
    ELSE JumpBack([s EXCEPT !.fs = luaK_codeABC(@, "TFORLOOP", base, 0, nvars)], prep + 1)
forbody(s, base, nvars, isnum) ==
    LET start == checknext(adjustlocalvars(s, 3), "do")
        loop == [start EXCEPT !.fs = IF isnum THEN luaK_codeABx(@, "FORPREP", base, NO_JUMP)
                                              ELSE luaK_jump(@)]
    IN forloop(PatchHere(forblock(loop, nvars), pc(s.fs)), pc(s.fs), base, nvars, isnum)

ForVars(s, names) == FoldLeft(LAMBDA x, i : Declare(x, names[i], i - 1), s,
                              [i \in 1..Len(names) |-> i])

exp1(s) == LET x == expr(s) IN [x EXCEPT !.fs = luaK_exp2nextreg(@)]

forstep(s) ==
    LET loadone(fs) == luaK_codeABx(fs, "LOADK", fs.freereg, KIndex(fs, Num(1)))
    IN IF tok(s) = "," THEN exp1(luaX_next(s))
       ELSE [s EXCEPT !.fs = luaK_reserveregs(loadone(addk(@, Num(1))), 1)]
fornum(s, varname) ==
    LET vars == ForVars(s, <<"(for index)", "(for limit)", "(for step)", varname>>)
    IN forbody(forstep(exp1(checknext(exp1(checknext(vars, "=")), ","))),
               s.fs.freereg, 1, TRUE)

RECURSIVE names(_, _)
\* new_localvar for every further name of a list, from variable n on
names(s, n) == IF tok(s) = "," THEN names(new_localvar(luaX_next(s), n), n + 1)
               ELSE [s |-> s, n |-> n]

generator(list) ==
    [adjust_assign(list.s, 3, list.n) EXCEPT !.fs = luaK_checkstack(@, 3)]
forin(vars, base) ==
    forbody(generator(explist1(checknext(vars.s, "in"))), base, vars.n - 3, FALSE)
forlist(s, indexname) ==
    forin(names(ForVars(s, <<"(for generator)", "(for state)", "(for control)", indexname>>), 4),
          s.fs.freereg)

forstat(s) ==
    LET start == luaX_next(enterblock(s, TRUE))
        name == luaX_next(start)
    IN IF tok(start) # "NAME" THEN SyntaxError(s)
       ELSE leaveblock(checknext(
              CASE tok(name) = "=" -> fornum(name, sem(start))
                [] tok(name) \in {",", "in"} -> forlist(name, sem(start))
                [] OTHER -> SyntaxError(name), "end"))

thenblock(c) == [s |-> block(checknext(c.s, "then")), f |-> c.f]
test_then_block(s) == thenblock(cond(luaX_next(s)))

RECURSIVE ifrest(_, _)
\* after a then block whose condition leaves flist; escape: the jumps past it
ifrest(c, escape) ==
    LET s == c.s
        j == pc(s.fs)
        over == [s EXCEPT !.fs = luaK_patchtohere(Linked(luaK_jump(@), escape, j), c.f)]
        last == [s EXCEPT !.fs = Linked(@, escape, c.f)]
    IN CASE tok(s) = "elseif" -> ifrest(test_then_block(over), Joined(escape, j))
         [] tok(s) = "else" -> PatchHere(block(luaX_next(over)), Joined(escape, j))
         [] OTHER -> PatchHere(last, Joined(escape, c.f))
ifstat(s) == checknext(ifrest(test_then_block(s), NO_JUMP), "end")

localfunc(s) ==
    LET declared == [new_localvar(s, 0) EXCEPT !.fs = luaK_reserveregs(@, 1)]
    IN [body(adjustlocalvars(declared, 1), FALSE)
           EXCEPT !.fs = luaK_storevar(@, Exp("VLOCAL", s.fs.freereg))]

localvalues(list, n) == adjustlocalvars(adjust_assign(list.s, n, list.n), n)
localvars(vars) ==
    localvalues(IF tok(vars.s) = "=" THEN explist1(luaX_next(vars.s))
                ELSE [s |-> WithE(vars.s, Exp("VVOID", 0)), n |-> 0], vars.n)
localstat(s) == localvars(names(new_localvar(s, 0), 1))

RECURSIVE fieldsOf(_)
fieldsOf(s) == IF tok(s) = "." THEN fieldsOf(field(s)) ELSE s
funcbody(s, needself) ==
    [body(s, needself) EXCEPT !.fs = luaK_storevar(@, s.fs.e)]
funcname(s) == funcbody(IF tok(s) = ":" THEN field(s) ELSE s, tok(s) = ":")
funcstat(s) == funcname(fieldsOf(singlevar(luaX_next(s))))

\* A local variable that an earlier target of the assignment indexes gets a
\* copy, which that target uses.
check_conflict(fs, lh, v) ==
    LET clash(x) == x.k = "VINDEXED" /\ (x.info = v.info \/ x.aux = v.info)
        safe(x) == IF clash(x) THEN [x EXCEPT !.info = IF @ = v.info THEN fs.freereg ELSE @,
                                              !.aux = IF @ = v.info THEN fs.freereg ELSE @]
                   ELSE x
    IN IF v.k # "VLOCAL" \/ \A i \in DOMAIN lh : ~clash(lh[i]) THEN [fs |-> fs, lh |-> lh]
       ELSE [fs |-> luaK_reserveregs(luaK_codeABC(fs, "MOVE", fs.freereg, v.info, 0), 1),
             lh |-> [i \in DOMAIN lh |-> safe(lh[i])]]

RECURSIVE Store(_, _)
\* the targets but the last, from right to left, each from the top register
Store(lh, x) ==
    LET top(fs) == [fs EXCEPT !.e = Exp("VNONRELOC", fs.freereg - 1)]
    IN IF lh = <<>> THEN x
       ELSE Store(Front(lh), [x EXCEPT !.fs = luaK_storevar(top(@), Last(lh))])

RECURSIVE assignment(_, _)
nexttarget(s, lh) ==
    LET free == check_conflict(s.fs, lh, s.fs.e)
    IN assignment([s EXCEPT !.fs = free.fs], free.lh)
\* the values of a list go to the targets lh
assigned(list, lh) ==
    LET n == Len(lh)
        adjusted(x) == [adjust_assign(x, n, list.n)
                           EXCEPT !.fs.freereg = @ - Max({0, list.n - n})]
    IN Store(IF list.n = n THEN Front(lh) ELSE lh,
             IF list.n = n THEN [list.s EXCEPT !.fs = luaK_storevar(luaK_setoneret(@), Last(lh))]
             ELSE adjusted(list.s))
\* prev: the targets before the one in fs.e
assignment(s, prev) ==
    LET lh == Append(prev, s.fs.e)
    IN IF s.fs.e.k \notin {"VLOCAL", "VUPVAL", "VGLOBAL", "VINDEXED"} THEN SyntaxError(s)
       ELSE IF tok(s) = "," /\ Len(lh) > LUAI_MAXCCALLS - s.level THEN SyntaxError(s)
       ELSE IF tok(s) = "," THEN nexttarget(primaryexp(luaX_next(s)), lh)
       ELSE assigned(explist1(checknext(s, "=")), lh)

exprstat(s) ==
    LET x == primaryexp(s)
    IN IF x.fs.e.k = "VCALL" THEN [x EXCEPT !.fs.code[x.fs.e.info + 1].c = 1]
       ELSE assignment(x, <<>>)

retopen(fs, n) ==
    LET tail(f) == [lua_assert(f, At(f, f.e.info).a = f.nactvar)
                       EXCEPT !.code[f.e.info + 1].op = "TAILCALL"]
    IN luaK_ret(IF fs.e.k = "VCALL" /\ n = 1 THEN tail(fs) ELSE fs, fs.nactvar, LUA_MULTRET)
retone(fs) == luaK_ret(fs, fs.e.info, 1)
retseveral(fs, n) == luaK_ret(lua_assert(fs, n = fs.freereg - fs.nactvar), fs.nactvar, n)
retvalues(list) ==
    [list.s EXCEPT !.fs =
        IF hasmultret(@.e) THEN retopen(luaK_setreturns(@, LUA_MULTRET), list.n)
        ELSE IF list.n = 1 THEN retone(luaK_exp2anyreg(@))
        ELSE retseveral(luaK_exp2nextreg(@), list.n)]
retstat(s0) ==
    LET s == luaX_next(s0)
    IN IF tok(s) \in block_follow \cup {";"} THEN [s EXCEPT !.fs = luaK_ret(@, 0, 0)]
       ELSE retvalues(explist1(s))

statement(s) ==
    LET t == tok(s)
    IN CASE t = "if" -> ifstat(s)
         [] t = "while" -> whilestat(s)
         [] t = "do" -> checknext(block(luaX_next(s)), "end")
         [] t = "for" -> forstat(s)
         [] t = "repeat" -> repeatstat(s)
         [] t = "function" -> funcstat(s)
         [] t = "local" -> IF nexttok(s) = "function"
                           THEN localfunc(luaX_next(luaX_next(s))) ELSE localstat(luaX_next(s))
         [] t = "return" -> retstat(s)
         [] t = "break" -> breakstat(luaX_next(s))
         [] OTHER -> exprstat(s)

\* The registers above the locals are free after a statement.
cleared(s) ==
    LET ok == s.fs.maxstack >= s.fs.freereg /\ s.fs.freereg >= s.fs.nactvar
    IN [s EXCEPT !.fs = [lua_assert(@, ok) EXCEPT !.freereg = s.fs.nactvar]]

RECURSIVE statements(_)
statements(s) ==
    IF tok(s) \in block_follow THEN s
    ELSE IF tok(s) \in {"return", "break"} THEN OneStatement(s)
    ELSE statements(OneStatement(s))

\* A chunk and a subexpression count how deeply rules are nested.
nested(rule, s, limit) ==
    CASE rule = "statement" -> cleared(testnext(statement(s), ";"))
      [] rule = "chunk" -> leavelevel(statements(enterlevel(s)))
      [] rule = "primaryexp" -> suffixes(prefixexp(s))
      [] rule = "constructor" -> tablecons(s)
      [] rule = "subexpr" -> leavelevel(binaries(operand(enterlevel(s)), limit))

\* luaY_parser before the first statement of the main function
luaY_open(toks) == enterlevel([toks |-> toks, pos |-> 1, ahead |-> 0, lastline |-> 1,
                               level |-> 0, err |-> FALSE,
                               fs |-> open_func(<<>>, {"ISVARARG"})])
\* luaY_parser after the last one
luaY_close(s) == LET f == Finished(s.fs)
                 IN [s EXCEPT !.fs = f, !.err = @ \/ f.err \/ tok(s) # "EOS"]
=============================================================================
