---------------------------- MODULE MCLuaCompiler ---------------------------
(* The programs the compiler is checked on: every logical expression over    *)
(* two arguments up to a size, in every place an expression can stand, and   *)
(* programs for the rest of the language.  The value of an expression is     *)
(* defined here from the reference manual, apart from the compiler.          *)
EXTENDS LuaCompiler, LuaLex

-----------------------------------------------------------------------------
(* Expressions: an atom is <<word>>, a node <<operator, operand(s)>>.        *)

Value(w, a) == CASE w = "nil" -> NilV [] w = "false" -> Bool(FALSE)
                 [] w = "1" -> Num(1) [] w = "x" -> a[1] [] w = "y" -> a[2]

Failed == <<"error">>
RECURSIVE Eval(_, _)
Eval(e, a) ==
    LET l == Eval(e[2], a)
        r == Eval(e[3], a)
        nums == l[1] = "num" /\ r[1] = "num"
    IN CASE Len(e) = 1 -> Value(e[1], a)
         [] l = Failed -> Failed
         [] e[1] = "not" -> Bool(IsFalse(l))
         [] e[1] = "and" -> IF IsFalse(l) THEN l ELSE r
         [] e[1] = "or" -> IF IsFalse(l) THEN r ELSE l
         [] r = Failed -> Failed
         [] e[1] = "==" -> Bool(l = r)
         [] e[1] = "~=" -> Bool(l # r)
         [] ~nums -> Failed
         [] e[1] = "<" -> Bool(l[2] < r[2])
         [] e[1] = ">=" -> Bool(l[2] >= r[2])
         [] e[1] = "+" -> Num(l[2] + r[2])
         [] e[1] = "-" -> Num(l[2] - r[2])

Prec(e) == IF Len(e) = 1 THEN 9
           ELSE CASE e[1] = "or" -> 1 [] e[1] = "and" -> 2
                  [] e[1] \in {"==", "~=", "<", ">="} -> 3
                  [] e[1] \in {"+", "-"} -> 6 [] e[1] = "not" -> 8

\* The words of an expression, with no parenthesis that is not needed.
RECURSIVE Words(_)
Operand(e, min) == IF Prec(e) < min THEN <<"(">> \o Words(e) \o <<")">> ELSE Words(e)
Words(e) ==
    CASE Len(e) = 1 -> e
      [] Len(e) = 2 -> <<e[1]>> \o Operand(e[2], Prec(e))
      [] OTHER -> Operand(e[2], Prec(e)) \o <<e[1]>> \o Operand(e[3], Prec(e) + 1)

Atoms == {<<"x">>, <<"y">>, <<"1">>, <<"nil">>}
Simple == {<<op, a, b>> : op \in {"and", "or"}, a \in Atoms, b \in Atoms}
          \cup {<<"not", a>> : a \in Atoms}
          \cup {<<op, <<"x">>, b>> : op \in {"<", ">=", "==", "~="}, b \in Atoms}
Vars == {<<"x">>, <<"y">>}
Terms == {<<op, <<"x">>, <<"y">>>> : op \in {"and", "or", "==", "<"}}
         \cup {<<"not", a>> : a \in Vars} \cup {<<"+", <<"y">>, <<"1">>>>}
         \cup {<<"and", <<"not", <<"x">>>>, <<"y">>>>, <<"or", <<"y">>, <<"not", <<"x">>>>>>} \cup {<<"1">>, <<"false">>}
Expressions == Simple
               \cup {<<op, a, b>> : op \in {"and", "or"}, a \in Terms, b \in Terms}
               \cup {<<op, a, <<"y">>>> : op \in {"==", ">="}, a \in Terms}
               \cup {<<op, <<"not", a>>, b>> : op \in {"and", "or"}, a \in Terms, b \in Terms}
               \cup {<<"==", a, b>> : a \in Terms, b \in Terms}
               \cup {<<"not", e>> : e \in Simple \cup Terms}

-----------------------------------------------------------------------------
(* Expressions in their places; x and y are the arguments.                   *)

Joint(words) == FoldLeft(LAMBDA s0, w : s0 \o " " \o w, "", words)

Places == {"return", "local", "if", "while", "own", "closure", "field", "arg"}
Place(pl, e) ==
    CASE pl = "return" -> "return" \o e
      [] pl = "local" -> "local z =" \o e \o " return z"
      [] pl = "if" -> "if" \o e \o " then return 1 else return 2 end"
      [] pl = "while" -> "while" \o e \o " do return 1 end return 2"
      [] pl = "own" -> "x =" \o e \o " return x"
      [] pl = "closure" -> "return (function() return" \o e \o " end)()"
      [] pl = "field" -> "local t = {k =" \o e \o "} return t.k"
      [] pl = "arg" -> "return id(1," \o e \o ")"
Placed(pl, v) ==
    CASE v = Failed -> Failed
      [] pl \in {"if", "while"} -> IF IsFalse(v) THEN <<Num(2)>> ELSE <<Num(1)>>
      [] pl = "arg" -> <<Num(1), v>>
      [] OTHER -> <<v>>

ExprPrograms ==
    {[toks |-> "local x, y = ... " \o Place(pl, Joint(Words(e))), valid |-> TRUE,
      dump |-> FALSE, want |-> [a \in Args |-> Placed(pl, Eval(e, a))]] :
        pl \in Places, e \in Expressions}

-----------------------------------------------------------------------------
(* Programs for the rest of the language.                                    *)

N(ns) == [i \in DOMAIN ns |-> Num(ns[i])]
Program(text, want) == [toks |-> text, valid |-> TRUE, dump |-> TRUE, want |-> want]
P(text, vs) == Program(text, [a \in Args |-> vs])
Fails(text) == P(text, Failed)
Invalid(text) == [toks |-> text, valid |-> FALSE, dump |-> FALSE, want |-> <<>>]
T == Bool(TRUE)
F == Bool(FALSE)

Closures == {
    P("local t = {} for i = 1, 3 do t[i] = function() i = i + 1 return i end if i == 2 then break end end return t[1](), t[1](), t[2](), t[3]",
      N(<<2, 3, 3>>) \o <<NilV>>),
    P("local f local n = 0 repeat local j = n f = function() return j end n = n + 1 until f() == 2 return n, f()",
      N(<<3, 2>>)),
    P("local f while true do local i = 1 f = function() i = i + 1 return i end break end return f(), f()",
      N(<<2, 3>>)),
    P("local function c() local n = 0 return function() n = n + 1 return n end, function() return n end end local f, g = c() f() return f(), g()",
      N(<<2, 2>>)),
    P("local n = 1 local function f() return function() n = n + 1 return n end end return f()(), n",
      N(<<2, 2>>)),
    P("local f do local z = 1 f = function() z = z + 1 return z end end local w = 9 return f(), w",
      N(<<2, 9>>)),
    P("local n = 0 while n < 5 do do local q = function() return n end if q() == 2 then break end end n = n + 1 end return n",
      N(<<2>>)),
    P("local a = 1 local function f() a, g = 5, a end f() return a, g", N(<<5, 1>>))}

Loops == {
    P("local n = 0 for i, s in upto, 3 do n = n + i * s end return n", N(<<18>>)),
    P("local function it(s, c) if c < s then return c + 1 end end local n = 0 for i in it, 2, 0 do n = n * 2 + i end return n",
      N(<<4>>)),
    P("local n = 0 for i = 3, 1, -1 do n = n * 2 + i end for i = 1, 0 do n = 9 end return n", N(<<17>>)),
    P("local n = 0 while 1 do n = n + 1 if n == 3 then return n end end", N(<<3>>)),
    P("local i, s = 0, 0 repeat local z if z then s = 5 end z = 1 i = i + 1 until i == 2 return s",
      N(<<0>>)),
    P("local n = 0 while 1 do n = n + 1 if n == 2 then break end if n == 9 then break end end return n",
      N(<<2>>)),
    Fails("for i = 's', 2 do end")}

Lists == {
    P("local t = {1, 2, k = 3, 4, two()} return #t, t[3], t[4], t.k, t[5]", N(<<5, 4, 1, 3, 2>>)),
    P("local t = {two(), (two())} return t[1], t[2], t[3]", N(<<1, 1>>) \o <<NilV>>),
    Program("local t = {...} return t[1], t[2]", [a \in Args |-> a]),
    P("local a, i = {}, 1 i, a[i] = 2, 5 return i, a[1], a[2]", N(<<2, 5>>) \o <<NilV>>),
    P("local a = {} a.k, a = 1, a return a.k", N(<<1>>)),
    Program("local x, y = ... x, y = y, x return x, y", [a \in Args |-> <<a[2], a[1]>>]),
    P("local a, b = 1 local c, d = two(), 5, 6 a, b = b, two() return a, b, c, d",
      <<NilV>> \o N(<<1, 1, 5>>)),
    P("local t = {1, 2} t[1], t[2] = t[2], t[1] return t[1], t[2]", N(<<2, 1>>)),
    P("do local c = 1 end local d return d", <<NilV>>),
    P("local t = {} t[1] = 's' t[2] = 'k' t['s'] = t[2] .. 3 return t.s, t[1]",
      <<Str("k3"), Str("s")>>),
    Fails("local t return t.k"), Fails("local t = {} t[nil] = 1")}

Calls == {
    P("local o = {v = 1} function o:inc(n) self.v = self.v + n return self end return o:inc(2):inc(1).v",
      N(<<4>>)),
    P("local o = {p = {}} function o.p.f(a) return a end return o.p.f('s')", <<Str("s")>>),
    P("local function f(...) return ... end return (f(1, 2)), f(3, 4)", N(<<1, 3, 4>>)),
    P("function f(a, ...) return arg.n, arg[1] end return f(5, 's')", <<Num(1), Str("s")>>),
    P("local function f(a, ...) local n = {...} return #n, a, arg end return f(1, 2, 3)",
      N(<<2, 1>>) \o <<NilV>>),
    P("local function f(...) local a, b = ..., 3 return a, b end return f(1, 2)", N(<<1, 3>>)),
    P("local function f(n) if n == 0 then return 's' end return f(n - 1) end return f(3)",
      <<Str("s")>>),
    P("g = 1 function h() g = g + 1 end h() h() return g", N(<<3>>)),
    P("local function f() end return f(), (f())", <<NilV, NilV>>),
    P("local function f() return; end return f()", <<>>), P("", <<>>),
    P("return id('s'\n), id\n's', id\n{k = 1}.k", <<Str("s"), Str("s"), Num(1)>>),
    P("local t = {id\n(1), k = id(\r\n2)} return t[1], t.k", N(<<1, 2>>)),
    P("return id's', id{k = 1}.k", <<Str("s"), Num(1)>>),
    Program("return (...)", [a \in Args |-> <<a[1]>>]),
    Fails("local x = 1 return x()")}

Operators == {
    P("return 2 + 3 * 4 - 1, -2 % 5, 7 % 3, -(3 - 5)", N(<<13, 3, 1, 2>>)),
    P("local a, b = 7, 2 return a + b * a - b, a % b, -a", N(<<19, 1, -7>>)),
    P("local x, y = 2, 1 return x > y, x >= y, x < y, x <= y, x ~= y, not (x == y)",
      <<T, T, F, F, T, T>>),
    P("return 's' .. 1 .. 'k', 2 .. ''", <<Str("s1k"), Str("2")>>),
    P("return two() and 's', (nil or two())", <<Str("s"), Num(1)>>),
    Program("local x = ... if x == 1 then return 's' elseif not x then return 'k' else return x end",
            [a \in Args |-> IF a[1] = Num(1) THEN <<Str("s")>>
                            ELSE IF IsFalse(a[1]) THEN <<Str("k")>> ELSE <<a[1]>>]),
    P("--[[ not\n this ]] return [[\ns]], [==[k]]]==], '\\65\\n\\'', 0x1f -- end",
      <<Str("s"), Str("k]]"), Str("A\n'"), Num(31)>>),
    Program("local x = ... return x == nil, x ~= false",
            [a \in Args |-> <<Bool(a[1] = NilV), Bool(a[1] # F)>>]),
    Fails("return nil + 1"), Fails("return {} < {}")}

Metatables == {
    P("local t = setmetatable({}, {__index = function(t, k) return k end}) return t.s, t[3]",
      <<Str("s"), Num(3)>>),
    P("local a = {k = 1} local b = setmetatable({}, {__index = a}) local c = setmetatable({}, {__index = b}) return c.k, c.z",
      <<Num(1), NilV>>),
    Fails("local t = {} setmetatable(t, {__index = t}) return t.k"),
    P("local log = {} local t = setmetatable({}, {__newindex = log}) t.k = 1 return t.k, log.k",
      <<NilV, Num(1)>>),
    P("local n = 0 local t = setmetatable({}, {__newindex = function(t, k, v) n = n + v rawset(t, k, v) end}) t.k = 1 t.k = 5 return n, t.k",
      N(<<1, 5>>)),
    P("local t = {} setmetatable(t, t) t.k = 1 t.__newindex = function() end t.z = 2 return t.k, t.z",
      <<Num(1), NilV>>),
    P("local mt = {} local t = setmetatable({}, mt) local k = t.k mt.__index = {k = 's'} return k, t.k",
      <<NilV, Str("s")>>),
    P("local mt = {} mt.__add = function(a, b) return 's' end mt.__unm = function(a) return 5 end local t = setmetatable({}, mt) return t + 1, 1 + t, -t",
      <<Str("s"), Str("s"), Num(5)>>),
    P("local eq = function() return 1 end local a = setmetatable({}, {__eq = eq}) local b = setmetatable({}, {__eq = eq}) return a == b, a ~= b, a == 1",
      <<T, F, F>>),
    P("local mt = {__lt = function(a, b) return a.v < b.v end} local a = setmetatable({v = 1}, mt) local b = setmetatable({v = 2}, mt) return a < b, a > b, a <= b, a >= b",
      <<T, F, T, F>>),
    P("local mt = {__le = function(a, b) return a.v end} local a = setmetatable({v = 1}, mt) local b = setmetatable({}, mt) return a <= b, b <= a",
      <<T, F>>),
    P("local t = setmetatable({}, {__concat = function(a, b) return 'c' end}) return 1 .. t .. 's', 's' .. t",
      <<Str("1c"), Str("c")>>),
    P("local t = setmetatable({}, {__call = function(t, a) return a end}) return (t(4)), t(5)",
      N(<<4, 5>>)),
    P("local t = setmetatable({}, {__call = function(t, a) return a end}) return t(4)", N(<<4>>)),
    P("local C = {} C.__index = C function C:get() return self.v end local o = setmetatable({v = 's'}, C) return o:get()",
      <<Str("s")>>),
    Fails("local t = setmetatable({}, {}) return t < t"), Fails("return {} + 1")}

Times(text, n) == FoldLeft(LAMBDA t, i : t \o text, "", [i \in 1 .. n |-> i])

\* Just within a limit, and just beyond it.
Limits == {
    P("local a, b, c, d, e, f", <<>>), Invalid("local a, b, c, d, e, f, g"),
    P("local a, b, c = 1, 2, 3 return (function() return a + b end)()", N(<<3>>)),
    Invalid("local a, b, c return function() return a, b, c end"),
    P("return ((((((((((1))))))))))", N(<<1>>)), Invalid("return (((((((((((1)))))))))))"),
    P("return 1, 2, 3, 4, 5, 6, 7, 8, 9, 10, 11", N([i \in 1..11 |-> i])),
    Invalid("return 1, 2, 3, 4, 5, 6, 7, 8, 9, 10, 11, 12"),
    P("local x if x then" \o Times(" x = 1", 30) \o " end", <<>>),
    Invalid("local x if x then" \o Times(" x = 1", 31) \o " end"),
    P("local x while x do" \o Times(" x = 1", 27) \o " end", <<>>),
    Invalid("local x while x do" \o Times(" x = 1", 28) \o " end"),
    P("local x" \o FoldLeft(LAMBDA t, i : t \o " x = " \o ToString(i), "", [i \in 1 .. 12 |-> i]) \o " return x",
      N(<<12>>)),
    Invalid("local x" \o FoldLeft(LAMBDA t, i : t \o " x = " \o ToString(i), "", [i \in 1 .. 13 |-> i]) \o " return x"),
    P("local f" \o Times(" f = function() end", 12), <<>>),
    Invalid("local f" \o Times(" f = function() end", 13))}

Malformed == {Invalid(t) : t \in {
    "return return", "break", "x = ", "local x = 1 1", "(1) = 2", "f() = 1", "if x then",
    "return 1 x = 2", "for x do end", "local 1", "x, f() = 1, 2", "return 's", "return [[ ",
    "return '\\300'", "return 12ab", "function f() return ... end", "return [=x", "x = @",
    "return --[[ x", "return [[ [[ ]]", "{} = 1", "local function t.f() end", "x:f = 1", "id\n(1)", "return id --\r\n(1)", "local t = {{id\n}, id['s']\n(1)}",
    "while x do end end", "x = {1 2}", "f(", "x = }"}}

\* the texts, as the lexer gives them to the parser
AllPrograms == {[q EXCEPT !.toks = Tokens(@)] : q \in
                    ExprPrograms \cup Closures \cup Loops \cup Lists \cup Calls
                    \cup Metatables \cup Operators \cup Limits \cup Malformed}
ArgLists == {<<NilV, Num(2)>>, <<Num(1), NilV>>, <<F, F>>, <<Num(2), Num(1)>>}
GlobalVars == Str("id") :> <<"cfun", "id">> @@ Str("two") :> <<"cfun", "two">>
              @@ Str("upto") :> <<"cfun", "upto">>
              @@ Str("setmetatable") :> <<"cfun", "setmetatable">>
              @@ Str("rawset") :> <<"cfun", "rawset">>
=============================================================================
