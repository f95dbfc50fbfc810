----------------------------- MODULE BinaryChunk ----------------------------
(***************************************************************************)
(* Precompiled chunks: luaU_dump writes a function, luaU_undump reads it   *)
(* back.  A chunk is a sequence of items, one for each block the code      *)
(* writes; an item is a tuple whose first element tells its kind, which    *)
(* the reader does not see.  Line numbers and the names of local variables *)
(* are left out.                                                           *)
(*                                                                         *)
(* A load carries z: the items left, whether it still succeeds, the nested *)
(* calls and the value read last.                                          *)
(***************************************************************************)
EXTENDS LuaVM

Header == <<"header">>
None == <<"str", "">>     \* the string of size 0, read as NULL
Item(kind, v) == <<kind, v>>
Vector(vs, Dumped(_)) == <<Item("int", Len(vs))>> \o FlattenSeq([i \in DOMAIN vs |-> Dumped(vs[i])])

-----------------------------------------------------------------------------
(* luaU_dump                                                               *)

DumpString(x) == <<Item("str", x)>>
DumpConstant(k) == <<Item("type", k[1])>> \o
    IF k[1] = "nil" THEN <<>> ELSE <<Item(k[1], k[2])>>

RECURSIVE DumpFunction(_, _, _)
\* p is the source of the function around: it is not written twice
DumpFunction(f, p, strip) ==
    (IF f.source = p \/ strip THEN <<None>> ELSE DumpString(f.source))
    \o <<Item("nups", f.nups), Item("numparams", f.numparams),
         Item("is_vararg", f.is_vararg), Item("maxstack", f.maxstack)>>
    \o Vector(f.code, LAMBDA i : <<i>>)
    \o Vector(f.k, DumpConstant)
    \o Vector(f.p, LAMBDA g : DumpFunction(g, f.source, strip))
    \o Vector(IF strip THEN <<>> ELSE f.upvalues, DumpString)

luaU_dump(f, strip) == <<Header>> \o DumpFunction(f, "", strip)

-----------------------------------------------------------------------------
(* luaU_undump                                                             *)

error(z) == [z EXCEPT !.ok = FALSE, !.in = <<>>, !.v = 0]

\* LoadBlock: "unexpected end" when the stream is exhausted
LoadItem(z) == IF z.in = <<>> THEN error(z) ELSE [z EXCEPT !.in = Tail(@), !.v = Head(z.in)]
Load(z) == LET r == LoadItem(z) IN IF r.ok THEN [r EXCEPT !.v = @[2]] ELSE r

\* n values, each read by One
LoadMany(z, n, One(_)) ==
    LET step(r, i) == LET one == One(r) IN [one EXCEPT !.v = Append(r.v, one.v)]
    IN FoldLeft(step, [z EXCEPT !.v = <<>>], [i \in 1..n |-> i])
LoadVector(z, One(_)) == LET n == Load(z) IN LoadMany(n, n.v, One)

\* (Mutant: every constant has a value in the file.)
LoadConstantWithNil(z) ==
    LET t == Load(z)
        v == Load(t)
    IN [v EXCEPT !.v = <<t.v, v.v>>]
LoadConstant(z) ==
    LET t == Load(z)
        v == Load(t)
    IN IF t.ok /\ t.v = "nil" THEN [t EXCEPT !.v = NilV] ELSE [v EXCEPT !.v = <<t.v, v.v>>]

\* What every function must satisfy before it may run
RECURSIVE luaG_checkcode(_)
luaG_checkcode(pt) == symbexec(pt) /\ \A i \in DOMAIN pt.p : luaG_checkcode(pt.p[i])

RECURSIVE LoadFunction(_, _)
LoadFunction(z, p) ==
    LET deeper == [z EXCEPT !.level = @ + 1]
        src == Load(deeper)
        source == IF src.v = "" THEN p ELSE src.v
        nups == Load(src)
        numparams == Load(nups)
        is_vararg == Load(numparams)
        maxstack == Load(is_vararg)
        code == LoadVector(maxstack, LoadItem)
        k == LoadVector(code, LoadConstant)
        fs == LoadVector(k, LAMBDA r : LoadFunction(r, source))
        ups == LoadVector(fs, Load)
        f == [source |-> source, upvalues |-> ups.v, code |-> code.v, k |-> k.v, p |-> fs.v,
              nups |-> nups.v, numparams |-> numparams.v, is_vararg |-> is_vararg.v,
              maxstack |-> maxstack.v]
    IN IF deeper.level > LUAI_MAXCCALLS \/ ~ups.ok \/ ~luaG_checkcode(f) THEN error(z)
       ELSE [ups EXCEPT !.v = f, !.level = @ - 1]

\* The function is v of the result, when it is ok.
luaU_undump(items) ==
    LET z == LoadItem([in |-> items, ok |-> TRUE, level |-> 0, v |-> 0])
    IN IF ~z.ok \/ z.v # Header THEN error(z) ELSE LoadFunction(z, "=?")
=============================================================================
