--------------------------- MODULE MCLuaLibraries ---------------------------
(***************************************************************************)
(* Values of the constants of LuaLibraries for TLC.                        *)
(***************************************************************************)
EXTENDS LuaLibraries

All == {"a", "b", "]", "zero"}
Set(chars, set, rep) ==
    [k |-> "set", set |-> set, rep |-> rep, text |-> IF rep = "1" THEN chars ELSE Append(chars, rep)]
Reps == {"1", "?", "*", "+", "-"}
Kind(k, chars) == [k |-> k, text |-> chars]
Open == Kind("open", <<"(">>)
Close == Kind("close", <<")">>)
Position == Kind("position", <<"(", ")">>)
End == Kind("end", <<"$">>)
Back(n, d) == [k |-> "back", n |-> n, text |-> <<"%", d>>]
Balance == [k |-> "balance", x |-> "a", y |-> "b", text |-> <<"%", "b", "a", "b">>]
Frontier == [k |-> "frontier", set |-> {"b"}, text |-> <<"%", "f", "[", "b", "]">>]

\* Sets of characters, each in the notation of a pattern; the code of ] (93)
\* lies between those of A (65) and a (97)
Sets(rep) ==
    {Set(<<"a">>, {"a"}, rep), Set(<<".">>, All, rep), Set(<<"[", "^", "a", "]">>, All \ {"a"}, rep),
     Set(<<"[", "]", "b", "]">>, {"]", "b"}, rep), Set(<<"[", "A", "-", "a", "]">>, {"a", "]"}, rep),
     Set(<<"%", "]">>, {"]"}, rep), Set(<<"%", "A">>, {"]", "zero"}, rep)}
Some == {Set(<<"a">>, {"a"}, r) : r \in Reps} \cup {Set(<<".">>, All, r) : r \in {"1", "*", "-"}}
Zero == {Open, Close, Position, End, Balance, Frontier}

Patterns ==
    {<<x, y>> : x \in UNION {Sets(r) : r \in Reps} \cup Zero, y \in Some \cup Zero}
      \cup {<<x, y, z>> : x \in Some, y \in Some, z \in Some \cup {End}}
      \cup {<<Open, x, Close, y, z>> : x \in Some, y \in Some \cup {Position}, z \in {Back(1, "1"), End}}
      \cup {<<Open, x, Open, y, Close, Close, z>> : x \in Some, y \in Some, z \in {Back(1, "1"), Back(2, "2")}}

MCSubjects ==
    BoundedSeq({"a", "b"}, 2)
      \cup {<<"a", "a", "b">>, <<"a", "b", "a">>, <<"a", "]", "b">>, <<"b", "]">>, <<"a", "a", "b", "b">>}
News == <<Kind("match", <<"%", "0">>), Kind("char", <<"]">>), Kind("capture", <<"%", "1">>)>>

MCTexts ==
    {[subject |-> s, items |-> p, anchor |-> FALSE, news |-> News, max |-> 9] : s \in MCSubjects, p \in Patterns}
      \cup {[subject |-> s, items |-> <<x, y>>, anchor |-> c, news |-> News, max |-> n] :
               s \in MCSubjects, x \in Some, y \in Some, c \in BOOLEAN, n \in 0..2}
MCInits == {1, 2, -1}
MCTables ==
    {[order |-> "rank", elements |-> e] : e \in [1..6 -> 1..3]}
      \cup {[order |-> "any", elements |-> e] : e \in {<<1, 2, 3, 4>>, <<1, 2, 3, 4, 5>>}}
=============================================================================
