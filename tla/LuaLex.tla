------------------------------- MODULE LuaLex -------------------------------
(***************************************************************************)
(* The lexer of the Lua compiler (llex.c): a text, which is a string of    *)
(* characters, to the tokens the parser sees.  A token is <<kind>> or      *)
(* <<kind, value>>, with the line number the lexer has reached after it;   *)
(* an error ends the text with the token <<"error">>.  Numbers are         *)
(* integers here.                                                          *)
(***************************************************************************)
EXTENDS Integers, Sequences, FiniteSetsExt, TLC

EOZ == ""
Char(x, i) == IF i > Len(x) THEN EOZ ELSE SubSeq(x, i, i)
\* the first position from i on whose character is not in S
Span(x, i, S) == Min({j \in i..(Len(x) + 1) : Char(x, j) \notin S})
CharsOf(x) == {Char(x, i) : i \in 1..Len(x)}

Newline == {"\n", "\r"}
Space == {" ", "\t", "\f"} \cup Newline
Digit == CharsOf("0123456789")
Alpha == CharsOf("abcdefghijklmnopqrstuvwxyzABCDEFGHIJKLMNOPQRSTUVWXYZ_")
HexDigits == "0123456789abcdef"

luaX_tokens == {"and", "break", "do", "else", "elseif", "end", "false", "for", "function",
                "if", "in", "local", "nil", "not", "or", "repeat", "return", "then", "true",
                "until", "while"}

Is(kind, next) == [tok |-> <<kind>>, next |-> next]
Has(kind, v, next) == [tok |-> <<kind, v>>, next |-> next]
luaX_lexerror(x) == Is("error", Len(x) + 1)

-----------------------------------------------------------------------------
(* Literals.                                                               *)

\* the value of digits in a base
Numeral(ds, base) ==
    LET value(c) == (CHOOSE i \in 1..16 : Char(HexDigits, i) = c) - 1
        f[n \in 0..Len(ds)] == IF n = 0 THEN 0 ELSE base * f[n - 1] + value(Char(ds, n))
    IN f[Len(ds)]

\* luaO_str2d decides what a run of digits, dots, letters and an exponent is
read_numeral(x, i) ==
    LET j == Span(x, i, Digit \cup {"."})
        e == IF Char(x, j) \in {"e", "E"} THEN j + 1 ELSE j
        sign == IF e > j /\ Char(x, e) \in {"+", "-"} THEN e + 1 ELSE e
        end == Span(x, sign, Alpha \cup Digit)
        ds == SubSeq(x, i, end - 1)
        hex == SubSeq(ds, 3, Len(ds))
    IN IF CharsOf(ds) \subseteq Digit THEN Has("NUMBER", Numeral(ds, 10), end)
       ELSE IF SubSeq(ds, 1, 2) = "0x" /\ hex # "" /\ CharsOf(hex) \subseteq CharsOf(HexDigits)
       THEN Has("NUMBER", Numeral(hex, 16), end)
       ELSE luaX_lexerror(x)

\* the level of the long bracket at i, negative when there is none
skip_sep(x, i) ==
    LET j == Span(x, i + 1, {"="})
    IN IF Char(x, j) = Char(x, i) THEN j - i - 1 ELSE -(j - i - 1) - 1

\* the position after the newline at i, which may have two characters
inclinenumber(x, i) ==
    IF Char(x, i + 1) \in Newline \ {Char(x, i)} THEN i + 2 ELSE i + 1

RECURSIVE LongText(_, _, _)
LongText(x, i, end) ==
    IF i >= end THEN ""
    ELSE IF Char(x, i) \in Newline THEN "\n" \o LongText(x, inclinenumber(x, i), end)
    ELSE Char(x, i) \o LongText(x, i + 1, end)

\* i is at the first bracket; a string of level 0 may not hold another one
read_long_string(x, i, sep) ==
    LET from == i + sep + 2
        start == IF Char(x, from) \in Newline THEN inclinenumber(x, from) ELSE from
        ends == {j \in start..Len(x) : Char(x, j) = "]" /\ skip_sep(x, j) = sep}
        end == Min(ends)
        nested == sep = 0 /\ \E j \in start..end : Char(x, j) = "[" /\ skip_sep(x, j) = 0
    IN IF ends = {} \/ nested THEN luaX_lexerror(x)
       ELSE Has("STRING", LongText(x, start, end), end + sep + 2)

\* Characters by number; control characters other than the newline are <n>.
Ascii == (10 :> "\n") @@ (32 :> " ") @@ (65 :> "A") @@ (97 :> "a") @@ (48 :> "0")
Code(n) == IF n \in DOMAIN Ascii THEN Ascii[n] ELSE "<" \o ToString(n) \o ">"
Escapes == "a" :> "<7>" @@ "b" :> "<8>" @@ "f" :> "\f" @@ "n" :> "\n" @@ "r" :> "\r"
           @@ "t" :> "\t" @@ "v" :> "<11>"

RECURSIVE StringText(_, _, _, _)
\* the characters from i to the delimiter, after those already saved
StringText(x, i, del, saved) ==
    LET c == Char(x, i)
        n == Char(x, i + 1)
        digits == Min({Span(x, i + 1, Digit), i + 4})
        code == Numeral(SubSeq(x, i + 1, digits - 1), 10)
        go(next, ch) == StringText(x, next, del, saved \o ch)
    IN CASE c = del -> Has("STRING", saved, i + 1)
         [] c \in {EOZ} \cup Newline -> luaX_lexerror(x)
         [] c # "\\" -> go(i + 1, c)
         [] n \in DOMAIN Escapes -> go(i + 2, Escapes[n])
         [] n \in Newline -> go(inclinenumber(x, i + 1), "\n")
         [] n \in Digit -> IF code > 255 THEN luaX_lexerror(x) ELSE go(digits, Code(code))
         [] OTHER -> go(i + 2, n)
read_string(x, i) == StringText(x, i + 1, Char(x, i), "")

-----------------------------------------------------------------------------
(* Tokens.                                                                 *)

RECURSIVE llex(_, _)
\* the token at position i of the text
llex(x, i) ==
    LET c == Char(x, i)
        two == SubSeq(x, i, i + 1)
        word == SubSeq(x, i, Span(x, i, Alpha \cup Digit) - 1)
        sep == skip_sep(x, i)
        long == read_long_string(x, i + 2, skip_sep(x, i + 2))
        eol == Min({j \in (i + 2)..(Len(x) + 1) : Char(x, j) \in Newline \cup {EOZ}})
    IN CASE c = EOZ -> Is("EOS", i)
         [] c \in Space -> llex(x, i + 1)
         [] i < Len(x) /\ two = "--" ->
               IF Char(x, i + 2) = "[" /\ skip_sep(x, i + 2) >= 0
               THEN IF long.tok = <<"error">> THEN long ELSE llex(x, long.next)
               ELSE llex(x, eol)
         [] c = "[" /\ sep >= 0 -> read_long_string(x, i, sep)
         [] c = "[" /\ sep < -1 -> luaX_lexerror(x)
         [] i < Len(x) /\ two \in {"==", "<=", ">=", "~="} -> Is(two, i + 2)
         [] c \in {"\"", "'"} -> read_string(x, i)
         [] c = "." /\ Char(x, i + 1) = "." ->
               IF Char(x, i + 2) = "." THEN Is("...", i + 3) ELSE Is("..", i + 2)
         [] c \in Digit \/ (c = "." /\ Char(x, i + 1) \in Digit) -> read_numeral(x, i)
         [] c \in Alpha -> IF word \in luaX_tokens THEN Is(word, i + Len(word))
                           ELSE Has("NAME", word, i + Len(word))
         [] OTHER -> Is(c, i + 1)

\* the line ends in the text from i up to j
RECURSIVE Lines(_, _, _)
Lines(x, i, j) ==
    IF i >= j THEN 0
    ELSE IF Char(x, i) \in Newline THEN 1 + Lines(x, inclinenumber(x, i), j)
    ELSE Lines(x, i + 1, j)

RECURSIVE TokensFrom(_, _, _)
TokensFrom(x, i, line) ==
    LET t == llex(x, i)
        here == line + Lines(x, i, t.next)
    IN IF t.tok = <<"EOS">> THEN <<>>
       ELSE <<[tok |-> t.tok, line |-> here]>> \o TokensFrom(x, t.next, here)
\* what the parser reads, by luaX_next and luaX_lookahead
Tokens(x) == TokensFrom(x, 1, 1)
=============================================================================
