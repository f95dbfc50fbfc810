---------------------------- MODULE LuaStrMatch ----------------------------
(***************************************************************************)
(* Patterns of lstrlib.c: the matcher, find, match, gmatch and gsub.       *)
(*                                                                         *)
(* The matcher works on the characters of the pattern, like the code: p    *)
(* and s are positions, At(pat, Len(pat) + 1) the zero byte at the end.    *)
(* ms is MatchState, which a match passes on and undoes when it fails.     *)
(* What it should do is in PatternMeaning.                                 *)
(*                                                                         *)
(* Left out: classes with no character here (%c %s %x %z), the table and   *)
(* function arguments of gsub, the depth of the C recursion.               *)
(***************************************************************************)
EXTENDS Integers, SequencesExt, TLC

CONSTANT LUA_MAXCAPTURES

NULL == 0
ERROR == -1
NUL == "zero"
CAP_UNFINISHED == -1
CAP_POSITION == -2

Lower == {"a", "b", "f"}
Upper == {"A"}
Digit == {"1", "2"}
Punct == {"(", ")", "[", "]", "%", "^", "$", "*", "+", "-", "?", "."}

At(q, i) == IF i \in DOMAIN q THEN q[i] ELSE NUL
Value(d) == CHOOSE n \in 0..2 : <<"0", "1", "2">>[n + 1] = d

\* The characters in the order of their codes, which a range goes by
Ascii == <<NUL, "$", "%", "(", ")", "*", "+", "-", ".", "0", "1", "2", "?",
           "A", "[", "]", "^", "a", "b", "f">>
Code(c) == CHOOSE n \in DOMAIN Ascii : Ascii[n] = c

check_capture(ms, l) ==
    IF l < 1 \/ l > ms.level \/ ms.len[l] = CAP_UNFINISHED THEN ERROR ELSE l

capture_to_close(ms) ==
    LET open == {l \in 1..ms.level : ms.len[l] = CAP_UNFINISHED}
    IN IF open = {} THEN ERROR ELSE Max(open)

RECURSIVE bracketend(_, _)
bracketend(pat, p) ==
    LET q == IF At(pat, p) = "%" /\ At(pat, p + 1) # NUL THEN p + 2 ELSE p + 1
    IN IF At(pat, p) = NUL THEN ERROR
       ELSE IF At(pat, q) = "]" THEN q + 1 ELSE bracketend(pat, q)

classend(pat, p) ==
    CASE At(pat, p) = "%" -> IF At(pat, p + 1) = NUL THEN ERROR ELSE p + 2
      [] At(pat, p) = "[" -> bracketend(pat, IF At(pat, p + 1) = "^" THEN p + 2 ELSE p + 1)
      [] OTHER -> p + 1

match_class(c, cl) ==
    CASE cl = "a" -> c \in Lower \cup Upper
      [] cl = "A" -> c \notin Lower \cup Upper
      [] cl = "d" -> c \in Digit
      [] cl = "l" -> c \in Lower
      [] cl = "u" -> c \in Upper
      [] cl = "w" -> c \in Lower \cup Upper \cup Digit
      [] cl = "p" -> c \in Punct
      [] OTHER -> cl = c

matchbracketclass(c, pat, p, ec) ==
    LET sig == At(pat, p + 1) # "^"
        in[q \in 1..(ec + 3)] ==
            IF q >= ec THEN ~sig
            ELSE IF At(pat, q) = "%"
                 THEN IF match_class(c, At(pat, q + 1)) THEN sig ELSE in[q + 2]
            ELSE IF At(pat, q + 1) = "-" /\ q + 2 < ec
                 THEN IF Code(At(pat, q)) <= Code(c) /\ Code(c) <= Code(At(pat, q + 2))
                      THEN sig ELSE in[q + 3]
            ELSE IF At(pat, q) = c THEN sig ELSE in[q + 1]
    IN in[IF sig THEN p + 1 ELSE p + 2]

\* Whether the item at p matches the character at s
singlematch(src, s, pat, p) ==
    /\ s <= Len(src)
    /\ CASE At(pat, p) = "." -> TRUE
         [] At(pat, p) = "%" -> match_class(src[s], At(pat, p + 1))
         [] At(pat, p) = "[" -> matchbracketclass(src[s], pat, p, classend(pat, p) - 1)
         [] OTHER -> At(pat, p) = src[s]

matchbalance(src, s, pat, p) ==
    LET b == At(pat, p)
        e == At(pat, p + 1)
        scan[q \in 1..(Len(src) + 1), cont \in 0..(Len(src) + 1)] ==
            IF q > Len(src) THEN NULL
            ELSE IF src[q] = e THEN IF cont = 1 THEN q + 1 ELSE scan[q + 1, cont - 1]
            ELSE scan[q + 1, IF src[q] = b THEN cont + 1 ELSE cont]
    IN IF b = NUL \/ e = NUL THEN ERROR
       ELSE IF At(src, s) # b THEN NULL ELSE scan[s + 1, 1]

match_capture(ms, src, s, l) ==
    LET n == ms.len[l]
    IN IF n >= 0 /\ Len(src) - s + 1 >= n
             /\ SubSeq(src, ms.init[l], ms.init[l] + n - 1) = SubSeq(src, s, s + n - 1)
       THEN s + n ELSE NULL

Failed(ms) == [e |-> NULL, ms |-> ms]
Raised(ms) == [e |-> ERROR, ms |-> ms]

\* m[ms, s, p] is the match of the pattern from p at s: the recursive call

start_capture(m, ms, s, p, what) ==
    LET l == ms.level + 1
        r == m[[level |-> l, init |-> [ms.init EXCEPT ![l] = s], len |-> [ms.len EXCEPT ![l] = what]], s, p]
    IN IF ms.level >= LUA_MAXCAPTURES THEN Raised(ms)
       ELSE IF r.e = NULL THEN Failed([r.ms EXCEPT !.level = @ - 1]) ELSE r

\* (Mutant: a capture that was closed on a way that failed stays closed.)
end_captureKeeps(m, ms, s, p) ==
    LET l == capture_to_close(ms)
    IN IF l = ERROR THEN Raised(ms) ELSE m[[ms EXCEPT !.len[l] = s - ms.init[l]], s, p]
end_capture(m, ms, s, p) ==
    LET l == capture_to_close(ms)
        r == m[[ms EXCEPT !.len[l] = s - ms.init[l]], s, p]
    IN IF l = ERROR THEN Raised(ms)
       ELSE IF r.e = NULL THEN Failed([r.ms EXCEPT !.len[l] = CAP_UNFINISHED]) ELSE r

\* The rest of the pattern from ep + 1, after i repetitions or fewer
RECURSIVE max_expand(_, _, _, _, _)
max_expand(m, ms, s, ep, i) ==
    LET r == m[ms, s + i, ep + 1]
    IN IF r.e # NULL \/ i = 0 THEN r ELSE max_expand(m, r.ms, s, ep, i - 1)

RECURSIVE min_expand(_, _, _, _, _, _, _)
min_expand(m, ms, src, s, pat, p, ep) ==
    LET r == m[ms, s, ep + 1]
    IN IF r.e # NULL THEN r
       ELSE IF singlematch(src, s, pat, p) THEN min_expand(m, r.ms, src, s + 1, pat, p, ep)
       ELSE r

Repetitions(src, s, pat, p) ==
    Max({i \in 0..(Len(src) - s + 1) : \A j \in 0..(i - 1) : singlematch(src, s + j, pat, p)})

\* A pattern item, with what follows it
item(m, ms, src, s, pat, p) ==
    LET ep == classend(pat, p)
        once == singlematch(src, s, pat, p)
        optional == m[ms, s + 1, ep + 1]
    IN CASE ep = ERROR -> Raised(ms)
         [] At(pat, ep) = "?" ->
              IF ~once THEN m[ms, s, ep + 1]
              ELSE IF optional.e # NULL THEN optional ELSE m[optional.ms, s, ep + 1]
         [] At(pat, ep) = "*" -> max_expand(m, ms, s, ep, Repetitions(src, s, pat, p))
         [] At(pat, ep) = "+" ->
              IF once THEN max_expand(m, ms, s + 1, ep, Repetitions(src, s + 1, pat, p)) ELSE Failed(ms)
         [] At(pat, ep) = "-" -> min_expand(m, ms, src, s, pat, p, ep)
         [] OTHER -> IF once THEN m[ms, s + 1, ep] ELSE Failed(ms)

frontier(src, s, pat, p, ep) ==
    /\ ~matchbracketclass(At(src, s - 1), pat, p, ep - 1)
    /\ matchbracketclass(At(src, s), pat, p, ep - 1)

match(m, ms, src, s, pat, p) ==
    LET c == At(pat, p)
        d == At(pat, p + 1)
        balance == matchbalance(src, s, pat, p + 2)
        ep == classend(pat, p + 2)
        l == check_capture(ms, Value(d))
        back == match_capture(ms, src, s, l)
    IN CASE c = "(" /\ d = ")" -> start_capture(m, ms, s, p + 2, CAP_POSITION)
         [] c = "(" /\ d # ")" -> start_capture(m, ms, s, p + 1, CAP_UNFINISHED)
         [] c = ")" -> end_capture(m, ms, s, p + 1)
         [] c = "%" /\ d = "b" ->
              IF balance \in {NULL, ERROR} THEN [e |-> balance, ms |-> ms] ELSE m[ms, balance, p + 4]
         [] c = "%" /\ d = "f" ->
              IF At(pat, p + 2) # "[" \/ ep = ERROR THEN Raised(ms)
              ELSE IF frontier(src, s, pat, p + 2, ep) THEN m[ms, s, ep] ELSE Failed(ms)
         [] c = "%" /\ d \in Digit \cup {"0"} ->
              IF l = ERROR THEN Raised(ms)
              ELSE IF back = NULL THEN Failed(ms) ELSE m[ms, back, p + 2]
         [] c = NUL -> [e |-> s, ms |-> ms]
         [] c = "$" /\ d = NUL -> [e |-> IF s = Len(src) + 1 THEN s ELSE NULL, ms |-> ms]
         [] OTHER -> item(m, ms, src, s, pat, p)

MatchState == [level : 0..LUA_MAXCAPTURES, init : [1..LUA_MAXCAPTURES -> Nat], len : [1..LUA_MAXCAPTURES -> Int]]
NewState == [level |-> 0, init |-> [l \in 1..LUA_MAXCAPTURES |-> 0],
             len |-> [l \in 1..LUA_MAXCAPTURES |-> CAP_UNFINISHED]]

\* The match of the whole pattern at position s
Match(src, s, pat) ==
    LET m[ms \in MatchState, x \in 1..(Len(src) + 1), p \in 1..(Len(pat) + 1)] == match(m, ms, src, x, pat, p)
    IN m[NewState, s, 1]

lmemfind(src, s, pat) ==
    LET at == {i \in s..(Len(src) - Len(pat) + 1) : SubSeq(src, i, i + Len(pat) - 1) = pat}
    IN IF at = {} THEN NULL ELSE Min(at)

Bad == <<"error">>

\* What push_onecapture gives for capture i, or for the match from s to e
push_onecapture(ms, src, i, s, e) ==
    IF i > ms.level THEN IF i = 1 THEN SubSeq(src, s, e - 1) ELSE Bad
    ELSE CASE i < 1 \/ ms.len[i] = CAP_UNFINISHED -> Bad
           [] ms.len[i] = CAP_POSITION -> <<"position", ToString(ms.init[i])>>
           [] OTHER -> SubSeq(src, ms.init[i], ms.init[i] + ms.len[i] - 1)

push_captures(ms, src, whole, s, e) ==
    [i \in 1..(IF ms.level = 0 /\ whole THEN 1 ELSE ms.level) |-> push_onecapture(ms, src, i, s, e)]

\* What a call returns: the positions of the match and the captures
Results(at, captures) ==
    IF Bad \in Range(captures) THEN [at |-> <<>>, captures |-> <<Bad>>]
    ELSE [at |-> at, captures |-> captures]
Nothing == Results(<<>>, <<>>)
Error == Results(<<>>, <<Bad>>)

posrelat(pos, len) == IF pos >= 0 THEN pos ELSE IF -pos <= len THEN len + pos + 1 ELSE 0

Specials == {"^", "$", "*", "+", "?", ".", "(", "[", "%", "-"}

\* The first match at s1 or later; at s1 only if anchored
FirstOf(matches) ==
    LET hits == {x \in DOMAIN matches : matches[x].e # NULL}
        at == IF hits = {} THEN 0 ELSE Min(hits)
    IN IF at = 0 THEN [s |-> 0, e |-> NULL, ms |-> NewState]
       ELSE [s |-> at, e |-> matches[at].e, ms |-> matches[at].ms]
scan(src, s1, pat, anchor) ==
    FirstOf([x \in s1..(IF anchor THEN s1 ELSE Len(src) + 1) |-> Match(src, x, pat)])

\* A match as a result: where it is, if that is asked for, and its captures
Returned(src, r, where, whole) ==
    CASE r.e = ERROR -> Error
      [] r.e = NULL -> Nothing
      [] OTHER -> Results(IF where THEN <<r.s, r.e - 1>> ELSE <<>>, push_captures(r.ms, src, whole, r.s, r.e))

\* find, or match
str_find_aux(src, pat, init, find) ==
    LET from == Min({Max({posrelat(init, Len(src)), 1}), Len(src) + 1})
        plain == lmemfind(src, from, pat)
        anchor == At(pat, 1) = "^"
    IN IF find /\ \A i \in DOMAIN pat : pat[i] \notin Specials
       THEN IF plain = NULL THEN Nothing ELSE Results(<<plain, plain + Len(pat) - 1>>, <<>>)
       ELSE Returned(src, scan(src, from, IF anchor THEN Tail(pat) ELSE pat, anchor), find, ~find)

\* One call of the function that gmatch made: pos is its third upvalue.
newstart(pos, r) ==
    CASE r.e \in {NULL, ERROR} -> pos
      [] r.e = r.s -> r.e
      [] OTHER -> r.e - 1
gmatch_aux(src, pat, pos) ==
    LET call(r) == [pos |-> newstart(pos, r), got |-> Returned(src, r, TRUE, TRUE)]
    IN call(scan(src, pos + 1, pat, FALSE))

\* The replacement string with its captures
add_s(ms, src, news, s, e) ==
    LET add[i \in 1..(Len(news) + 2)] ==
            IF i > Len(news) THEN <<>>
            ELSE IF news[i] # "%" THEN <<news[i]>> \o add[i + 1]
            ELSE LET d == At(news, i + 1)
                 IN (CASE d = "0" -> SubSeq(src, s, e - 1)
                       [] d \in Digit -> push_onecapture(ms, src, Value(d), s, e)
                       [] OTHER -> <<d>>) \o add[i + 2]
    IN add[1]

\* One turn of the loop of gsub: g has the position src, the buffer b, the
\* count n and its limit; r is the match at src, new what replaces it.
Substituted(src, anchor, g, r, new) ==
    LET b == g.b \o new
        n == IF r.e = NULL THEN g.n ELSE g.n + 1
    IN CASE r.e = ERROR \/ "error" \in Range(new) -> [g EXCEPT !.b = Bad, !.done = TRUE]
         [] r.e > g.src -> [g EXCEPT !.src = r.e, !.b = b, !.n = n, !.anchored = anchor]
         [] r.e <= g.src /\ g.src <= Len(src) ->
              [g EXCEPT !.src = @ + 1, !.b = Append(b, src[g.src]), !.n = n, !.anchored = anchor]
         [] OTHER -> [g EXCEPT !.b = b, !.n = n, !.done = TRUE]

str_gsub(src, pat, news, g) ==
    LET anchor == At(pat, 1) = "^"
        turn(r) == Substituted(src, anchor, g, r,
                       IF r.e \in {NULL, ERROR} THEN <<>> ELSE add_s(r.ms, src, news, g.src, r.e))
    IN IF g.n >= g.max \/ g.anchored
       THEN [g EXCEPT !.b = @ \o SubSeq(src, g.src, Len(src)), !.done = TRUE]
       ELSE turn(Match(src, g.src, IF anchor THEN Tail(pat) ELSE pat))
=============================================================================
