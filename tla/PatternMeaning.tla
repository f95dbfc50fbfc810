--------------------------- MODULE PatternMeaning ---------------------------
(***************************************************************************)
(* What a pattern means.  A pattern is a sequence of items and a subject a *)
(* sequence of characters.  A way to match is a sequence of positions: the *)
(* first item takes the characters from w[1] to w[2], and so on.  Of all   *)
(* ways from a position the best is the one that gives the first item the  *)
(* most it can get (or, for -, the least), then the second, and so on.     *)
(***************************************************************************)
EXTENDS Integers, SequencesExt, TLC

\* The item that closes the capture which item o opens, and the captures
Closes(items, o) ==
    Min({c \in o..Len(items) :
           Cardinality({i \in o..c : items[i].k = "open"}) = Cardinality({i \in o..c : items[i].k = "close"})})
Opening(items) == SetToSortSeq({i \in DOMAIN items : items[i].k \in {"open", "position"}}, <)

Count(items, n, k) == Cardinality({i \in 1..n : items[i].k = k})
WellFormed(items) ==
    /\ \A n \in DOMAIN items : Count(items, n, "close") <= Count(items, n, "open")
    /\ Count(items, Len(items), "close") = Count(items, Len(items), "open")
    /\ \A n \in 1..(Len(items) - 1) : ~(items[n].k = "open" /\ items[n + 1].k = "close")
    /\ \A i \in DOMAIN items : items[i].k = "back" =>
          /\ items[i].n \in DOMAIN Opening(items)
          /\ LET o == Opening(items)[items[i].n]
             IN items[o].k = "open" /\ Closes(items, o) < i
    /\ \A i \in DOMAIN items : items[i].k = "end" => i = Len(items)

\* What capture n holds in way w
Captured(src, items, w, n) ==
    LET o == Opening(items)[n]
    IN IF items[o].k = "position" THEN <<"position", ToString(w[o])>>
       ELSE SubSeq(src, w[o], w[Closes(items, o)] - 1)

Balanced(t, x, y) ==
    LET depth(n) == Cardinality({i \in 1..n : t[i] = x}) - Cardinality({i \in 1..n : t[i] = y})
    IN /\ t # <<>> /\ t[1] = x /\ depth(Len(t)) = 0
       /\ \A n \in 1..(Len(t) - 1) : depth(n) > 0

\* Whether item i may take the characters from Last(w) to e - 1
Fits(src, items, w, i, e) ==
    LET t == SubSeq(src, Last(w), e - 1)
        it == items[i]
        char(n) == IF n \in DOMAIN src THEN src[n] ELSE "zero"
    IN CASE it.k = "set" ->
              /\ \A n \in DOMAIN t : t[n] \in it.set
              /\ CASE it.rep = "1" -> Len(t) = 1
                   [] it.rep = "?" -> Len(t) <= 1
                   [] it.rep = "+" -> Len(t) >= 1
                   [] OTHER -> TRUE
         [] it.k = "balance" -> Balanced(t, it.x, it.y)
         [] it.k = "frontier" -> t = <<>> /\ char(e) \in it.set /\ char(e - 1) \notin it.set
         [] it.k = "back" -> t = Captured(src, items, w, it.n)
         [] it.k = "end" -> e = Len(src) + 1 /\ t = <<>>
         [] OTHER -> t = <<>>

\* The ways to match from position s
Ways(src, items, s) ==
    LET ways[i \in 0..Len(items)] ==
            IF i = 0 THEN {<<s>>}
            ELSE UNION {{Append(w, e) : e \in {x \in Last(w)..(Len(src) + 1) : Fits(src, items, w, i, x)}}
                          : w \in ways[i - 1]}
    IN ways[Len(items)]

Better(items, w, v) ==
    \E i \in DOMAIN items :
        /\ \A j \in 1..i : w[j] = v[j]
        /\ IF items[i].k = "set" /\ items[i].rep = "-" THEN w[i + 1] < v[i + 1] ELSE w[i + 1] > v[i + 1]

BestOf(items, ways) == CHOOSE w \in ways : \A v \in ways \ {w} : Better(items, w, v)

CaptureList(src, items, w) == [n \in DOMAIN Opening(items) |-> Captured(src, items, w, n)]

\* The best match at every position that has one
MatchAt(src, items, w) == [s |-> w[1], e |-> Last(w), captures |-> CaptureList(src, items, w)]
MatchesAt(src, items) ==
    LET at(ways) == IF ways = {} THEN {} ELSE {MatchAt(src, items, BestOf(items, ways))}
    IN UNION {at(Ways(src, items, x)) : x \in 1..(Len(src) + 1)}

\* Of these, those from position s on, from left to right: an empty match may
\* follow another match, but matches do not overlap.
RECURSIVE From(_, _)
From(all, s) ==
    LET later == {m \in all : m.s >= s}
        next(m) == <<m>> \o From(all, IF m.e > m.s THEN m.e ELSE m.s + 1)
    IN IF later = {} THEN <<>> ELSE next(CHOOSE m \in later : \A o \in later : m.s <= o.s)

\* The subject with its first max matches replaced
Replaced(src, matches, with(_)) ==
    LET n == Len(matches)
        text[i \in 1..(n + 1)] ==
            LET from == IF i = 1 THEN 1 ELSE matches[i - 1].e
            IN IF i > n THEN SubSeq(src, from, Len(src))
               ELSE SubSeq(src, from, matches[i].s - 1) \o with(matches[i]) \o text[i + 1]
    IN text[1]
=============================================================================
