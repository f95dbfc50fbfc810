---------------------------- MODULE LuaLibraries ----------------------------
(***************************************************************************)
(* A program that uses the library: gmatch and then gsub with one string   *)
(* and one pattern, or table.sort, or require.                             *)
(*                                                                         *)
(* text has the arguments (the subject, the items of the pattern, with or  *)
(* without ^, the replacement, the limit), the iterator of gmatch with     *)
(* what it gave so far, and the loop of gsub.                              *)
(***************************************************************************)
EXTENDS LuaStrMatch, PatternMeaning, LuaSort, LuaRequire

CONSTANTS Texts,  \* [subject, items, anchor, news, max]
          Tables, \* [order, elements]
          Inits   \* positions where find and match begin

VARIABLES lib, text

vars == <<lib, text, sort, requireVars>>

\* The characters of a pattern or of a replacement
Rendered(items) == FlattenSeq([i \in DOMAIN items |-> items[i].text])

NoText == [subject |-> <<>>]
NewText(t) ==
    [subject |-> t.subject, items |-> t.items, anchor |-> t.anchor, 
     pat |-> (IF t.anchor THEN <<"^">> ELSE <<>>) \o Rendered(t.items), news |-> t.news,
     max |-> t.max, pos |-> 0, found |-> <<>>,
     g |-> [src |-> 1, b |-> <<>>, n |-> 0, max |-> t.max, anchored |-> FALSE, done |-> FALSE]]

\* The next value of the iterator that gmatch returned
Ended(t) == t.found # <<>> /\ Last(t.found) \in {Nothing, Error}
GmatchNext ==
    /\ lib = "string" /\ ~Ended(text)
    /\ LET r == gmatch_aux(text.subject, text.pat, text.pos)
       IN text' = [text EXCEPT !.pos = r.pos, !.found = Append(@, r.got)]
    /\ UNCHANGED <<lib, sort, requireVars>>

GsubTurn ==
    /\ lib = "string" /\ Ended(text) /\ ~text.g.done
    /\ text' = [text EXCEPT !.g = str_gsub(text.subject, text.pat, Rendered(text.news), @)]
    /\ UNCHANGED <<lib, sort, requireVars>>

Init ==
    /\ RequireInit
    /\ \/ /\ lib = "string" /\ \E t \in Texts : text = NewText(t)
          /\ sort = Begin("rank", <<>>)
       \/ /\ lib = "table" /\ \E s \in Tables : sort = Begin(s.order, s.elements)
          /\ text = NoText
       \/ /\ lib = "package"
          /\ text = NoText /\ sort = Begin("rank", <<>>)

Next ==
    \/ GmatchNext
    \/ GsubTurn
    \/ lib = "table" /\ SortNext /\ UNCHANGED <<lib, text, requireVars>>
    \/ lib = "package" /\ RequireNext /\ UNCHANGED <<lib, text, sort>>

Spec == Init /\ [][Next]_vars

(***************************************************************************)
(* Properties                                                              *)
(***************************************************************************)

\* The captures of a match, or the match where there are none
Values(t, m) == IF m.captures # <<>> THEN m.captures ELSE <<SubSeq(t.subject, m.s, m.e - 1)>>

\* With a pattern whose captures are in order, find and match give the best
\* match at the first position that has one, with its captures.
FindsBest(t, all) ==
    \A init \in Inits :
        LET n == Len(t.subject)
            from == Min({Max({IF init < 0 THEN n + init + 1 ELSE init, 1}), n + 1})
            best(ms) == IF ms = <<>> THEN ms ELSE IF t.anchor /\ ms[1].s # from THEN <<>> ELSE ms
            agrees(ms) ==
                /\ str_find_aux(t.subject, t.pat, init, TRUE) =
                     IF ms = <<>> THEN Nothing ELSE Results(<<ms[1].s, ms[1].e - 1>>, ms[1].captures)
                /\ str_find_aux(t.subject, t.pat, init, FALSE) =
                     IF ms = <<>> THEN Nothing ELSE Results(<<>>, Values(t, ms[1]))
        IN agrees(best(From(all, from)))

\* gmatch gives all matches, from left to right, and ends.
GivesAll(t, all) ==
    ~t.anchor =>
        /\ Len(t.found) <= Len(all) + 1
        /\ \A i \in DOMAIN t.found :
             t.found[i] = IF i > Len(all) THEN Nothing ELSE Results(<<all[i].s, all[i].e - 1>>, Values(t, all[i]))

\* gsub replaces the same matches, the first max of them, or the one at the
\* beginning if it is anchored, and nothing else.
ReplacesAll(t, all) ==
    LET limit == IF ~t.anchor THEN t.max ELSE IF all # <<>> /\ all[1].s = 1 THEN Min({1, t.max}) ELSE 0
        new(m) == FlattenSeq([i \in DOMAIN t.news |->
                     CASE t.news[i].k = "match" -> SubSeq(t.subject, m.s, m.e - 1)
                       [] t.news[i].k = "capture" -> Values(t, m)[1]
                       [] OTHER -> t.news[i].text])
        replaced(some) == t.g.b = Replaced(t.subject, some, new) /\ t.g.n = Len(some)
    IN t.g.done => replaced(SubSeq(all, 1, Min({Len(all), limit})))

AllMatches(t, all) ==
    /\ t.found = <<>> => FindsBest(t, all)
    /\ GivesAll(t, From(all, 1))
    /\ ReplacesAll(t, From(all, 1))

MatchesBest ==
    lib = "string" /\ WellFormed(text.items) => AllMatches(text, MatchesAt(text.subject, text.items))
=============================================================================
