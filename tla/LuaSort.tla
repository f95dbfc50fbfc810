------------------------------ MODULE LuaSort ------------------------------
(***************************************************************************)
(* table.sort: auxsort of ltablib.c, one step per call of the order        *)
(* function.  The order function is Lua code: "rank" compares the elements *)
(* as a sort expects, "any" gives any answer at any time and may raise an  *)
(* error.  It does not change the table.                                   *)
(*                                                                         *)
(* sort.a has the elements from 0 to n + 1, with nil at both ends; todo    *)
(* the ranges that are left, those of the callers last.                    *)
(***************************************************************************)
EXTENDS Integers, SequencesExt

VARIABLE sort

NoElement == 0

Swap(a, x, y) == [a EXCEPT ![x] = a[y], ![y] = a[x]]

\* What the order function may say of x < y
Answers(x, y) == IF sort.order = "rank" THEN {x < y} ELSE BOOLEAN

\* The next range with two elements or more, or the end
Continue(a, todo) ==
    LET left == {k \in DOMAIN todo : todo[k][1] < todo[k][2]}
    IN IF left = {} THEN [sort EXCEPT !.a = a, !.todo = <<>>, !.at = "done"]
       ELSE LET k == Min(left)
            IN [sort EXCEPT !.a = a, !.todo = SubSeq(todo, k + 1, Len(todo)),
                            !.l = todo[k][1], !.u = todo[k][2], !.at = "ends"]

Begin(order, elements) ==
    LET n == Len(elements)
        a == [i \in 0..(n + 1) |-> IF i \in 1..n THEN elements[i] ELSE NoElement]
    IN [order |-> order, n |-> n, given |-> a, a |-> a, l |-> 1, u |-> n, i |-> 0, j |-> 0,
        todo |-> <<>>, at |-> IF n < 2 THEN "done" ELSE "ends"]

\* a[u] < a[l]?
SortEnds ==
    /\ sort.at = "ends"
    /\ \E lt \in Answers(sort.a[sort.u], sort.a[sort.l]) :
         LET a == IF lt THEN Swap(sort.a, sort.l, sort.u) ELSE sort.a
         IN sort' = IF sort.u - sort.l = 1 THEN Continue(a, sort.todo)
                    ELSE [sort EXCEPT !.a = a, !.i = (sort.l + sort.u) \div 2, !.at = "middle"]

\* The median of three is in place: take it as the pivot, unless it is all.
Pivot(a) ==
    IF sort.u - sort.l = 2 THEN Continue(a, sort.todo)
    ELSE [sort EXCEPT !.a = Swap(a, sort.i, sort.u - 1), !.i = sort.l + 1, !.j = sort.u - 1, !.at = "up"]

\* a[i] < a[l]?
SortMiddle ==
    /\ sort.at = "middle"
    /\ \E lt \in Answers(sort.a[sort.i], sort.a[sort.l]) :
         sort' = IF lt THEN Pivot(Swap(sort.a, sort.i, sort.l)) ELSE [sort EXCEPT !.at = "top"]

\* a[u] < a[i]?
SortTop ==
    /\ sort.at = "top"
    /\ \E lt \in Answers(sort.a[sort.u], sort.a[sort.i]) :
         sort' = Pivot(IF lt THEN Swap(sort.a, sort.i, sort.u) ELSE sort.a)

\* repeat ++i until a[i] >= P
SortUp ==
    /\ sort.at = "up"
    /\ \E lt \in Answers(sort.a[sort.i], sort.a[sort.u - 1]) :
         sort' = IF ~lt THEN [sort EXCEPT !.j = @ - 1, !.at = "down"]
                 ELSE IF sort.i > sort.u THEN [sort EXCEPT !.at = "raised"]
                 ELSE [sort EXCEPT !.i = @ + 1]

\* The pivot goes to i; the smaller half is next, the larger one later.
\* (Mutant: the pivot is counted in the larger half.)
SplitOff(l, u, i) ==
    IF i - l < u - i THEN <<<<l, i - 1>>, <<i, u>>>> ELSE <<<<i + 1, u>>, <<l, i - 2>>>>
Split(l, u, i) ==
    IF i - l < u - i THEN <<<<l, i - 1>>, <<i + 1, u>>>> ELSE <<<<i + 1, u>>, <<l, i - 1>>>>

\* repeat --j until a[j] <= P
SortDown ==
    /\ sort.at = "down"
    /\ \E lt \in Answers(sort.a[sort.u - 1], sort.a[sort.j]) :
         sort' = IF ~lt
                 THEN IF sort.j < sort.i
                      THEN Continue(Swap(sort.a, sort.u - 1, sort.i), Split(sort.l, sort.u, sort.i) \o sort.todo)
                      ELSE [sort EXCEPT !.a = Swap(@, sort.i, sort.j), !.i = @ + 1, !.at = "up"]
                 ELSE IF sort.j < sort.l THEN [sort EXCEPT !.at = "raised"]
                 ELSE [sort EXCEPT !.j = @ - 1]

SortRaises ==
    /\ sort.order = "any" /\ sort.at \notin {"done", "raised"}
    /\ sort' = [sort EXCEPT !.at = "raised"]

SortInit == \E order \in {"rank", "any"}, elements \in Seq(Nat \ {NoElement}) : sort = Begin(order, elements)

SortNext == SortEnds \/ SortMiddle \/ SortTop \/ SortUp \/ SortDown \/ SortRaises

SortSpec == SortInit /\ [][SortNext]_sort

(***************************************************************************)
(* Properties                                                              *)
(***************************************************************************)
Times(a, x) == Cardinality({k \in DOMAIN a : a[k] = x})

\* The elements are the ones given, also when the order function fails or
\* makes no sense; nil may then have come in from beyond the end.
NothingLost == \A x \in Range(sort.given) : Times(sort.a, x) = Times(sort.given, x)

\* An order that makes sense is never called invalid, never compares what is
\* beyond the elements, and the elements end up in ascending order.
Ascending ==
    sort.order = "rank" =>
        /\ sort.at # "raised" /\ sort.a[0] = NoElement /\ sort.a[sort.n + 1] = NoElement
        /\ sort.at = "up" => sort.i \in 1..sort.n
        /\ sort.at = "down" => sort.j \in 1..sort.n
        /\ sort.at = "done" => \A k \in 1..(sort.n - 1) : sort.a[k] <= sort.a[k + 1]

TwoTo(n) == LET p[i \in 0..n] == IF i = 0 THEN 1 ELSE 2 * p[i - 1] IN p[n]

\* The smaller half is sorted by a recursive call, the larger one in the loop:
\* calls nest less deep than the logarithm of the number of elements, also
\* when the order function makes no sense.
ShallowRecursion ==
    sort.at \notin {"done", "raised"} => TwoTo(Len(sort.todo) + 1) <= sort.n

Sorts == NothingLost /\ Ascending /\ ShallowRecursion
=============================================================================
