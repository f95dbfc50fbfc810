-------------------------- MODULE LuaLibraryProofs --------------------------
(***************************************************************************)
(* Proofs about LuaSort, for any number of elements, and LuaRequire, for   *)
(* any set of modules and any bounds.                                      *)
(***************************************************************************)
EXTENDS LuaSort, LuaRequire, FiniteSetTheorems, SequenceTheorems, WellFoundedInduction, TLAPS

-----------------------------------------------------------------------------
(* table.sort.  The invariant.                                             *)

Steps == {"ends", "middle", "top", "up", "down", "done", "raised"}
Array(n) == [0..(n + 1) -> Nat]
Arrays == UNION {Array(n) : n \in Nat}
Lists == Seq(Int \X Int)

SortTypeOK ==
  /\ sort \in [order : {"rank", "any"}, n : Nat, given : Arrays, a : Arrays, l : Int, u : Int,
               i : Int, j : Int, todo : Lists, at : Steps]
  /\ sort.a \in Array(sort.n) /\ sort.given \in Array(sort.n)

Sorting == sort.at \notin {"done", "raised"}

\* The ranges that are not sorted yet: the one that is being sorted, then those
\* the callers have left.  One of them may be empty or have one element.
Left == <<<<sort.l, sort.u>>>> \o sort.todo

Has(r, x) == r[1] <= x /\ x <= r[2]
Size(r) == r[2] - r[1] + 1

\* Every range is a part of 1..n,
Inside(left, n) ==
  \A k \in DOMAIN left : left[k][1] < left[k][2] => 1 <= left[k][1] /\ left[k][2] <= n

\* no two of them overlap,
Apart(left) ==
  \A k, m \in DOMAIN left : k < m => left[k][2] < left[m][1] \/ left[m][2] < left[k][1]

\* and each is at least as large as all that its recursive call has left.
\* sum[k] bounds the size of the first k of them.
Halves(left, n, sum) ==
  \A k \in DOMAIN left :
    /\ Size(left[k]) <= sum[k] /\ sum[k] <= n
    /\ k > 1 => sum[k - 1] <= Size(left[k]) /\ sum[k - 1] + Size(left[k]) <= sum[k]
Nested(left, n) == \E sum \in [DOMAIN left -> Nat] : Halves(left, n, sum)

\* Two elements are in order, or in one range that is left.
InOrder(a, n, left) ==
  \A x, y \in 1..n :
    x < y => a[x] <= a[y] \/ \E k \in DOMAIN left : Has(left[k], x) /\ Has(left[k], y)

Ranges(left, n) == Inside(left, n) /\ Apart(left) /\ Nested(left, n)

\* Where i and j are, whatever the order function answers.
Cursors ==
  /\ sort.l < sort.u
  /\ sort.at \in {"middle", "top"} => sort.u - sort.l >= 2 /\ sort.i = (sort.l + sort.u) \div 2
  /\ sort.at \in {"up", "down"} => sort.u - sort.l >= 3 /\ sort.i \in (sort.l + 1)..(sort.u + 1)
  /\ sort.at = "up" => sort.j \in (sort.l + 1)..(sort.u - 1)
  /\ sort.at = "down" => sort.j \in (sort.l - 1)..(sort.u - 2)

\* What the comparisons made so far say, for an order that makes sense: the
\* comment of the loop, a[l..i] <= P <= a[j..u], where i and j are not done.
Compared ==
  LET a == sort.a
      P == sort.a[sort.u - 1]
  IN /\ sort.at \in {"middle", "top"} => a[sort.l] <= a[sort.u]
     /\ sort.at = "top" => a[sort.l] <= a[sort.i]
     /\ sort.at = "up" =>
          /\ sort.i <= sort.u - 1
          /\ \A k \in sort.l..(sort.i - 1) : a[k] <= P
          /\ \A k \in sort.j..sort.u : P <= a[k]
     /\ sort.at = "down" =>
          /\ sort.i <= sort.u - 1 /\ sort.l <= sort.j
          /\ P <= a[sort.i]
          /\ \A k \in sort.l..(sort.i - 1) : a[k] <= P
          /\ \A k \in (sort.j + 1)..sort.u : P <= a[k]

Kept == \A x \in Nat : Times(sort.a, x) = Times(sort.given, x)

Ranked ==
  sort.order = "rank" =>
    /\ sort.at # "raised"
    /\ sort.a[0] = NoElement /\ sort.a[sort.n + 1] = NoElement
    /\ sort.at = "done" => InOrder(sort.a, sort.n, <<>>)
    /\ sort.at # "done" => InOrder(sort.a, sort.n, Left) /\ Compared

SortInv ==
  /\ SortTypeOK /\ Kept /\ Ranked
  /\ Sorting => Ranges(Left, sort.n) /\ Cursors
-----------------------------------------------------------------------------
(* Numbers.                                                                *)

\* A nonempty set of naturals has a least element, which Min is.
LEMMA MinIs ==
  ASSUME NEW S \in SUBSET Nat, S # {}
  PROVE  Min(S) \in S /\ \A x \in S : Min(S) <= x
<1> DEFINE Less == OpToRel(<, Nat)
<1>1. IsWellFoundedOn(Less, Nat) BY NatLessThanWellFounded
<1> HIDE DEF Less
<1>2. PICK i \in S : \A j \in S : <<j, i>> \notin Less BY <1>1, WFMin
<1>3. \A j \in S : ~(j < i) BY <1>2 DEF Less, OpToRel
<1>4. \E x \in S : \A y \in S : x <= y BY <1>3
<1> QED BY <1>4 DEF Min

\* A set with 0 in it and, with each number up to m, the next one.
LEMMA UpTo ==
  ASSUME NEW m \in Nat, NEW T, T \subseteq 0 .. m, 0 \in T,
         \A k \in 1 .. m : k - 1 \in T => k \in T
  PROVE  T = 0 .. m
<1> DEFINE Rest == (0 .. m) \ T
<1>1. SUFFICES ASSUME Rest # {} PROVE FALSE OBVIOUS
<1>2. Rest \in SUBSET Nat OBVIOUS
<1>3. Min(Rest) \in Rest /\ \A x \in Rest : Min(Rest) <= x BY <1>1, <1>2, MinIs
<1> DEFINE i == Min(Rest)
<1>4. i \in 1 .. m /\ i - 1 \in 0 .. m /\ i - 1 < i BY <1>3
<1>5. i - 1 \in T BY <1>3, <1>4
<1> QED BY <1>3, <1>4, <1>5

\* The recursion that defines TwoTo.
Powers(p, n) == p = [i \in 0..n |-> IF i = 0 THEN 1 ELSE 2 * p[i - 1]]

\* There is a function that the recursion defines.
LEMMA PowersExist ==
  ASSUME NEW n \in Nat
  PROVE  \E p : Powers(p, n)
<1> DEFINE T == {m \in 0 .. n : \E p : Powers(p, m)}
<1>1. 0 \in T
  <2>1. PICK p : p = [k \in 0 .. 0 |-> 1] OBVIOUS
  <2>2. Powers(p, 0) BY <2>1 DEF Powers
  <2> QED BY <2>2
<1>2. ASSUME NEW m \in 1 .. n, m - 1 \in T PROVE m \in T
  <2>1. PICK p : Powers(p, m - 1) BY <1>2
  <2>2. PICK q : q = [k \in 0 .. m |-> IF k = m THEN 2 * p[m - 1] ELSE p[k]] OBVIOUS
  <2>3. Powers(q, m) BY <2>1, <2>2 DEF Powers
  <2> QED BY <2>3
<1>3. T = 0 .. n BY <1>1, <1>2, UpTo
<1> QED BY <1>3

\* Two such functions agree.
LEMMA PowersUnique ==
  ASSUME NEW n \in Nat, NEW m \in 0 .. n, NEW p, NEW q, Powers(p, n), Powers(q, m)
  PROVE  p[m] = q[m]
<1> DEFINE T == {k \in 0 .. m : p[k] = q[k]}
<1>1. 0 \in T BY DEF Powers
<1>2. \A k \in 1 .. m : k - 1 \in T => k \in T BY DEF Powers
<1>3. m \in Nat /\ T \subseteq 0 .. m OBVIOUS
<1> HIDE DEF T
<1>4. T = 0 .. m BY <1>1, <1>2, <1>3, UpTo
<1> QED BY <1>3, <1>4 DEF T

\* TwoTo is the last value of such a function.
LEMMA TwoToIs ==
  ASSUME NEW n \in Nat, NEW p, Powers(p, n)
  PROVE  TwoTo(n) = p[n]
<1>1. \E q : Powers(q, n) /\ TwoTo(n) = q[n] BY DEF TwoTo, Powers
<1> QED BY <1>1, PowersUnique

\* Powers of two double.
LEMMA TwoToStep ==
  /\ TwoTo(0) = 1
  /\ \A n \in Nat : TwoTo(n + 1) = 2 * TwoTo(n)
<1>1. TwoTo(0) = 1
  <2>1. PICK p : Powers(p, 0) BY PowersExist
  <2>2. p[0] = 1 BY <2>1 DEF Powers
  <2>3. TwoTo(0) = p[0] BY <2>1, TwoToIs
  <2> QED BY <2>2, <2>3
<1>2. ASSUME NEW n \in Nat PROVE TwoTo(n + 1) = 2 * TwoTo(n)
  <2>1. PICK p : Powers(p, n + 1) BY PowersExist
  <2>2. PICK q : Powers(q, n) BY PowersExist
  <2>3. p[n] = q[n] BY <2>1, <2>2, PowersUnique
  <2>4. p[n + 1] = 2 * p[n] BY <2>1 DEF Powers
  <2>5. TwoTo(n) = q[n] /\ TwoTo(n + 1) = p[n + 1] BY <2>1, <2>2, TwoToIs
  <2> QED BY <2>3, <2>4, <2>5
<1> QED BY <1>1, <1>2

\* Powers of two are natural numbers, and grow.
LEMMA TwoToNat ==
  \A n \in Nat : TwoTo(n) \in Nat /\ n < TwoTo(n)
<1> SUFFICES ASSUME NEW n \in Nat PROVE TwoTo(n) \in Nat /\ n < TwoTo(n) OBVIOUS
<1> DEFINE T == {k \in 0 .. n : TwoTo(k) \in Nat /\ k < TwoTo(k)}
<1>1. 0 \in T BY TwoToStep
<1>2. ASSUME NEW k \in 1 .. n, k - 1 \in T PROVE k \in T
  <2>1. TwoTo((k - 1) + 1) = 2 * TwoTo(k - 1) BY TwoToStep
  <2>2. (k - 1) + 1 = k OBVIOUS
  <2> QED BY <1>2, <2>1, <2>2
<1>3. T = 0 .. n BY <1>1, <1>2, UpTo
<1> QED BY <1>3

-----------------------------------------------------------------------------
(* Exchanging two elements.                                                *)

\* What a swap changes: two elements.
LEMMA Swaps ==
  ASSUME NEW n \in Nat, NEW a \in Array(n), NEW x \in 0..(n + 1), NEW y \in 0..(n + 1)
  PROVE  /\ Swap(a, x, y) \in Array(n)
         /\ \A k \in 0..(n + 1) :
              Swap(a, x, y)[k] = IF k = x THEN a[y] ELSE IF k = y THEN a[x] ELSE a[k]
BY DEF Swap, Array

\* The elements stay the same, each as often as before.
LEMMA SwapKeeps ==
  ASSUME NEW n \in Nat, NEW a \in Array(n), NEW x \in 0..(n + 1), NEW y \in 0..(n + 1), NEW v
  PROVE  Times(Swap(a, x, y), v) = Times(a, v)
<1> DEFINE b == Swap(a, x, y)
           from == {k \in 0..(n + 1) : b[k] = v}
           to == {k \in 0..(n + 1) : a[k] = v}
           other(k) == IF k = x THEN y ELSE IF k = y THEN x ELSE k
           f == [k \in from |-> other(k)]
<1>1. b \in Array(n) /\ \A k \in 0..(n + 1) : b[k] = a[other(k)]
  <2>1. /\ b \in Array(n)
        /\ \A k \in 0..(n + 1) : b[k] = IF k = x THEN a[y] ELSE IF k = y THEN a[x] ELSE a[k]
    BY Swaps
  <2>2. \A k \in 0..(n + 1) :
          (IF k = x THEN a[y] ELSE IF k = y THEN a[x] ELSE a[k]) = a[other(k)]
    OBVIOUS
  <2> QED BY <2>1, <2>2
<1>2. Times(b, v) = Cardinality(from) /\ Times(a, v) = Cardinality(to)
  <2>1. DOMAIN b = 0..(n + 1) /\ DOMAIN a = 0..(n + 1) BY <1>1 DEF Array
  <2> QED BY <2>1 DEF Times
<1> HIDE DEF b
<1>3. f \in [from -> to] BY <1>1
<1>4. ASSUME NEW k \in from, NEW m \in from, f[k] = f[m] PROVE k = m
  BY <1>4
<1>5. ASSUME NEW m \in to PROVE \E k \in from : f[k] = m
  <2>1. other(m) \in 0..(n + 1) /\ other(other(m)) = m OBVIOUS
  <2>2. b[other(m)] = a[other(other(m))] BY <1>1, <2>1
  <2>3. other(m) \in from BY <2>1, <2>2
  <2> QED BY <2>1, <2>3
<1>6. f \in Bijection(from, to)
  BY <1>3, <1>4, <1>5 DEF Bijection, Injection, Surjection, IsInjective
<1>7. IsFiniteSet(from)
  <2>1. IsFiniteSet(0..(n + 1)) BY FS_Interval
  <2> QED BY <2>1, FS_Subset
<1>8. Cardinality(from) = Cardinality(to)
  BY <1>6, <1>7, FS_Bijection DEF ExistsBijection
<1> QED BY <1>2, <1>8 DEF b

-----------------------------------------------------------------------------
(* The ranges that are left.                                               *)

\* Without the first ones they still are parts of 1..n, apart, and nested.
LEMMA Fewer ==
  ASSUME NEW n \in Nat, NEW left \in Lists, Ranges(left, n), NEW k \in DOMAIN left,
         NEW rest \in Lists, Len(rest) = Len(left) - k + 1,
         \A m \in DOMAIN rest : rest[m] = left[m + k - 1]
  PROVE  Ranges(rest, n)
<1>1. Len(left) \in Nat /\ DOMAIN left = 1..Len(left) BY DEF Lists
<1>2. Len(rest) \in Nat /\ DOMAIN rest = 1..Len(rest) BY DEF Lists
<1>3. k \in Nat /\ \A m \in DOMAIN rest : m \in Int /\ m + k - 1 \in DOMAIN left BY <1>1, <1>2
<1>4. Inside(rest, n) BY <1>3 DEF Inside, Ranges
<1>5. Apart(rest)
  <2>1. \A m, p \in DOMAIN rest : m < p => m + k - 1 < p + k - 1 BY <1>3
  <2> QED BY <1>3, <2>1 DEF Apart, Ranges
<1>6. Nested(rest, n)
  <2>1. PICK sum \in [DOMAIN left -> Nat] : Halves(left, n, sum) BY DEF Ranges, Nested
  <2> DEFINE new == [m \in DOMAIN rest |-> sum[m + k - 1]]
  <2>2. new \in [DOMAIN rest -> Nat] BY <1>3
  <2>3. ASSUME NEW m \in DOMAIN rest
        PROVE  /\ Size(rest[m]) <= new[m] /\ new[m] <= n
               /\ m > 1 => new[m - 1] <= Size(rest[m]) /\ new[m - 1] + Size(rest[m]) <= new[m]
    <3>1. m + k - 1 \in DOMAIN left /\ rest[m] = left[m + k - 1] /\ new[m] = sum[m + k - 1]
      BY <1>3
    <3>2. Size(rest[m]) <= new[m] /\ new[m] <= n BY <2>1, <3>1 DEF Halves
    <3>3. CASE m > 1
      <4>1. m - 1 \in DOMAIN rest /\ (m - 1) + k - 1 = (m + k - 1) - 1 /\ m + k - 1 > 1
        BY <1>1, <1>2, <3>1, <3>3
      <4>2. new[m - 1] = sum[(m + k - 1) - 1] BY <4>1
      <4> QED BY <2>1, <3>1, <3>2, <4>1, <4>2 DEF Halves
    <3> QED BY <1>2, <3>2, <3>3
  <2> HIDE DEF new
  <2>4. Halves(rest, n, new) BY <2>3 DEF Halves
  <2> QED BY <2>2, <2>4 DEF Nested
<1> QED BY <1>4, <1>5, <1>6 DEF Ranges

\* What comes after the first k.
LEMMA Suffix ==
  ASSUME NEW s \in Lists, NEW k \in 1..Len(s)
  PROVE  /\ SubSeq(s, k + 1, Len(s)) \in Lists
         /\ Len(SubSeq(s, k + 1, Len(s))) = Len(s) - k
         /\ \A m \in 1..(Len(s) - k) : SubSeq(s, k + 1, Len(s))[m] = s[m + k]
<1>1. Len(s) \in Nat BY DEF Lists
<1>2. \A i \in (k + 1)..Len(s) : s[i] \in Int \X Int BY <1>1 DEF Lists
<1>3. /\ SubSeq(s, k + 1, Len(s)) \in Seq(Int \X Int)
      /\ Len(SubSeq(s, k + 1, Len(s))) = IF k + 1 <= Len(s) THEN Len(s) - (k + 1) + 1 ELSE 0
      /\ \A m \in 1..(Len(s) - (k + 1) + 1) : SubSeq(s, k + 1, Len(s))[m] = s[(k + 1) + m - 1]
  BY <1>1, <1>2, SubSeqProperties
<1>4. Len(s) - (k + 1) + 1 = Len(s) - k /\ \A m \in Int : (k + 1) + m - 1 = m + k BY <1>1
<1>5. Len(SubSeq(s, k + 1, Len(s))) = Len(s) - k BY <1>1, <1>3
<1>6. \A m \in 1..(Len(s) - k) : SubSeq(s, k + 1, Len(s))[m] = s[m + k]
  <2> SUFFICES ASSUME NEW m \in 1..(Len(s) - k) PROVE SubSeq(s, k + 1, Len(s))[m] = s[m + k]
    OBVIOUS
  <2>1. SubSeq(s, k + 1, Len(s))[m] = s[(k + 1) + m - 1] BY <1>3, <1>4
  <2>2. (k + 1) + m - 1 = m + k BY <1>1
  <2> QED BY <2>1, <2>2
<1> QED BY <1>3, <1>5, <1>6 DEF Lists

\* Ranges without two elements say nothing about the order.
LEMMA Needed ==
  ASSUME NEW n \in Nat, NEW a \in Array(n), NEW left \in Lists, NEW rest \in Lists,
         InOrder(a, n, left),
         \A k \in DOMAIN left :
           left[k][1] < left[k][2] => \E m \in DOMAIN rest : rest[m] = left[k]
  PROVE  InOrder(a, n, rest)
<1> SUFFICES ASSUME NEW x \in 1..n, NEW y \in 1..n, x < y, ~(a[x] <= a[y])
             PROVE  \E k \in DOMAIN rest : Has(rest[k], x) /\ Has(rest[k], y)
  BY DEF InOrder
<1>1. PICK k \in DOMAIN left : Has(left[k], x) /\ Has(left[k], y) BY DEF InOrder
<1>2. left[k] \in Int \X Int BY DEF Lists
<1>3. left[k][1] < left[k][2] BY <1>1, <1>2 DEF Has
<1> QED BY <1>1, <1>3

\* What holds of the state after a range is done.
LEMMA ContinueInv ==
  ASSUME SortTypeOK, Kept,
         NEW a \in Array(sort.n), NEW left \in Lists, sort' = Continue(a, left),
         \A x \in Nat : Times(a, x) = Times(sort.a, x),
         Ranges(left, sort.n),
         sort.order = "rank" =>
           a[0] = NoElement /\ a[sort.n + 1] = NoElement /\ InOrder(a, sort.n, left)
  PROVE  SortInv'
<1> DEFINE two == {k \in DOMAIN left : left[k][1] < left[k][2]}
<1>1. Len(left) \in Nat /\ DOMAIN left = 1..Len(left) /\ \A k \in DOMAIN left : left[k] \in Int \X Int
  BY DEF Lists
<1>2. sort.n \in Nat /\ a \in Arrays BY DEF SortTypeOK, Arrays
<1>3. CASE two = {}
  <2>1. sort' = [sort EXCEPT !.a = a, !.todo = <<>>, !.at = "done"] BY <1>3 DEF Continue
  <2>2. <<>> \in Lists BY DEF Lists
  <2>3. SortTypeOK' BY <1>2, <2>1, <2>2 DEF SortTypeOK, Steps
  <2>4. /\ sort'.a = a /\ sort'.at = "done" /\ sort'.n = sort.n /\ sort'.order = sort.order
        /\ sort'.given = sort.given
    BY <2>1 DEF SortTypeOK
  <2>5. Kept' BY <2>4 DEF Kept
  <2>6. sort.order = "rank" => InOrder(a, sort.n, <<>>) BY <1>2, <1>3, <2>2, Needed
  <2>7. Ranked' BY <2>4, <2>6 DEF Ranked
  <2> QED BY <2>3, <2>4, <2>5, <2>7 DEF SortInv, Sorting
<1>4. CASE two # {}
  <2> DEFINE k == Min(two)
             rest == SubSeq(left, k + 1, Len(left))
             new == <<<<left[k][1], left[k][2]>>>> \o rest
  <2>1. two \in SUBSET Nat BY <1>1
  <2>2. k \in two /\ \A m \in two : k <= m BY <1>4, <2>1, MinIs
  <2>3. /\ sort' = [sort EXCEPT !.a = a, !.todo = rest, !.l = left[k][1], !.u = left[k][2], !.at = "ends"]
    BY <1>4 DEF Continue
  <2> HIDE DEF k
  <2>4. k \in 1..Len(left) /\ left[k][1] \in Int /\ left[k][2] \in Int /\ left[k][1] < left[k][2]
    BY <1>1, <2>2
  <2>5. rest \in Lists /\ Len(rest) = Len(left) - k /\ \A m \in 1..(Len(left) - k) : rest[m] = left[m + k]
    BY <2>4, Suffix
  <2> HIDE DEF rest
  <2>6. left[k] = <<left[k][1], left[k][2]>> BY <1>1, <2>4
  <2>7. new \in Lists /\ Len(new) = Len(left) - k + 1 /\ DOMAIN new = 1..(Len(left) - k + 1)
    BY <1>1, <2>4, <2>5 DEF Lists
  <2>8. \A m \in DOMAIN new : new[m] = left[m + k - 1]
    <3> SUFFICES ASSUME NEW m \in 1..(Len(left) - k + 1) PROVE new[m] = left[m + k - 1]
      BY <2>7
    <3>1. CASE m = 1 BY <2>4, <2>5, <2>6, <3>1 DEF Lists
    <3>2. CASE m # 1
      <4>1. m - 1 \in 1..(Len(left) - k) BY <1>1, <2>4, <3>2
      <4>2. new[m] = rest[m - 1] BY <1>1, <2>4, <2>5, <4>1 DEF Lists
      <4>3. rest[m - 1] = left[(m - 1) + k] BY <2>5, <4>1
      <4>4. (m - 1) + k = m + k - 1 BY <2>4, <4>1
      <4> QED BY <4>2, <4>3, <4>4
    <3> QED BY <3>1, <3>2
  <2>9. SortTypeOK' BY <1>2, <2>3, <2>4, <2>5 DEF SortTypeOK, Steps
  <2>10. /\ sort'.a = a /\ sort'.at = "ends" /\ sort'.n = sort.n /\ sort'.order = sort.order
         /\ sort'.given = sort.given /\ sort'.l = left[k][1] /\ sort'.u = left[k][2]
         /\ sort'.todo = rest
    BY <2>3 DEF SortTypeOK
  <2>11. Left' = new BY <2>10 DEF Left
  <2> HIDE DEF new
  <2>12. Ranges(new, sort.n) BY <1>1, <1>2, <2>4, <2>7, <2>8, Fewer
  <2>13. sort.order = "rank" => InOrder(a, sort.n, new)
    <3>1. ASSUME NEW m \in DOMAIN left, left[m][1] < left[m][2]
          PROVE  \E p \in DOMAIN new : new[p] = left[m]
      <4>1. k <= m BY <2>2, <3>1
      <4>2. m \in Int /\ k \in Int /\ m <= Len(left) BY <1>1, <2>4
      <4>3. m - k + 1 \in 1..(Len(left) - k + 1) /\ (m - k + 1) + k - 1 = m BY <1>1, <4>1, <4>2
      <4>4. new[m - k + 1] = left[(m - k + 1) + k - 1] BY <2>7, <2>8, <4>3
      <4> QED BY <2>7, <4>3, <4>4
    <3> QED BY <1>2, <2>7, <3>1, Needed
  <2>14. Kept' BY <2>10 DEF Kept
  <2>15. Compared' BY <2>10 DEF Compared
  <2>16. Ranked' BY <2>10, <2>11, <2>13, <2>15 DEF Ranked
  <2>17. Cursors' BY <2>4, <2>10 DEF Cursors
  <2> QED BY <2>9, <2>10, <2>11, <2>12, <2>14, <2>16, <2>17 DEF SortInv
<1> QED BY <1>3, <1>4

\* Exchanging two elements of the first range keeps the order between ranges.
LEMMA SwapInside ==
  ASSUME NEW n \in Nat, NEW a \in Array(n), NEW left \in Lists, Len(left) >= 1,
         Inside(left, n), Apart(left), InOrder(a, n, left), left[1][1] < left[1][2],
         NEW x \in left[1][1]..left[1][2], NEW y \in left[1][1]..left[1][2]
  PROVE  InOrder(Swap(a, x, y), n, left)
<1> DEFINE b == Swap(a, x, y)
           l == left[1][1]
           u == left[1][2]
           from(k) == IF k = x THEN y ELSE IF k = y THEN x ELSE k
<1>1. /\ Len(left) \in Nat /\ 1 \in DOMAIN left /\ DOMAIN left = 1..Len(left)
      /\ \A k \in DOMAIN left : left[k] \in Int \X Int
  BY DEF Lists
<1>2. l \in Int /\ u \in Int /\ 1 <= l /\ u <= n /\ l < u BY <1>1 DEF Inside
<1>3. x \in 1..n /\ y \in 1..n BY <1>2
<1>4. \A k \in 1..n : b[k] = a[from(k)] /\ from(k) \in 1..n
  <2>1. \A k \in 0..(n + 1) : b[k] = IF k = x THEN a[y] ELSE IF k = y THEN a[x] ELSE a[k]
    BY <1>3, Swaps
  <2> QED BY <1>3, <2>1
<1> HIDE DEF b
<1> SUFFICES ASSUME NEW p \in 1..n, NEW q \in 1..n, p < q, ~(b[p] <= b[q])
             PROVE  \E k \in DOMAIN left : Has(left[k], p) /\ Has(left[k], q)
  BY DEF InOrder, b
<1>5. \A k \in 1..n : l <= k /\ k <= u => l <= from(k) /\ from(k) <= u BY <1>2
<1>6. \A k \in 1..n : ~(l <= k /\ k <= u) => from(k) = k BY <1>2
<1>7. CASE l <= p /\ p <= u /\ l <= q /\ q <= u BY <1>1, <1>7 DEF Has
<1>8. CASE ~(l <= p /\ p <= u) \/ ~(l <= q /\ q <= u)
  <2>1. from(p) < from(q)
    <3>1. CASE l <= p /\ p <= u
      <4>1. ~(l <= q /\ q <= u) BY <1>8, <3>1
      <4>2. u < q BY <1>2, <3>1, <4>1
      <4>3. from(p) <= u /\ from(q) = q /\ from(p) \in 1..n BY <1>4, <1>5, <1>6, <3>1, <4>1
      <4> QED BY <1>2, <4>2, <4>3
    <3>2. CASE ~(l <= p /\ p <= u)
      <4>1. from(p) = p BY <1>6, <3>2
      <4>2. CASE l <= q /\ q <= u
        <5>1. p < l BY <1>2, <3>2, <4>2
        <5>2. l <= from(q) /\ from(q) \in 1..n BY <1>4, <1>5, <4>2
        <5> QED BY <1>2, <4>1, <5>1, <5>2
      <4>3. CASE ~(l <= q /\ q <= u)
        <5>1. from(q) = q BY <1>6, <4>3
        <5> QED BY <4>1, <5>1
      <4> QED BY <4>2, <4>3
    <3> QED BY <3>1, <3>2
  <2>2. from(p) \in 1..n /\ from(q) \in 1..n /\ b[p] = a[from(p)] /\ b[q] = a[from(q)] BY <1>4
  <2> HIDE DEF from
  <2>3. PICK k \in DOMAIN left : Has(left[k], from(p)) /\ Has(left[k], from(q))
    BY <2>1, <2>2 DEF InOrder
  <2> USE DEF from
  <2>4. k \in 1..Len(left) /\ left[k][1] \in Int /\ left[k][2] \in Int BY <1>1
  <2>5. CASE k = 1
    <3>1. \A m \in 1..n : l <= from(m) /\ from(m) <= u => l <= m /\ m <= u BY <1>2
    <3> HIDE DEF from
    <3>2. l <= from(p) /\ from(p) <= u /\ l <= from(q) /\ from(q) <= u BY <2>3, <2>5 DEF Has
    <3> QED BY <1>8, <3>1, <3>2
  <2>6. CASE k # 1
    <3>1. u < left[k][1] \/ left[k][2] < l
      <4>1. k > 1 BY <2>4, <2>6
      <4> QED BY <1>1, <4>1 DEF Apart
    <3> HIDE DEF from, l, u
    <3>2. \A v \in Int : Has(left[k], v) => ~(l <= v /\ v <= u)
      BY <1>2, <2>4, <3>1 DEF Has
    <3>3. \A m \in 1..n : ~(l <= from(m) /\ from(m) <= u) => from(m) = m
      BY <1>4, <1>5, <1>6
    <3>4. from(p) = p /\ from(q) = q BY <2>2, <2>3, <3>2, <3>3
    <3> QED BY <2>3, <3>4
  <2> QED BY <2>5, <2>6
<1> QED BY <1>7, <1>8

\* Once the first range is in order, the others are left.
LEMMA FirstInOrder ==
  ASSUME NEW n \in Nat, NEW a \in Array(n), NEW l \in Int, NEW u \in Int, NEW todo \in Lists,
         InOrder(a, n, <<<<l, u>>>> \o todo),
         \A x, y \in l..u : x < y => a[x] <= a[y]
  PROVE  InOrder(a, n, todo)
<1> DEFINE left == <<<<l, u>>>> \o todo
<1>1. /\ Len(todo) \in Nat /\ DOMAIN todo = 1..Len(todo) /\ DOMAIN left = 1..(Len(todo) + 1)
      /\ \A k \in DOMAIN left : k # 1 => k - 1 \in DOMAIN todo /\ left[k] = todo[k - 1]
      /\ left[1] = <<l, u>>
  BY DEF Lists
<1> HIDE DEF left
<1> SUFFICES ASSUME NEW x \in 1..n, NEW y \in 1..n, x < y, ~(a[x] <= a[y])
             PROVE  \E k \in DOMAIN todo : Has(todo[k], x) /\ Has(todo[k], y)
  BY DEF InOrder
<1>2. PICK k \in DOMAIN left : Has(left[k], x) /\ Has(left[k], y) BY DEF InOrder, left
<1>3. k # 1 BY <1>1, <1>2 DEF Has
<1> QED BY <1>1, <1>2, <1>3

\* The first range is taken away, and r and q come in its place.
Replaces(left, new, r, q) ==
  /\ left \in Lists /\ new \in Lists /\ Len(left) >= 1 /\ Len(new) = Len(left) + 1
  /\ new[1] = r /\ new[2] = q
  /\ \A k \in 3..Len(new) : new[k] = left[k - 1]

\* Split puts two ranges where the one being sorted was.
LEMMA Replaced ==
  ASSUME NEW todo \in Lists, NEW p \in Int \X Int, NEW r \in Int \X Int, NEW q \in Int \X Int
  PROVE  Replaces(<<p>> \o todo, <<r, q>> \o todo, r, q)
<1> DEFINE left == <<p>> \o todo
           new == <<r, q>> \o todo
<1>1. Len(todo) \in Nat /\ left \in Lists /\ new \in Lists BY DEF Lists
<1>2. Len(left) = Len(todo) + 1 /\ Len(new) = Len(todo) + 2 /\ new[1] = r /\ new[2] = q BY DEF Lists
<1>3. \A k \in 1..Len(todo) : left[k + 1] = todo[k] /\ new[k + 2] = todo[k]
  <2>1. \A k \in 1..Len(todo) : left[k + 1] = todo[k] BY DEF Lists
  <2>2. \A k \in 1..Len(todo) : new[k + 2] = todo[k] BY DEF Lists
  <2> QED BY <2>1, <2>2
<1> HIDE DEF left, new
<1>4. ASSUME NEW k \in 3..Len(new) PROVE new[k] = left[k - 1]
  <2>1. k - 2 \in 1..Len(todo) /\ (k - 2) + 1 = k - 1 /\ (k - 2) + 2 = k
    <3>1. k \in Int /\ 3 <= k /\ k <= Len(todo) + 2 /\ Len(todo) \in Nat BY <1>1, <1>2
    <3> QED BY <3>1
  <2>2. left[(k - 2) + 1] = todo[k - 2] /\ new[(k - 2) + 2] = todo[k - 2] BY <1>3, <2>1
  <2> QED BY <2>1, <2>2
<1>5. Replaces(left, new, r, q) BY <1>1, <1>2, <1>4 DEF Replaces
<1> QED BY <1>5 DEF left, new

\* Where the parts of both lists are.
LEMMA Places ==
  ASSUME NEW left, NEW new, NEW r, NEW q, Replaces(left, new, r, q)
  PROVE  \E len \in Nat :
           /\ len >= 1 /\ DOMAIN left = 1..len /\ DOMAIN new = 1..(len + 1)
           /\ new[1] = r /\ new[2] = q
           /\ \A k \in 3..(len + 1) : new[k] = left[k - 1]
           /\ \A k \in DOMAIN left : left[k] \in Int \X Int
<1>1. left \in Seq(Int \X Int) /\ new \in Seq(Int \X Int) BY DEF Replaces, Lists
<1>2. PICK len \in Nat : len = Len(left) BY <1>1
<1>3. DOMAIN left = 1..len /\ \A k \in DOMAIN left : left[k] \in Int \X Int BY <1>1, <1>2
<1>4. Len(new) = len + 1 BY <1>2 DEF Replaces
<1>5. DOMAIN new = 1..(len + 1) BY <1>1, <1>4
<1>6. len >= 1 BY <1>2 DEF Replaces
<1>7. new[1] = r /\ new[2] = q BY DEF Replaces
<1>8. \A k \in 3..(len + 1) : new[k] = left[k - 1] BY <1>4 DEF Replaces
<1> QED BY <1>3, <1>5, <1>6, <1>7, <1>8

\* A range is parted in two, the smaller one first.
LEMMA Parted ==
  ASSUME NEW n \in Nat, NEW l \in Int, NEW u \in Int, l < u,
         NEW r \in Int \X Int, NEW q \in Int \X Int,
         NEW left, NEW new, Replaces(left, new, r, q), left[1] = <<l, u>>, Ranges(left, n),
         l <= r[1], r[2] <= u, l <= q[1], q[2] <= u, r[2] < q[1] \/ q[2] < r[1],
         0 <= Size(q), Size(r) <= Size(q), Size(q) <= Size(<<l, u>>),
         Size(r) + Size(q) <= Size(<<l, u>>)
  PROVE  Ranges(new, n)
<1>1. PICK len \in Nat :
        /\ len >= 1 /\ DOMAIN left = 1..len /\ DOMAIN new = 1..(len + 1)
        /\ new[1] = r /\ new[2] = q
        /\ \A k \in 3..(len + 1) : new[k] = left[k - 1]
        /\ \A k \in DOMAIN left : left[k] \in Int \X Int
  BY Places
<1>20. len >= 1 /\ DOMAIN left = 1..len /\ DOMAIN new = 1..(len + 1) BY <1>1
<1>2. /\ left[1] = <<l, u>> /\ new[1] = r /\ new[2] = q
      /\ \A k \in 3..(len + 1) : new[k] = left[k - 1]
      /\ \A k \in DOMAIN left : left[k] \in Int \X Int
  BY <1>1
<1>3. ASSUME NEW k \in DOMAIN new, k \notin {1, 2}
      PROVE  k \in 3..(len + 1) /\ k - 1 \in DOMAIN left /\ k - 1 > 1
  <2>1. k \in Int /\ k >= 1 /\ k <= len + 1 /\ k # 1 /\ k # 2 BY <1>20, <1>3
  <2>2. k \in 3..(len + 1) /\ k - 1 \in 1..len /\ k - 1 > 1 BY <2>1
  <2> QED BY <1>20, <2>2
<1>4. 1 \in DOMAIN left /\ 1 <= l /\ u <= n
  <2>1. 1 \in DOMAIN left BY <1>20
  <2>2. \A k \in DOMAIN left : left[k][1] < left[k][2] => 1 <= left[k][1] /\ left[k][2] <= n
    BY DEF Ranges, Inside
  <2> QED BY <1>2, <2>1, <2>2
<1>5. Inside(new, n)
  <2> SUFFICES ASSUME NEW k \in DOMAIN new, new[k][1] < new[k][2]
               PROVE  1 <= new[k][1] /\ new[k][2] <= n
    BY DEF Inside
  <2>1. CASE k \in {1, 2} BY <1>2, <1>4, <2>1
  <2>2. CASE k \notin {1, 2}
    <3>1. new[k] = left[k - 1] /\ k - 1 \in DOMAIN left BY <1>2, <1>3, <2>2
    <3> QED BY <3>1 DEF Ranges, Inside
  <2> QED BY <2>1, <2>2
<1>6. Apart(new)
  <2>1. \A k \in DOMAIN left : k > 1 => u < left[k][1] \/ left[k][2] < l
    <3> SUFFICES ASSUME NEW k \in DOMAIN left, k > 1
                 PROVE  u < left[k][1] \/ left[k][2] < l
      OBVIOUS
    <3>1. left[1][2] < left[k][1] \/ left[k][2] < left[1][1] BY <1>4 DEF Ranges, Apart
    <3> QED BY <1>2, <3>1
  <2> SUFFICES ASSUME NEW k \in DOMAIN new, NEW m \in DOMAIN new, k < m
               PROVE  new[k][2] < new[m][1] \/ new[m][2] < new[k][1]
    BY DEF Apart
  <2>2. CASE m \in {1, 2}
    <3>1. k = 1 /\ m = 2 BY <1>1, <2>2
    <3> QED BY <1>2, <3>1
  <2>3. CASE m \notin {1, 2}
    <3>1. m - 1 \in DOMAIN left /\ m - 1 > 1 /\ new[m] = left[m - 1] /\ left[m - 1] \in Int \X Int
      BY <1>2, <1>3, <2>3
    <3>2. u < left[m - 1][1] \/ left[m - 1][2] < l BY <2>1, <3>1
    <3>3. CASE k = 1 BY <1>2, <3>1, <3>2, <3>3
    <3>4. CASE k = 2 BY <1>2, <3>1, <3>2, <3>4
    <3>5. CASE k \notin {1, 2}
      <4>1. k - 1 \in DOMAIN left /\ new[k] = left[k - 1] BY <1>2, <1>3, <3>5
      <4>2. k - 1 < m - 1 BY <1>1
      <4> QED BY <3>1, <4>1, <4>2 DEF Ranges, Apart
    <3> QED BY <3>3, <3>4, <3>5
  <2> QED BY <2>2, <2>3
<1>7. Nested(new, n)
  <2>1. PICK sum \in [DOMAIN left -> Nat] : Halves(left, n, sum) BY DEF Ranges, Nested
  <2> DEFINE first == IF Size(r) > 0 THEN Size(r) ELSE 0
             sums == [k \in DOMAIN new |-> IF k = 1 THEN first ELSE sum[k - 1]]
  <2>2. /\ first \in Nat /\ Size(r) <= first /\ first <= Size(q) /\ first + Size(q) <= Size(<<l, u>>)
        /\ Size(r) \in Int /\ Size(q) \in Int /\ Size(<<l, u>>) \in Int
    BY DEF Size
  <2>3. \A k \in DOMAIN new : k # 1 => k - 1 \in DOMAIN left BY <1>1
  <2> HIDE DEF first
  <2>4. sums \in [DOMAIN new -> Nat] BY <2>2, <2>3
  <2>5. Size(<<l, u>>) <= sum[1] /\ sum[1] \in Nat /\ sum[1] <= n BY <1>2, <1>4, <2>1 DEF Halves
  <2>6. first <= n BY <2>2, <2>5
  <2>7. /\ 1 \in DOMAIN new /\ 2 \in DOMAIN new
        /\ sums[1] = first /\ \A k \in DOMAIN new : k # 1 => sums[k] = sum[k - 1]
    BY <1>1
  <2> HIDE DEF sums
  <2>8. ASSUME NEW k \in DOMAIN new
        PROVE  /\ Size(new[k]) <= sums[k] /\ sums[k] <= n
               /\ k > 1 => sums[k - 1] <= Size(new[k]) /\ sums[k - 1] + Size(new[k]) <= sums[k]
    <3>1. CASE k = 1
      <4>1. new[k] = r /\ sums[k] = first /\ ~(k > 1) BY <1>2, <2>7, <3>1
      <4> QED BY <2>2, <2>6, <4>1
    <3>2. CASE k = 2
      <4>1. k - 1 = 1 /\ k # 1 /\ k > 1 BY <3>2
      <4>2. sums[k] = sum[1] /\ sums[k - 1] = first /\ new[k] = q BY <1>2, <2>7, <3>2, <4>1
      <4> QED BY <2>2, <2>5, <4>2
    <3>3. CASE k \notin {1, 2}
      <4>1. new[k] = left[k - 1] /\ k - 1 \in DOMAIN left /\ k - 1 > 1 BY <1>2, <1>3, <3>3
      <4>2. k - 1 \in DOMAIN new /\ k - 1 # 1 /\ k # 1 BY <1>1, <3>3, <4>1
      <4>3. sums[k] = sum[k - 1] /\ sums[k - 1] = sum[(k - 1) - 1] BY <2>7, <4>2
      <4> QED BY <2>1, <4>1, <4>3 DEF Halves
    <3> QED BY <3>1, <3>2, <3>3
  <2>9. Halves(new, n, sums) BY <2>8 DEF Halves
  <2> QED BY <2>4, <2>9 DEF Nested
<1> QED BY <1>5, <1>6, <1>7 DEF Ranges

\* What is left and right of the pivot is in order with each other.
LEMMA PartsInOrder ==
  ASSUME NEW n \in Nat, NEW a \in Array(n), NEW l \in Int, NEW u \in Int, 1 <= l, u <= n,
         NEW i \in l..u,
         \A k \in l..(i - 1) : a[k] <= a[i],
         \A k \in (i + 1)..u : a[i] <= a[k],
         NEW r \in Int \X Int, NEW q \in Int \X Int,
         {r, q} = {<<l, i - 1>>, <<i + 1, u>>},
         NEW left, NEW new, Replaces(left, new, r, q), left[1] = <<l, u>>, InOrder(a, n, left)
  PROVE  InOrder(a, n, new)
<1>1. PICK len \in Nat :
        /\ len >= 1 /\ DOMAIN left = 1..len /\ DOMAIN new = 1..(len + 1)
        /\ new[1] = r /\ new[2] = q
        /\ \A k \in 3..(len + 1) : new[k] = left[k - 1]
        /\ \A k \in DOMAIN left : left[k] \in Int \X Int
  BY Places
<1>20. len >= 1 /\ DOMAIN left = 1..len /\ DOMAIN new = 1..(len + 1) BY <1>1
<1>2. /\ left[1] = <<l, u>> /\ new[1] = r /\ new[2] = q
      /\ \A k \in 3..(len + 1) : new[k] = left[k - 1]
  BY <1>1
<1>3. 1 \in DOMAIN new /\ 2 \in DOMAIN new BY <1>20
<1> SUFFICES ASSUME NEW x \in 1..n, NEW y \in 1..n, x < y, ~(a[x] <= a[y])
             PROVE  \E k \in DOMAIN new : Has(new[k], x) /\ Has(new[k], y)
  BY DEF InOrder
<1>4. PICK k \in DOMAIN left : Has(left[k], x) /\ Has(left[k], y) BY DEF InOrder
<1>5. CASE k # 1
  <2>1. k + 1 \in 3..(len + 1) /\ (k + 1) - 1 = k /\ k + 1 \in DOMAIN new
    <3>1. k \in 1..len /\ k # 1 BY <1>20, <1>5
    <3>2. k + 1 \in 3..(len + 1) /\ (k + 1) - 1 = k BY <3>1
    <3> QED BY <1>20, <3>2
  <2>2. new[k + 1] = left[(k + 1) - 1] BY <1>2, <2>1
  <2> QED BY <1>4, <2>1, <2>2
<1>6. CASE k = 1
  <2>1. l <= x /\ y <= u BY <1>2, <1>4, <1>6 DEF Has
  <2>2. a[x] \in Nat /\ a[y] \in Nat /\ a[i] \in Nat /\ i \in 1..n
    <3>1. i \in 1..n OBVIOUS
    <3>2. \A m \in 0..(n + 1) : a[m] \in Nat BY DEF Array
    <3>3. x \in 0..(n + 1) /\ y \in 0..(n + 1) /\ i \in 0..(n + 1) BY <3>1
    <3> QED BY <3>1, <3>2, <3>3
  <2>3. y < i \/ i < x
    <3> SUFFICES ASSUME x <= i, i <= y PROVE FALSE BY <2>2
    <3>1. a[x] <= a[i]
      <4>1. CASE x = i BY <2>2, <4>1
      <4>2. CASE x # i
        <5>1. x \in l..(i - 1) BY <2>1, <2>2, <4>2
        <5> QED BY <5>1
      <4> QED BY <4>1, <4>2
    <3>2. a[i] <= a[y]
      <4>1. CASE y = i BY <2>2, <4>1
      <4>2. CASE y # i
        <5>1. y \in (i + 1)..u BY <2>1, <2>2, <4>2
        <5> QED BY <5>1
      <4> QED BY <4>1, <4>2
    <3> QED BY <2>2, <3>1, <3>2
  <2>4. \E s \in {r, q} : Has(s, x) /\ Has(s, y)
    <3>1. CASE y < i
      <4>1. Has(<<l, i - 1>>, x) /\ Has(<<l, i - 1>>, y) BY <2>1, <2>2, <3>1 DEF Has
      <4>2. <<l, i - 1>> \in {r, q} OBVIOUS
      <4> QED BY <4>1, <4>2
    <3>2. CASE i < x
      <4>1. Has(<<i + 1, u>>, x) /\ Has(<<i + 1, u>>, y) BY <2>1, <2>2, <3>2 DEF Has
      <4>2. <<i + 1, u>> \in {r, q} OBVIOUS
      <4> QED BY <4>1, <4>2
    <3> QED BY <2>3, <3>1, <3>2
  <2> QED BY <1>2, <1>3, <2>4
<1> QED BY <1>5, <1>6

-----------------------------------------------------------------------------
(* The steps.                                                              *)

\* b has the same elements as sort.a, and the ranges that are left suit it.
Suits(b) ==
  /\ b \in Array(sort.n)
  /\ \A x \in Nat : Times(b, x) = Times(sort.a, x)
  /\ sort.order = "rank" =>
       b[0] = NoElement /\ b[sort.n + 1] = NoElement /\ InOrder(b, sort.n, Left)

\* What the invariant says while the sort goes on.
LEMMA WhileSorting ==
  ASSUME SortInv, Sorting
  PROVE  /\ sort.n \in Nat /\ sort.l \in Int /\ sort.u \in Int /\ sort.i \in Int /\ sort.j \in Int
         /\ 1 <= sort.l /\ sort.l < sort.u /\ sort.u <= sort.n
         /\ sort.todo \in Lists /\ Left \in Lists /\ Len(Left) >= 1 /\ Left[1] = <<sort.l, sort.u>>
         /\ Left = <<<<sort.l, sort.u>>>> \o sort.todo
         /\ sort.order \in {"rank", "any"}
         /\ Ranges(Left, sort.n) /\ Ranges(sort.todo, sort.n) /\ Cursors /\ Suits(sort.a)
         /\ sort.order = "rank" => Compared
<1>1. /\ sort.n \in Nat /\ sort.l \in Int /\ sort.u \in Int /\ sort.i \in Int /\ sort.j \in Int
      /\ sort.todo \in Lists /\ sort.order \in {"rank", "any"} /\ sort.a \in Array(sort.n)
  BY DEF SortInv, SortTypeOK
<1>2. Left \in Lists /\ Len(Left) = Len(sort.todo) + 1 /\ Len(sort.todo) \in Nat
      /\ Left[1] = <<sort.l, sort.u>>
  BY <1>1 DEF Left, Lists
<1>3. Ranges(Left, sort.n) /\ Cursors BY DEF SortInv
<1>4. 1 \in DOMAIN Left BY <1>2 DEF Lists
<1>5. sort.l < sort.u BY <1>3 DEF Cursors
<1>6. 1 <= sort.l /\ sort.u <= sort.n BY <1>2, <1>3, <1>4, <1>5 DEF Ranges, Inside
<1>7. Ranges(sort.todo, sort.n)
  <2>1. CASE Len(sort.todo) = 0
    <3>1. DOMAIN sort.todo = {} BY <1>1, <2>1 DEF Lists
    <3>2. [k \in DOMAIN sort.todo |-> 0] \in [DOMAIN sort.todo -> Nat] OBVIOUS
    <3>3. Nested(sort.todo, sort.n) BY <3>1, <3>2 DEF Nested, Halves
    <3> QED BY <3>1, <3>3 DEF Ranges, Inside, Apart
  <2>2. CASE Len(sort.todo) > 0
    <3>1. 2 \in DOMAIN Left /\ Len(sort.todo) = Len(Left) - 2 + 1 BY <1>2, <2>2 DEF Lists
    <3>2. \A m \in DOMAIN sort.todo : sort.todo[m] = Left[m + 2 - 1]
      <4>1. \A m \in 1..Len(sort.todo) : Left[m + 1] = sort.todo[m]
        <5>1. PICK s, r : s = sort.todo /\ r = <<sort.l, sort.u>> OBVIOUS
        <5>2. \A m \in 1..Len(s) : (<<r>> \o s)[m + 1] = s[m] BY <1>1, <5>1 DEF Lists
        <5> QED BY <5>1, <5>2 DEF Left
      <4>2. \A m \in 1..Len(sort.todo) : m + 2 - 1 = m + 1 BY <1>2
      <4>3. DOMAIN sort.todo = 1..Len(sort.todo) BY <1>1 DEF Lists
      <4> QED BY <4>1, <4>2, <4>3
    <3> QED BY <1>1, <1>2, <1>3, <3>1, <3>2, Fewer
  <2> QED BY <1>2, <2>1, <2>2
<1>8. Suits(sort.a) BY <1>1 DEF SortInv, Ranked, Sorting, Suits
<1>9. sort.order = "rank" => Compared BY DEF SortInv, Ranked, Sorting
<1> QED BY <1>1, <1>2, <1>3, <1>5, <1>6, <1>7, <1>8, <1>9 DEF Left

\* Exchanging elements of the range that is being sorted.
LEMMA SwapSuits ==
  ASSUME SortInv, Sorting, NEW b, Suits(b),
         NEW x \in sort.l..sort.u, NEW y \in sort.l..sort.u
  PROVE  /\ Suits(Swap(b, x, y))
         /\ Swap(b, x, y)[x] = b[y] /\ Swap(b, x, y)[y] = b[x]
         /\ \A k \in 0..(sort.n + 1) : k # x /\ k # y => Swap(b, x, y)[k] = b[k]
<1> DEFINE n == sort.n
           c == Swap(b, x, y)
<1>1. /\ n \in Nat /\ sort.l \in Int /\ sort.u \in Int /\ 1 <= sort.l /\ sort.l < sort.u /\ sort.u <= n
      /\ Left \in Lists /\ Len(Left) >= 1 /\ Left[1] = <<sort.l, sort.u>> /\ Ranges(Left, n)
  BY WhileSorting
<1>2. x \in 1..n /\ y \in 1..n /\ b \in Array(n) BY <1>1 DEF Suits
<1>3. /\ c \in Array(n)
      /\ \A k \in 0..(n + 1) : c[k] = IF k = x THEN b[y] ELSE IF k = y THEN b[x] ELSE b[k]
  BY <1>1, <1>2, Swaps
<1>4. \A v \in Nat : Times(c, v) = Times(sort.a, v)
  <2>1. x \in 0..(n + 1) /\ y \in 0..(n + 1) BY <1>1, <1>2
  <2>2. \A v : Times(c, v) = Times(b, v) BY <1>1, <1>2, <2>1, SwapKeeps
  <2> QED BY <2>2 DEF Suits
<1>5. ASSUME sort.order = "rank"
      PROVE  c[0] = NoElement /\ c[n + 1] = NoElement /\ InOrder(c, n, Left)
  <2>1. c[0] = NoElement /\ c[n + 1] = NoElement
    <3>1. 0 \in 0..(n + 1) /\ n + 1 \in 0..(n + 1) /\ x \notin {0, n + 1} /\ y \notin {0, n + 1}
      BY <1>1, <1>2
    <3> QED BY <1>3, <1>5, <3>1 DEF Suits
  <2>2. InOrder(b, n, Left) BY <1>5 DEF Suits
  <2>3. InOrder(c, n, Left) BY <1>1, <1>2, <2>2, SwapInside DEF Ranges
  <2> QED BY <2>1, <2>3
<1>6. c[x] = b[y] /\ c[y] = b[x] /\ \A k \in 0..(n + 1) : k # x /\ k # y => c[k] = b[k]
  <2>1. x \in 0..(n + 1) /\ y \in 0..(n + 1) BY <1>1, <1>2
  <2> HIDE DEF c
  <2> QED BY <1>3, <2>1
<1> QED BY <1>3, <1>4, <1>5, <1>6 DEF Suits

\* With an order that makes no sense any elements may be exchanged.
LEMMA AnySuits ==
  ASSUME SortInv, Sorting, sort.order = "any",
         NEW x \in 0..(sort.n + 1), NEW y \in 0..(sort.n + 1)
  PROVE  Suits(Swap(sort.a, x, y))
BY WhileSorting, Swaps, SwapKeeps DEF Suits

\* A step that goes on with the same range.
GoOn(b, i, j, at) == [sort EXCEPT !.a = b, !.i = i, !.j = j, !.at = at]

\* A step inside one range keeps the invariant when the cursors and the
\* comparisons still fit.
LEMMA SameRange ==
  ASSUME SortInv, Sorting, NEW b, Suits(b), NEW i \in Int, NEW j \in Int,
         NEW at \in {"middle", "top", "up", "down"},
         sort' = GoOn(b, i, j, at),
         Cursors', sort.order = "rank" => Compared'
  PROVE  SortInv'
<1>1. sort.a \in Array(sort.n) /\ sort.n \in Nat /\ SortTypeOK BY DEF SortInv, SortTypeOK
<1>2. b \in Array(sort.n) /\ b \in Arrays BY <1>1 DEF Suits, Arrays
<1>3. SortTypeOK' BY <1>1, <1>2 DEF SortTypeOK, Steps, GoOn
<1>4. /\ sort'.order = sort.order /\ sort'.n = sort.n /\ sort'.given = sort.given /\ sort'.a = b
      /\ sort'.l = sort.l /\ sort'.u = sort.u /\ sort'.todo = sort.todo /\ sort'.at = at
  BY <1>1 DEF SortTypeOK, GoOn
<1>5. Left' = Left BY <1>4 DEF Left
<1>6. Kept' BY <1>4 DEF SortInv, Kept, Suits
<1>7. Ranked' BY <1>4, <1>5 DEF Ranked, Suits
<1>8. Ranges(Left, sort.n)' BY <1>4, <1>5, WhileSorting
<1> QED BY <1>3, <1>6, <1>7, <1>8 DEF SortInv

\* The next range, once this one is in order.
LEMMA RangeDone ==
  ASSUME SortInv, Sorting, NEW b, Suits(b), sort' = Continue(b, sort.todo),
         sort.order = "rank" => \A x, y \in sort.l..sort.u : x < y => b[x] <= b[y]
  PROVE  SortInv'
<1>1. /\ SortTypeOK /\ Kept /\ sort.n \in Nat /\ sort.todo \in Lists /\ Ranges(sort.todo, sort.n)
      /\ sort.l \in Int /\ sort.u \in Int /\ Left = <<<<sort.l, sort.u>>>> \o sort.todo
  BY WhileSorting DEF SortInv
<1>2. b \in Array(sort.n) /\ \A x \in Nat : Times(b, x) = Times(sort.a, x) BY DEF Suits
<1>3. sort.order = "rank" =>
        b[0] = NoElement /\ b[sort.n + 1] = NoElement /\ InOrder(b, sort.n, sort.todo)
  BY <1>1, <1>2, FirstInOrder DEF Suits
<1> QED BY <1>1, <1>2, <1>3, ContinueInv

\* Elements are numbers, so an order that makes sense is the one of numbers.
LEMMA Element ==
  ASSUME SortInv, Sorting, NEW b, Suits(b), NEW k \in 0..(sort.n + 1)
  PROVE  b[k] \in Nat
BY WhileSorting DEF Suits, Array

\* What the order function answers.
LEMMA AnswerIs ==
  ASSUME NEW x \in Nat, NEW y \in Nat, NEW lt \in Answers(x, y)
  PROVE  lt \in BOOLEAN /\ (sort.order = "rank" => (lt <=> x < y))
<1>1. CASE sort.order = "rank"
  <2>1. lt = (x < y) BY <1>1 DEF Answers
  <2>2. lt \in {x < y} BY <1>1 DEF Answers
  <2>3. (x < y) \in BOOLEAN OBVIOUS
  <2>4. (x < y) <=> (x < y) = TRUE OBVIOUS
  <2> QED BY <2>1, <2>3, <2>4
<1>2. CASE sort.order # "rank" BY <1>2 DEF Answers
<1> QED BY <1>1, <1>2

\* The first comparison, of the ends.
LEMMA EndsInv ==
  ASSUME SortInv, SortEnds
  PROVE  SortInv'
<1>1. sort.at = "ends" /\ Sorting /\ SortTypeOK BY DEF SortEnds, Sorting, SortInv
<1>2. /\ sort.n \in Nat /\ sort.l \in Int /\ sort.u \in Int /\ sort.i \in Int /\ sort.j \in Int
      /\ 1 <= sort.l /\ sort.l < sort.u /\ sort.u <= sort.n /\ Suits(sort.a)
  BY <1>1, WhileSorting
<1>3. PICK lt \in Answers(sort.a[sort.u], sort.a[sort.l]) :
        sort' = IF sort.u - sort.l = 1
                THEN Continue(IF lt THEN Swap(sort.a, sort.l, sort.u) ELSE sort.a, sort.todo)
                ELSE [sort EXCEPT !.a = IF lt THEN Swap(sort.a, sort.l, sort.u) ELSE sort.a,
                                  !.i = (sort.l + sort.u) \div 2, !.at = "middle"]
  BY DEF SortEnds
<1> DEFINE l == sort.l
           u == sort.u
           b == IF lt THEN Swap(sort.a, l, u) ELSE sort.a
<1>4. l \in l..u /\ u \in l..u /\ l \in 0..(sort.n + 1) /\ u \in 0..(sort.n + 1) BY <1>2
<1>5. /\ Suits(Swap(sort.a, l, u))
      /\ Swap(sort.a, l, u)[l] = sort.a[u] /\ Swap(sort.a, l, u)[u] = sort.a[l]
  <2>1. SortInv /\ Sorting /\ Suits(sort.a) /\ l \in sort.l..sort.u /\ u \in sort.l..sort.u
    BY <1>1, <1>2, <1>4
  <2> HIDE DEF l, u
  <2> QED BY <2>1, SwapSuits
<1>6. Suits(b) BY <1>2, <1>5
<1>7. sort.order = "rank" => b[l] <= b[u]
  <2>1. sort.a[l] \in Nat /\ sort.a[u] \in Nat BY <1>1, <1>2, <1>4, Element
  <2>2. lt \in BOOLEAN /\ (sort.order = "rank" => (lt <=> sort.a[u] < sort.a[l])) BY <2>1, AnswerIs
  <2>3. CASE lt BY <1>5, <2>1, <2>2, <2>3
  <2>4. CASE ~lt BY <2>1, <2>2, <2>4
  <2> QED BY <2>2, <2>3, <2>4
<1>8. CASE u - l = 1
  <2>1. sort' = Continue(b, sort.todo) BY <1>3, <1>8
  <2>2. \A x, y \in l..u : x < y => x = l /\ y = u BY <1>2, <1>8
  <2> HIDE DEF b
  <2>3. sort.order = "rank" => \A x, y \in l..u : x < y => b[x] <= b[y] BY <1>7, <2>2
  <2> QED BY <1>1, <1>6, <2>1, <2>3, RangeDone
<1>9. CASE u - l # 1
  <2> DEFINE i == (l + u) \div 2
  <2>1. i \in Int BY <1>2
  <2>2. sort' = [sort EXCEPT !.a = b, !.i = i, !.at = "middle"] BY <1>3, <1>9
  <2> HIDE DEF b
  <2>3. sort' = GoOn(b, i, sort.j, "middle") BY <1>1, <2>2 DEF SortTypeOK, GoOn
  <2>4. sort'.a = b /\ sort'.i = i /\ sort'.at = "middle" /\ sort'.l = l /\ sort'.u = u
    BY <1>1, <2>2 DEF SortTypeOK
  <2>5. Cursors' BY <1>2, <1>9, <2>4 DEF Cursors
  <2>6. sort.order = "rank" => Compared' BY <1>7, <2>4 DEF Compared
  <2> QED BY <1>1, <1>2, <1>6, <2>1, <2>3, <2>5, <2>6, SameRange
<1> QED BY <1>8, <1>9

\* Once the median of three is in place.
LEMMA PivotInv ==
  ASSUME SortInv, sort.at \in {"middle", "top"}, NEW b, Suits(b), sort' = Pivot(b),
         sort.order = "rank" => b[sort.l] <= b[sort.i] /\ b[sort.i] <= b[sort.u]
  PROVE  SortInv'
<1> DEFINE l == sort.l
           u == sort.u
           m == sort.i
<1>1. Sorting /\ SortTypeOK BY DEF Sorting, SortInv
<1>2. /\ sort.n \in Nat /\ l \in Int /\ u \in Int /\ m \in Int
      /\ 1 <= l /\ l < u /\ u <= sort.n /\ Cursors
  BY <1>1, WhileSorting
<1>3. l + 2 <= u /\ m = (l + u) \div 2 BY <1>2 DEF Cursors
<1>4. l < m /\ m < u
  <2> HIDE DEF l, u, m
  <2> QED BY <1>2, <1>3
<1>5. /\ l \in l..u /\ u \in l..u /\ m \in l..u /\ u - 1 \in l..u
      /\ l \in 0..(sort.n + 1) /\ u \in 0..(sort.n + 1) /\ m \in 0..(sort.n + 1) /\ u - 1 \in 0..(sort.n + 1)
  BY <1>2, <1>4
<1>6. b[l] \in Nat /\ b[u] \in Nat /\ b[m] \in Nat BY <1>1, <1>5, Element
<1>7. CASE u - l = 2
  <2>1. sort' = Continue(b, sort.todo) BY <1>7 DEF Pivot
  <2>2. m = l + 1 /\ \A x, y \in l..u : x < y => (x = l \/ x = m) /\ (y = m \/ y = u)
    BY <1>2, <1>4, <1>7
  <2>3. sort.order = "rank" => b[l] <= b[m] /\ b[m] <= b[u] OBVIOUS
  <2> HIDE DEF l, u, m
  <2>4. sort.order = "rank" => \A x, y \in l..u : x < y => b[x] <= b[y]
    <3> SUFFICES ASSUME sort.order = "rank", NEW x \in l..u, NEW y \in l..u, x < y
                 PROVE  b[x] <= b[y]
      OBVIOUS
    <3>1. (x = l \/ x = m) /\ (y = m \/ y = u) BY <2>2
    <3>2. CASE x = l /\ y = m BY <2>3, <3>2
    <3>3. CASE x = l /\ y = u BY <1>6, <2>3, <3>3
    <3>4. CASE x = m /\ y = u BY <2>3, <3>4
    <3>5. ~(x = m /\ y = m) BY <1>2
    <3> QED BY <3>1, <3>2, <3>3, <3>4, <3>5
  <2> QED BY <1>1, <2>1, <2>4, RangeDone DEF l, u
<1>8. CASE u - l # 2
  <2> PICK p \in Int, i \in Int : p = u - 1 /\ i = l + 1 BY <1>2
  <2> DEFINE c == Swap(b, m, p)
  <2>1. p \in l..u /\ p \in 0..(sort.n + 1) /\ l < p /\ p < u BY <1>2, <1>3, <1>8
  <2>2. /\ Suits(c) /\ c[p] = b[m]
        /\ \A k \in 0..(sort.n + 1) : k # m /\ k # p => c[k] = b[k]
    <3>1. SortInv /\ Sorting /\ Suits(b) /\ m \in sort.l..sort.u /\ p \in sort.l..sort.u
      BY <1>1, <1>5, <2>1
    <3> HIDE DEF m
    <3> QED BY <3>1, SwapSuits
  <2>3. sort' = GoOn(c, i, p, "up") BY <1>8 DEF Pivot, GoOn
  <2> HIDE DEF c
  <2>4. sort'.a = c /\ sort'.i = i /\ sort'.j = p /\ sort'.at = "up" /\ sort'.l = l /\ sort'.u = u
    BY <1>1, <2>3 DEF SortTypeOK, GoOn
  <2>5. l + 3 <= u BY <1>2, <1>3, <1>8
  <2>6. Cursors' BY <1>2, <2>4, <2>5 DEF Cursors
  <2>7. c[p] = b[m] /\ c[l] = b[l] /\ c[u] = b[u] BY <1>2, <1>4, <1>5, <2>1, <2>2
  <2>8. sort.order = "rank" => Compared'
    <3> SUFFICES ASSUME sort.order = "rank" PROVE Compared' OBVIOUS
    <3>1. b[l] <= b[m] /\ b[m] <= b[u] OBVIOUS
    <3>2. \A k \in l..(i - 1) : k = l BY <1>2
    <3>3. \A k \in p..u : k = p \/ k = u BY <1>2
    <3>4. i <= u - 1 /\ p = u - 1 BY <1>2, <2>5
    <3> HIDE DEF l, u, m
    <3>5. \A k \in l..(i - 1) : c[k] <= c[p] BY <2>7, <3>1, <3>2
    <3>6. \A k \in p..u : c[p] <= c[k] BY <1>6, <2>7, <3>1, <3>3
    <3> QED BY <2>4, <3>4, <3>5, <3>6 DEF Compared
  <2>9. "up" \in {"middle", "top", "up", "down"} /\ SortInv /\ Sorting /\ Suits(c) BY <1>1, <2>2
  <2> QED BY <2>3, <2>6, <2>8, <2>9, SameRange
<1> QED BY <1>7, <1>8

\* The second comparison, of the middle one and the first.
LEMMA MiddleInv ==
  ASSUME SortInv, SortMiddle
  PROVE  SortInv'
<1> DEFINE l == sort.l
           u == sort.u
           m == sort.i
<1>1. sort.at = "middle" /\ Sorting /\ SortTypeOK BY DEF SortMiddle, Sorting, SortInv
<1>2. /\ sort.n \in Nat /\ l \in Int /\ u \in Int /\ m \in Int /\ sort.j \in Int
      /\ 1 <= l /\ l < u /\ u <= sort.n /\ Cursors /\ Suits(sort.a)
      /\ sort.order = "rank" => Compared
  BY <1>1, WhileSorting
<1>3. l + 2 <= u /\ m = (l + u) \div 2 BY <1>1, <1>2 DEF Cursors
<1>4. l < m /\ m < u
  <2> HIDE DEF l, u, m
  <2> QED BY <1>2, <1>3
<1>5. /\ l \in l..u /\ m \in l..u
      /\ l \in 0..(sort.n + 1) /\ u \in 0..(sort.n + 1) /\ m \in 0..(sort.n + 1)
  BY <1>2, <1>4
<1>6. sort.a[l] \in Nat /\ sort.a[u] \in Nat /\ sort.a[m] \in Nat BY <1>1, <1>2, <1>5, Element
<1>7. sort.order = "rank" => sort.a[l] <= sort.a[u] BY <1>1, <1>2 DEF Compared
<1>8. PICK lt \in Answers(sort.a[m], sort.a[l]) :
        sort' = IF lt THEN Pivot(Swap(sort.a, m, l)) ELSE [sort EXCEPT !.at = "top"]
  BY DEF SortMiddle
<1>9. lt \in BOOLEAN /\ (sort.order = "rank" => (lt <=> sort.a[m] < sort.a[l])) BY <1>6, AnswerIs
<1>10. CASE lt
  <2> DEFINE b == Swap(sort.a, m, l)
  <2>1. Suits(b) /\ b[m] = sort.a[l] /\ b[l] = sort.a[m]
        /\ \A k \in 0..(sort.n + 1) : k # m /\ k # l => b[k] = sort.a[k]
    <3>1. SortInv /\ Sorting /\ Suits(sort.a) /\ m \in sort.l..sort.u /\ l \in sort.l..sort.u
      BY <1>1, <1>2, <1>5
    <3> HIDE DEF l, m
    <3> QED BY <3>1, SwapSuits
  <2>2. b[l] = sort.a[m] /\ b[m] = sort.a[l] /\ b[u] = sort.a[u] BY <1>2, <1>4, <1>5, <2>1
  <2> HIDE DEF b
  <2>3. sort.order = "rank" => b[l] <= b[m] /\ b[m] <= b[u]
    BY <1>6, <1>7, <1>9, <1>10, <2>2
  <2>4. sort' = Pivot(b) BY <1>8, <1>10 DEF b
  <2> QED BY <1>1, <2>1, <2>3, <2>4, PivotInv
<1>11. CASE ~lt
  <2>1. sort' = GoOn(sort.a, sort.i, sort.j, "top") BY <1>1, <1>8, <1>11 DEF SortTypeOK, GoOn
  <2>2. sort'.a = sort.a /\ sort'.i = m /\ sort'.at = "top" /\ sort'.l = l /\ sort'.u = u
    BY <1>1, <2>1 DEF SortTypeOK, GoOn
  <2>3. Cursors' BY <1>2, <1>3, <2>2 DEF Cursors
  <2>4. sort.order = "rank" => Compared' BY <1>6, <1>7, <1>9, <1>11, <2>2 DEF Compared
  <2> QED BY <1>1, <1>2, <2>1, <2>3, <2>4, SameRange
<1> QED BY <1>9, <1>10, <1>11

\* The third comparison, of the last one and the middle one.
LEMMA TopInv ==
  ASSUME SortInv, SortTop
  PROVE  SortInv'
<1> DEFINE l == sort.l
           u == sort.u
           m == sort.i
<1>1. sort.at = "top" /\ Sorting BY DEF SortTop, Sorting
<1>2. /\ sort.n \in Nat /\ l \in Int /\ u \in Int /\ m \in Int
      /\ 1 <= l /\ l < u /\ u <= sort.n /\ Cursors /\ Suits(sort.a)
      /\ sort.order = "rank" => Compared
  BY <1>1, WhileSorting
<1>3. l + 2 <= u /\ m = (l + u) \div 2 BY <1>1, <1>2 DEF Cursors
<1>4. l < m /\ m < u
  <2> HIDE DEF l, u, m
  <2> QED BY <1>2, <1>3
<1>5. /\ u \in l..u /\ m \in l..u
      /\ l \in 0..(sort.n + 1) /\ u \in 0..(sort.n + 1) /\ m \in 0..(sort.n + 1)
  BY <1>2, <1>4
<1>6. sort.a[l] \in Nat /\ sort.a[u] \in Nat /\ sort.a[m] \in Nat BY <1>1, <1>2, <1>5, Element
<1>7. sort.order = "rank" => sort.a[l] <= sort.a[u] /\ sort.a[l] <= sort.a[m] BY <1>1, <1>2 DEF Compared
<1>8. PICK lt \in Answers(sort.a[u], sort.a[m]) :
        sort' = Pivot(IF lt THEN Swap(sort.a, m, u) ELSE sort.a)
  BY DEF SortTop
<1>9. lt \in BOOLEAN /\ (sort.order = "rank" => (lt <=> sort.a[u] < sort.a[m])) BY <1>6, AnswerIs
<1> DEFINE b == IF lt THEN Swap(sort.a, m, u) ELSE sort.a
<1>10. /\ Suits(Swap(sort.a, m, u))
       /\ Swap(sort.a, m, u)[m] = sort.a[u] /\ Swap(sort.a, m, u)[u] = sort.a[m]
       /\ \A k \in 0..(sort.n + 1) : k # m /\ k # u => Swap(sort.a, m, u)[k] = sort.a[k]
  <2>1. SortInv /\ Sorting /\ Suits(sort.a) /\ m \in sort.l..sort.u /\ u \in sort.l..sort.u
    BY <1>1, <1>2, <1>5
  <2> HIDE DEF u, m
  <2> QED BY <2>1, SwapSuits
<1>11. /\ Swap(sort.a, m, u)[l] = sort.a[l] /\ Swap(sort.a, m, u)[m] = sort.a[u]
       /\ Swap(sort.a, m, u)[u] = sort.a[m]
  BY <1>2, <1>4, <1>5, <1>10
<1>12. Suits(b) BY <1>2, <1>10
<1>13. sort.order = "rank" => b[l] <= b[m] /\ b[m] <= b[u]
  <2>1. CASE lt BY <1>6, <1>7, <1>9, <1>11, <2>1
  <2>2. CASE ~lt BY <1>6, <1>7, <1>9, <2>2
  <2> QED BY <1>9, <2>1, <2>2
<1> HIDE DEF b
<1> QED BY <1>1, <1>8, <1>12, <1>13, PivotInv DEF b

\* An order function that makes no sense, or fails, ends the sort.
LEMMA RaisedInv ==
  ASSUME SortInv, Sorting, sort.order = "any", sort' = [sort EXCEPT !.at = "raised"]
  PROVE  SortInv'
<1>1. SortTypeOK /\ Kept BY DEF SortInv
<1>2. SortTypeOK' BY <1>1 DEF SortTypeOK, Steps
<1>3. /\ sort'.a = sort.a /\ sort'.given = sort.given /\ sort'.order = "any" /\ sort'.at = "raised"
  BY <1>1 DEF SortTypeOK
<1> QED BY <1>1, <1>2, <1>3 DEF SortInv, Kept, Ranked, Sorting

\* The loop that moves i up.
LEMMA UpInv ==
  ASSUME SortInv, SortUp
  PROVE  SortInv'
<1> DEFINE l == sort.l
           u == sort.u
           i == sort.i
           j == sort.j
           a == sort.a
<1>1. sort.at = "up" /\ Sorting /\ SortTypeOK BY DEF SortUp, Sorting, SortInv
<1>2. /\ sort.n \in Nat /\ l \in Int /\ u \in Int /\ i \in Int /\ j \in Int
      /\ 1 <= l /\ l < u /\ u <= sort.n /\ Cursors /\ Suits(a)
      /\ sort.order \in {"rank", "any"} /\ (sort.order = "rank" => Compared)
  BY <1>1, WhileSorting
<1>3. l + 3 <= u /\ l + 1 <= i /\ i <= u + 1 /\ l + 1 <= j /\ j <= u - 1 BY <1>1, <1>2 DEF Cursors
<1>4. i \in 0..(sort.n + 1) /\ u - 1 \in 0..(sort.n + 1) BY <1>2, <1>3
<1>5. a[i] \in Nat /\ a[u - 1] \in Nat BY <1>1, <1>2, <1>4, Element
<1>6. sort.order = "rank" =>
        /\ i <= u - 1
        /\ \A k \in l..(i - 1) : a[k] <= a[u - 1]
        /\ \A k \in j..u : a[u - 1] <= a[k]
  BY <1>1, <1>2 DEF Compared
<1>7. PICK lt \in Answers(a[i], a[u - 1]) :
        sort' = IF ~lt THEN [sort EXCEPT !.j = @ - 1, !.at = "down"]
                ELSE IF i > u THEN [sort EXCEPT !.at = "raised"]
                ELSE [sort EXCEPT !.i = @ + 1]
  BY DEF SortUp
<1>8. lt \in BOOLEAN /\ (sort.order = "rank" => (lt <=> a[i] < a[u - 1])) BY <1>5, AnswerIs
<1>9. CASE ~lt
  <2>1. sort' = GoOn(a, i, j - 1, "down") BY <1>1, <1>7, <1>9 DEF SortTypeOK, GoOn
  <2>2. sort'.a = a /\ sort'.i = i /\ sort'.j = j - 1 /\ sort'.at = "down" /\ sort'.l = l /\ sort'.u = u
    BY <1>1, <2>1 DEF SortTypeOK, GoOn
  <2> HIDE DEF l, u, i, j, a
  <2>3. Cursors' BY <1>2, <1>3, <2>2 DEF Cursors
  <2>4. sort.order = "rank" => Compared'
    <3> SUFFICES ASSUME sort.order = "rank" PROVE Compared' OBVIOUS
    <3>1. a[u - 1] <= a[i] BY <1>5, <1>8, <1>9
    <3>2. \A k \in ((j - 1) + 1)..u : a[u - 1] <= a[k] BY <1>2, <1>6
    <3>3. l <= j - 1 BY <1>2, <1>3
    <3> QED BY <1>6, <2>2, <3>1, <3>2, <3>3 DEF Compared
  <2>5. SortInv /\ Sorting /\ Suits(a) /\ i \in Int /\ j - 1 \in Int /\ "down" \in {"middle", "top", "up", "down"}
    BY <1>1, <1>2
  <2> QED BY <2>1, <2>3, <2>4, <2>5, SameRange
<1>10. CASE lt /\ i > u
  <2>1. sort.order = "any" BY <1>2, <1>6, <1>10
  <2>2. sort' = [sort EXCEPT !.at = "raised"] BY <1>7, <1>10
  <2> QED BY <1>1, <2>1, <2>2, RaisedInv
<1>11. CASE lt /\ ~(i > u)
  <2>1. sort' = GoOn(a, i + 1, j, "up") BY <1>1, <1>7, <1>11 DEF SortTypeOK, GoOn
  <2>2. sort'.a = a /\ sort'.i = i + 1 /\ sort'.j = j /\ sort'.at = "up" /\ sort'.l = l /\ sort'.u = u
    BY <1>1, <2>1 DEF SortTypeOK, GoOn
  <2> HIDE DEF l, u, i, j, a
  <2>3. Cursors' BY <1>2, <1>3, <1>11, <2>2 DEF Cursors
  <2>4. sort.order = "rank" => Compared'
    <3> SUFFICES ASSUME sort.order = "rank" PROVE Compared' OBVIOUS
    <3>1. a[i] < a[u - 1] BY <1>8, <1>11
    <3>2. i # u - 1 BY <1>5, <3>1
    <3>3. i + 1 <= u - 1 BY <1>2, <1>6, <3>2
    <3>4. \A k \in l..((i + 1) - 1) : a[k] <= a[u - 1]
      <4> SUFFICES ASSUME NEW k \in l..((i + 1) - 1) PROVE a[k] <= a[u - 1] OBVIOUS
      <4>1. CASE k = i BY <1>5, <3>1, <4>1
      <4>2. CASE k # i
        <5>1. k \in l..(i - 1) BY <1>2, <4>2
        <5> QED BY <1>6, <5>1
      <4> QED BY <4>1, <4>2
    <3> QED BY <1>6, <2>2, <3>3, <3>4 DEF Compared
  <2>5. SortInv /\ Sorting /\ Suits(a) /\ i + 1 \in Int /\ j \in Int /\ "up" \in {"middle", "top", "up", "down"}
    BY <1>1, <1>2
  <2> QED BY <2>1, <2>3, <2>4, <2>5, SameRange
<1> QED BY <1>8, <1>9, <1>10, <1>11

\* What the pivot leaves on both sides.
LEMMA SplitInv ==
  ASSUME SortInv, sort.at = "down", sort.j < sort.i, NEW b, Suits(b),
         sort' = Continue(b, Split(sort.l, sort.u, sort.i) \o sort.todo),
         sort.order = "rank" =>
           /\ sort.i <= sort.u
           /\ \A k \in sort.l..(sort.i - 1) : b[k] <= b[sort.i]
           /\ \A k \in (sort.i + 1)..sort.u : b[sort.i] <= b[k]
  PROVE  SortInv'
<1> DEFINE l == sort.l
           u == sort.u
           i == sort.i
<1>1. Sorting BY DEF Sorting
<1>2. /\ sort.n \in Nat /\ l \in Int /\ u \in Int /\ i \in Int
      /\ 1 <= l /\ l < u /\ u <= sort.n /\ Cursors /\ sort.todo \in Lists
      /\ Ranges(Left, sort.n) /\ Left = <<<<l, u>>>> \o sort.todo
  BY <1>1, WhileSorting
<1>3. l + 1 <= i /\ i <= u + 1 BY <1>2 DEF Cursors
<1> DEFINE r == IF i - l < u - i THEN <<l, i - 1>> ELSE <<i + 1, u>>
           q == IF i - l < u - i THEN <<i + 1, u>> ELSE <<l, i - 1>>
           left == <<r, q>> \o sort.todo
<1>4. Split(l, u, i) = <<r, q>> BY DEF Split
<1>5. sort' = Continue(b, left) BY <1>4
<1> HIDE DEF l, u, i
<1>6. r \in Int \X Int /\ q \in Int \X Int /\ {r, q} = {<<l, i - 1>>, <<i + 1, u>>} BY <1>2
<1>7. /\ l <= r[1] /\ r[2] <= u /\ l <= q[1] /\ q[2] <= u /\ (r[2] < q[1] \/ q[2] < r[1])
  BY <1>2, <1>3
<1>8. /\ 0 <= Size(q) /\ Size(r) <= Size(q) /\ Size(q) <= Size(<<l, u>>)
      /\ Size(r) + Size(q) <= Size(<<l, u>>)
  BY <1>2, <1>3 DEF Size
<1> HIDE DEF r, q
<1>9. Replaces(Left, left, r, q) /\ Left[1] = <<l, u>>
  <2>1. <<l, u>> \in Int \X Int BY <1>2
  <2>2. Replaces(<<<<l, u>>>> \o sort.todo, left, r, q) BY <1>2, <1>6, <2>1, Replaced
  <2> QED BY <1>1, <1>2, <2>2, WhileSorting DEF l, u
<1> HIDE DEF left
<1>10. Ranges(left, sort.n)
  <2>1. /\ sort.n \in Nat /\ l \in Int /\ u \in Int /\ l < u
        /\ r \in Int \X Int /\ q \in Int \X Int
        /\ Replaces(Left, left, r, q) /\ Left[1] = <<l, u>> /\ Ranges(Left, sort.n)
        /\ l <= r[1] /\ r[2] <= u /\ l <= q[1] /\ q[2] <= u /\ (r[2] < q[1] \/ q[2] < r[1])
        /\ 0 <= Size(q) /\ Size(r) <= Size(q) /\ Size(q) <= Size(<<l, u>>)
        /\ Size(r) + Size(q) <= Size(<<l, u>>)
    BY <1>2, <1>6, <1>7, <1>8, <1>9
  <2> QED BY <2>1, Parted
<1>11. left \in Lists BY <1>9 DEF Replaces
<1>12. ASSUME sort.order = "rank"
       PROVE  b[0] = NoElement /\ b[sort.n + 1] = NoElement /\ InOrder(b, sort.n, left)
  <2>1. /\ b[0] = NoElement /\ b[sort.n + 1] = NoElement
        /\ InOrder(b, sort.n, Left) /\ b \in Array(sort.n)
    BY <1>12 DEF Suits
  <2>2. /\ i <= u
        /\ \A k \in l..(i - 1) : b[k] <= b[i]
        /\ \A k \in (i + 1)..u : b[i] <= b[k]
    BY <1>12 DEF l, u, i
  <2>3. i \in l..u BY <1>2, <1>3, <2>2
  <2>4. InOrder(b, sort.n, left)
    <3>1. /\ sort.n \in Nat /\ b \in Array(sort.n) /\ l \in Int /\ u \in Int
          /\ 1 <= l /\ u <= sort.n /\ i \in l..u
          /\ (\A k \in l..(i - 1) : b[k] <= b[i])
          /\ (\A k \in (i + 1)..u : b[i] <= b[k])
          /\ r \in Int \X Int /\ q \in Int \X Int
          /\ {r, q} = {<<l, i - 1>>, <<i + 1, u>>}
          /\ Replaces(Left, left, r, q) /\ Left[1] = <<l, u>> /\ InOrder(b, sort.n, Left)
      BY <1>2, <1>6, <1>9, <2>1, <2>2, <2>3
    <3> QED BY <3>1, PartsInOrder
  <2> QED BY <2>1, <2>4
<1>13. SortTypeOK /\ Kept /\ b \in Array(sort.n) /\ \A x \in Nat : Times(b, x) = Times(sort.a, x)
  BY DEF SortInv, Suits
<1>14. sort' = Continue(b, left) BY <1>5 DEF left
<1> QED BY <1>14, <1>10, <1>11, <1>12, <1>13, ContinueInv

\* The loop that moves j down, and what follows it.
LEMMA DownInv ==
  ASSUME SortInv, SortDown
  PROVE  SortInv'
<1> DEFINE l == sort.l
           u == sort.u
           i == sort.i
           j == sort.j
           a == sort.a
<1>1. sort.at = "down" /\ Sorting /\ SortTypeOK BY DEF SortDown, Sorting, SortInv
<1>2. /\ sort.n \in Nat /\ l \in Int /\ u \in Int /\ i \in Int /\ j \in Int
      /\ 1 <= l /\ l < u /\ u <= sort.n /\ Cursors /\ Suits(a)
      /\ sort.order \in {"rank", "any"} /\ (sort.order = "rank" => Compared)
  BY <1>1, WhileSorting
<1>3. l + 3 <= u /\ l + 1 <= i /\ i <= u + 1 /\ l - 1 <= j /\ j <= u - 2 BY <1>1, <1>2 DEF Cursors
<1>4. i \in 0..(sort.n + 1) /\ j \in 0..(sort.n + 1) /\ u - 1 \in 0..(sort.n + 1) BY <1>2, <1>3
<1>5. a[i] \in Nat /\ a[j] \in Nat /\ a[u - 1] \in Nat /\ \A k \in l..u : a[k] \in Nat
  <2>1. \A k \in 0..(sort.n + 1) : a[k] \in Nat BY <1>1, <1>2, Element
  <2>2. \A k \in l..u : k \in 0..(sort.n + 1) BY <1>2
  <2> HIDE DEF a
  <2> QED BY <1>4, <2>1, <2>2
<1>6. sort.order = "rank" =>
        /\ i <= u - 1 /\ l <= j
        /\ a[u - 1] <= a[i]
        /\ \A k \in l..(i - 1) : a[k] <= a[u - 1]
        /\ \A k \in (j + 1)..u : a[u - 1] <= a[k]
  BY <1>1, <1>2 DEF Compared
<1>7. PICK lt \in Answers(a[u - 1], a[j]) :
        sort' = IF ~lt
                THEN IF j < i
                     THEN Continue(Swap(a, u - 1, i), Split(l, u, i) \o sort.todo)
                     ELSE [sort EXCEPT !.a = Swap(@, i, j), !.i = @ + 1, !.at = "up"]
                ELSE IF j < l THEN [sort EXCEPT !.at = "raised"]
                ELSE [sort EXCEPT !.j = @ - 1]
  BY DEF SortDown
<1>8. lt \in BOOLEAN /\ (sort.order = "rank" => (lt <=> a[u - 1] < a[j])) BY <1>5, AnswerIs
<1>9. CASE ~lt /\ j < i
  <2> DEFINE b == Swap(a, u - 1, i)
  <2>1. sort' = Continue(b, Split(l, u, i) \o sort.todo) BY <1>7, <1>9
  <2>2. u - 1 \in l..u BY <1>2
  <2>3. i <= u => /\ Suits(b) /\ b[u - 1] = a[i] /\ b[i] = a[u - 1]
                  /\ \A k \in 0..(sort.n + 1) : k # u - 1 /\ k # i => b[k] = a[k]
    <3> SUFFICES ASSUME i <= u
                 PROVE  /\ Suits(b) /\ b[u - 1] = a[i] /\ b[i] = a[u - 1]
                        /\ \A k \in 0..(sort.n + 1) : k # u - 1 /\ k # i => b[k] = a[k]
      OBVIOUS
    <3>1. SortInv /\ Sorting /\ Suits(a) /\ u - 1 \in sort.l..sort.u /\ i \in sort.l..sort.u
      BY <1>1, <1>2, <1>3
    <3> HIDE DEF i, a
    <3> QED BY <3>1, SwapSuits
  <2>4. sort.order = "any" => Suits(b) BY <1>1, <1>4, AnySuits
  <2> HIDE DEF b
  <2>5. Suits(b) BY <1>2, <1>6, <2>3, <2>4
  <2>6. ASSUME sort.order = "rank"
        PROVE  /\ i <= u
               /\ \A k \in l..(i - 1) : b[k] <= b[i]
               /\ \A k \in (i + 1)..u : b[i] <= b[k]
    <3>1. i <= u /\ i <= u - 1 BY <1>2, <1>6, <2>6
    <3>2. ASSUME NEW k \in l..(i - 1) PROVE b[k] <= b[i]
      <4>1. k \in 0..(sort.n + 1) /\ k # u - 1 /\ k # i BY <1>2, <3>1
      <4>2. b[k] = a[k] /\ b[i] = a[u - 1] BY <2>3, <3>1, <4>1
      <4> QED BY <1>6, <2>6, <4>2
    <3>3. ASSUME NEW k \in (i + 1)..u PROVE b[i] <= b[k]
      <4>1. k \in 0..(sort.n + 1) /\ k # i /\ k \in (j + 1)..u BY <1>2, <1>3, <1>9
      <4>2. CASE k = u - 1 BY <1>6, <2>3, <2>6, <3>1, <4>2
      <4>3. CASE k # u - 1
        <5>1. b[k] = a[k] /\ b[i] = a[u - 1] BY <2>3, <3>1, <4>1, <4>3
        <5> QED BY <1>6, <2>6, <4>1, <5>1
      <4> QED BY <4>2, <4>3
    <3> QED BY <3>1, <3>2, <3>3
  <2> QED BY <1>1, <1>9, <2>1, <2>5, <2>6, SplitInv
<1>10. CASE ~lt /\ ~(j < i)
  <2> DEFINE b == Swap(a, i, j)
  <2>1. sort' = GoOn(b, i + 1, j, "up") BY <1>1, <1>7, <1>10 DEF SortTypeOK, GoOn
  <2>2. sort'.a = b /\ sort'.i = i + 1 /\ sort'.j = j /\ sort'.at = "up" /\ sort'.l = l /\ sort'.u = u
    BY <1>1, <2>1 DEF SortTypeOK, GoOn
  <2>3. i \in l..u /\ j \in l..u /\ i + 1 <= u - 1 /\ i < u - 1 /\ j < u - 1 BY <1>2, <1>3, <1>10
  <2>4. /\ Suits(b) /\ b[i] = a[j] /\ b[j] = a[i]
        /\ \A k \in 0..(sort.n + 1) : k # i /\ k # j => b[k] = a[k]
    <3>1. SortInv /\ Sorting /\ Suits(a) /\ i \in sort.l..sort.u /\ j \in sort.l..sort.u
      BY <1>1, <1>2, <2>3
    <3> HIDE DEF i, j, a
    <3> QED BY <3>1, SwapSuits
  <2> HIDE DEF b, l, u, i, j, a
  <2>5. Cursors' BY <1>2, <1>3, <1>10, <2>2, <2>3 DEF Cursors
  <2>6. sort.order = "rank" => Compared'
    <3> SUFFICES ASSUME sort.order = "rank" PROVE Compared' OBVIOUS
    <3>1. a[j] <= a[u - 1] BY <1>5, <1>8, <1>10
    <3>2. b[u - 1] = a[u - 1] BY <1>2, <1>4, <2>3, <2>4
    <3>3. \A k \in l..((i + 1) - 1) : b[k] <= b[u - 1]
      <4> SUFFICES ASSUME NEW k \in l..((i + 1) - 1) PROVE b[k] <= b[u - 1] OBVIOUS
      <4>1. CASE k = i BY <2>4, <3>1, <3>2, <4>1
      <4>2. CASE k # i
        <5>1. k \in l..(i - 1) /\ k \in 0..(sort.n + 1) /\ k # j BY <1>2, <1>10, <2>3, <4>2
        <5>2. b[k] = a[k] BY <2>4, <4>2, <5>1
        <5> QED BY <1>6, <3>2, <5>1, <5>2
      <4> QED BY <4>1, <4>2
    <3>4. \A k \in j..u : b[u - 1] <= b[k]
      <4> SUFFICES ASSUME NEW k \in j..u PROVE b[u - 1] <= b[k] OBVIOUS
      <4>1. CASE k = j BY <1>6, <2>4, <3>2, <4>1
      <4>2. CASE k # j
        <5>1. k \in (j + 1)..u /\ k \in 0..(sort.n + 1) /\ k # i BY <1>2, <1>10, <2>3, <4>2
        <5>2. b[k] = a[k] BY <2>4, <4>2, <5>1
        <5> QED BY <1>6, <3>2, <5>1, <5>2
      <4> QED BY <4>1, <4>2
    <3> QED BY <2>2, <2>3, <3>3, <3>4 DEF Compared
  <2>7. SortInv /\ Sorting /\ Suits(b) /\ i + 1 \in Int /\ j \in Int /\ "up" \in {"middle", "top", "up", "down"}
    BY <1>1, <1>2, <2>4
  <2> QED BY <2>1, <2>5, <2>6, <2>7, SameRange
<1>11. CASE lt /\ j < l
  <2>1. sort.order = "any" BY <1>2, <1>6, <1>11
  <2>2. sort' = [sort EXCEPT !.at = "raised"] BY <1>7, <1>11
  <2> QED BY <1>1, <2>1, <2>2, RaisedInv
<1>12. CASE lt /\ ~(j < l)
  <2>1. sort' = GoOn(a, i, j - 1, "down") BY <1>1, <1>7, <1>12 DEF SortTypeOK, GoOn
  <2>2. sort'.a = a /\ sort'.i = i /\ sort'.j = j - 1 /\ sort'.at = "down" /\ sort'.l = l /\ sort'.u = u
    BY <1>1, <2>1 DEF SortTypeOK, GoOn
  <2> HIDE DEF l, u, i, j, a
  <2>3. Cursors' BY <1>2, <1>3, <1>12, <2>2 DEF Cursors
  <2>4. sort.order = "rank" => Compared'
    <3> SUFFICES ASSUME sort.order = "rank" PROVE Compared' OBVIOUS
    <3>1. a[u - 1] < a[j] BY <1>8, <1>12
    <3>2. j # l
      <4> SUFFICES ASSUME j = l PROVE FALSE OBVIOUS
      <4>1. l \in l..(i - 1) BY <1>2, <1>3
      <4>2. a[l] <= a[u - 1] BY <1>6, <4>1
      <4> QED BY <1>5, <3>1, <4>2
    <3>3. l <= j - 1 BY <1>2, <1>12, <3>2
    <3>4. \A k \in ((j - 1) + 1)..u : a[u - 1] <= a[k]
      <4> SUFFICES ASSUME NEW k \in ((j - 1) + 1)..u PROVE a[u - 1] <= a[k] OBVIOUS
      <4>1. CASE k = j BY <1>5, <3>1, <4>1
      <4>2. CASE k # j
        <5>1. k \in (j + 1)..u BY <1>2, <4>2
        <5> QED BY <1>6, <5>1
      <4> QED BY <4>1, <4>2
    <3> QED BY <1>6, <2>2, <3>3, <3>4 DEF Compared
  <2>5. SortInv /\ Sorting /\ Suits(a) /\ i \in Int /\ j - 1 \in Int /\ "down" \in {"middle", "top", "up", "down"}
    BY <1>1, <1>2
  <2> QED BY <2>1, <2>3, <2>4, <2>5, SameRange
<1> QED BY <1>8, <1>9, <1>10, <1>11, <1>12

\* The invariant holds when the sort begins.
LEMMA SortInitInv == SortInit => SortInv
<1> SUFFICES ASSUME SortInit PROVE SortInv OBVIOUS
<1>1. PICK order \in {"rank", "any"}, elements \in Seq(Nat \ {NoElement}) : sort = Begin(order, elements)
  BY DEF SortInit
<1> DEFINE n == Len(elements)
           a == [i \in 0..(n + 1) |-> IF i \in 1..n THEN elements[i] ELSE NoElement]
<1>2. n \in Nat /\ \A i \in 1..n : elements[i] \in Nat OBVIOUS
<1>3. a \in Array(n) /\ a[0] = NoElement /\ a[n + 1] = NoElement
  BY <1>2 DEF Array, NoElement
<1>4. sort = [order |-> order, n |-> n, given |-> a, a |-> a, l |-> 1, u |-> n, i |-> 0, j |-> 0,
              todo |-> <<>>, at |-> IF n < 2 THEN "done" ELSE "ends"]
  BY <1>1 DEF Begin
<1> HIDE DEF n, a
<1>5. <<>> \in Lists BY DEF Lists
<1>6. a \in Arrays BY <1>2, <1>3 DEF Arrays
<1>7. SortTypeOK BY <1>2, <1>3, <1>4, <1>5, <1>6 DEF SortTypeOK, Steps
<1>8. Kept BY <1>4 DEF Kept
<1>9. CASE n < 2
  <2>1. InOrder(a, n, <<>>) BY <1>2, <1>9 DEF InOrder
  <2> QED BY <1>3, <1>4, <1>7, <1>8, <1>9, <2>1 DEF SortInv, Ranked, Sorting
<1>10. CASE ~(n < 2)
  <2>1. Left = <<<<1, n>>>> \o <<>> BY <1>4 DEF Left
  <2>2. Left \in Lists /\ DOMAIN Left = {1} /\ Left[1] = <<1, n>> BY <1>2, <2>1 DEF Lists
  <2> HIDE DEF Left
  <2>3. InOrder(a, n, Left) BY <1>2, <2>2 DEF InOrder, Has
  <2>4. Nested(Left, n)
    <3> DEFINE sum == [k \in DOMAIN Left |-> n]
    <3>1. sum \in [DOMAIN Left -> Nat] BY <1>2
    <3>2. Halves(Left, n, sum) BY <1>2, <2>2 DEF Halves, Size
    <3> HIDE DEF sum
    <3> QED BY <3>1, <3>2 DEF Nested
  <2>5. Ranges(Left, n) BY <1>2, <2>2, <2>4 DEF Ranges, Inside, Apart
  <2>6. Cursors BY <1>2, <1>4, <1>10 DEF Cursors
  <2>7. Compared BY <1>4, <1>10 DEF Compared
  <2> QED BY <1>3, <1>4, <1>7, <1>8, <1>10, <2>3, <2>5, <2>6, <2>7 DEF SortInv, Ranked, Sorting
<1> QED BY <1>9, <1>10

\* Every step keeps the invariant.
LEMMA SortNextInv == SortInv /\ [SortNext]_sort => SortInv'
<1> SUFFICES ASSUME SortInv, [SortNext]_sort PROVE SortInv' OBVIOUS
<1>1. CASE SortEnds BY <1>1, EndsInv
<1>2. CASE SortMiddle BY <1>2, MiddleInv
<1>3. CASE SortTop BY <1>3, TopInv
<1>4. CASE SortUp BY <1>4, UpInv
<1>5. CASE SortDown BY <1>5, DownInv
<1>6. CASE SortRaises
  <2>1. sort.order = "any" /\ Sorting /\ sort' = [sort EXCEPT !.at = "raised"]
    BY <1>6 DEF SortRaises, Sorting
  <2> QED BY <2>1, RaisedInv
<1>7. CASE UNCHANGED sort
  BY <1>7 DEF SortInv, SortTypeOK, Kept, Ranked, Sorting, Left, Cursors, Compared
<1> QED BY <1>1, <1>2, <1>3, <1>4, <1>5, <1>6, <1>7 DEF SortNext

-----------------------------------------------------------------------------
(* The theorem.                                                            *)

\* k ranges that are left have 2^k elements at least, and no more than n.
LEMMA DepthBound ==
  ASSUME NEW n \in Nat, NEW left \in Lists, Len(left) >= 1, Nested(left, n), Size(left[1]) >= 2,
         \A k \in DOMAIN left : left[k] \in Int \X Int
  PROVE  TwoTo(Len(left)) <= n
<1>1. PICK sum \in [DOMAIN left -> Nat] : Halves(left, n, sum) BY DEF Nested
<1>2. Len(left) \in Nat /\ DOMAIN left = 1..Len(left) BY DEF Lists
<1> DEFINE T == {k \in 0..Len(left) : k = 0 \/ TwoTo(k) <= sum[k]}
<1>3. T \subseteq 0..Len(left) /\ 0 \in T BY <1>2
<1>4. ASSUME NEW k \in 1..Len(left), k - 1 \in T PROVE k \in T
  <2>1. TwoTo((k - 1) + 1) = 2 * TwoTo(k - 1) BY TwoToStep
  <2>2. (k - 1) + 1 = k /\ k \in 0..Len(left) /\ k \in DOMAIN left BY <1>2
  <2>3. CASE k = 1
    <3>1. TwoTo(k) = 2 BY <2>1, <2>2, <2>3, TwoToStep
    <3>2. 2 <= sum[k] BY <1>1, <2>2, <2>3 DEF Halves, Size
    <3> QED BY <2>2, <3>1, <3>2
  <2>4. CASE k # 1
    <3>1. TwoTo(k - 1) <= sum[k - 1] BY <1>4, <2>4
    <3>2. /\ k - 1 \in DOMAIN left /\ sum[k - 1] \in Nat /\ sum[k] \in Nat /\ Size(left[k]) \in Int
      BY <1>1, <1>2, <2>2, <2>4 DEF Size
    <3>3. sum[k - 1] <= Size(left[k]) /\ sum[k - 1] + Size(left[k]) <= sum[k]
      BY <1>1, <2>2, <2>4 DEF Halves
    <3>4. 2 * sum[k - 1] <= sum[k]
      <4> DEFINE s == sum[k - 1]
                 t == sum[k]
                 z == Size(left[k])
      <4>1. s \in Int /\ t \in Int /\ z \in Int /\ s <= z /\ s + z <= t BY <3>2, <3>3
      <4> HIDE DEF T, s, t, z
      <4>2. 2 * s <= t BY <4>1
      <4> QED BY <4>2 DEF s, t
    <3>5. TwoTo(k - 1) \in Nat
      <4>1. k - 1 \in Nat BY <1>2
      <4> QED BY <4>1, TwoToNat
    <3>6. TwoTo(k) <= sum[k]
      <4> DEFINE s == sum[k - 1]
                 t == sum[k]
                 p == TwoTo(k - 1)
      <4>1. TwoTo(k) = 2 * p BY <2>1, <2>2
      <4>2. s \in Int /\ t \in Int /\ p \in Int /\ p <= s /\ 2 * s <= t BY <3>1, <3>2, <3>4, <3>5
      <4> HIDE DEF T, s, t, p
      <4>3. 2 * p <= t BY <4>2
      <4> QED BY <4>1, <4>3 DEF t
    <3> QED BY <2>2, <3>6
  <2> QED BY <2>3, <2>4
<1> HIDE DEF T
<1>5. T = 0..Len(left) BY <1>2, <1>3, <1>4, UpTo
<1>6. Len(left) \in T /\ Len(left) # 0 /\ Len(left) \in DOMAIN left BY <1>2, <1>5
<1>7. TwoTo(Len(left)) <= sum[Len(left)] /\ sum[Len(left)] \in Nat BY <1>1, <1>6 DEF T
<1>8. sum[Len(left)] <= n BY <1>1, <1>6 DEF Halves
<1>9. TwoTo(Len(left)) \in Nat BY <1>2, TwoToNat
<1> QED BY <1>7, <1>8, <1>9

\* The invariant says that the sort does what it should.
LEMMA InvSorts == SortInv => Sorts
<1> SUFFICES ASSUME SortInv PROVE Sorts OBVIOUS
<1>1. /\ SortTypeOK /\ Kept /\ Ranked /\ sort.n \in Nat
      /\ sort.a \in [0..(sort.n + 1) -> Nat] /\ sort.given \in [0..(sort.n + 1) -> Nat]
  BY DEF SortInv, SortTypeOK, Array
<1>2. NothingLost
  <2>1. Range(sort.given) \subseteq Nat BY <1>1 DEF Range
  <2> QED BY <1>1, <2>1 DEF NothingLost, Kept
<1>3. Ascending
  <2> SUFFICES ASSUME sort.order = "rank"
               PROVE  /\ sort.at # "raised" /\ sort.a[0] = NoElement /\ sort.a[sort.n + 1] = NoElement
                      /\ sort.at = "up" => sort.i \in 1..sort.n
                      /\ sort.at = "down" => sort.j \in 1..sort.n
                      /\ sort.at = "done" => \A k \in 1..(sort.n - 1) : sort.a[k] <= sort.a[k + 1]
    BY DEF Ascending
  <2>1. sort.at # "raised" /\ sort.a[0] = NoElement /\ sort.a[sort.n + 1] = NoElement
    BY <1>1 DEF Ranked
  <2>2. CASE sort.at = "done"
    <3>1. InOrder(sort.a, sort.n, <<>>) BY <1>1, <2>2 DEF Ranked
    <3>2. \A k \in 1..(sort.n - 1) : k \in 1..sort.n /\ k + 1 \in 1..sort.n /\ k < k + 1 BY <1>1
    <3>3. DOMAIN <<>> = {} OBVIOUS
    <3>4. \A k \in 1..(sort.n - 1) : sort.a[k] <= sort.a[k + 1] BY <3>1, <3>2, <3>3 DEF InOrder
    <3> QED BY <2>1, <2>2, <3>4
  <2>3. CASE sort.at # "done"
    <3>1. Sorting BY <2>1, <2>3 DEF Sorting
    <3>2. Cursors /\ Compared /\ 1 <= sort.l /\ sort.l < sort.u /\ sort.u <= sort.n
          /\ sort.l \in Int /\ sort.u \in Int
      BY <3>1, WhileSorting
    <3>3. sort.at = "up" => sort.i \in 1..sort.n
      <4> SUFFICES ASSUME sort.at = "up" PROVE sort.i \in 1..sort.n OBVIOUS
      <4>1. sort.i \in (sort.l + 1)..(sort.u + 1) /\ sort.i <= sort.u - 1 BY <3>2 DEF Cursors, Compared
      <4> QED BY <1>1, <3>2, <4>1
    <3>4. sort.at = "down" => sort.j \in 1..sort.n
      <4> SUFFICES ASSUME sort.at = "down" PROVE sort.j \in 1..sort.n OBVIOUS
      <4>1. sort.j \in (sort.l - 1)..(sort.u - 2) /\ sort.l <= sort.j BY <3>2 DEF Cursors, Compared
      <4> QED BY <1>1, <3>2, <4>1
    <3> QED BY <2>1, <2>3, <3>3, <3>4
  <2> QED BY <2>2, <2>3
<1>4. ShallowRecursion
  <2> SUFFICES ASSUME Sorting PROVE TwoTo(Len(sort.todo) + 1) <= sort.n
    BY DEF ShallowRecursion, Sorting
  <2>1. /\ Left \in Lists /\ Len(Left) >= 1 /\ Left[1] = <<sort.l, sort.u>> /\ Ranges(Left, sort.n)
        /\ sort.l \in Int /\ sort.u \in Int /\ sort.l < sort.u /\ sort.todo \in Lists
        /\ Left = <<<<sort.l, sort.u>>>> \o sort.todo
    BY WhileSorting
  <2>2. Size(Left[1]) >= 2 BY <2>1 DEF Size
  <2>3. \A k \in DOMAIN Left : Left[k] \in Int \X Int
    <3>1. Left \in Seq(Int \X Int) BY <2>1 DEF Lists
      <3> QED BY <3>1
  <2>4. Len(Left) = Len(sort.todo) + 1 BY <2>1 DEF Lists
  <2>5. TwoTo(Len(Left)) <= sort.n BY <1>1, <2>1, <2>2, <2>3, DepthBound DEF Ranges
  <2> QED BY <2>4, <2>5
<1> QED BY <1>2, <1>3, <1>4 DEF Sorts

\* table.sort, for any number of elements and whatever the order function
\* answers: no element is lost, and calls nest less deep than the logarithm of
\* the number of elements; an order that makes sense is never called invalid,
\* never compares what is beyond the elements, and leaves them in order.
THEOREM Sorted == SortSpec => []Sorts
<1>1. SortInit => SortInv BY SortInitInv
<1>2. SortInv /\ [SortNext]_sort => SortInv' BY SortNextInv
<1>3. SortInv => Sorts BY InvSorts
<1> QED BY <1>1, <1>2, <1>3, PTL DEF SortSpec

-----------------------------------------------------------------------------
(* require.  The invariant.                                                *)

Stored == {"nil", "false", "true", "value", "table", "sentinel"}
Call == {Body(m) : m \in Module} \cup {ProtectedCall}

TypeOK ==
  /\ loaded \in [Module -> Stored]
  /\ calls \in Seq(Call)
  /\ runs \in [Module -> Nat] /\ clears \in [Module -> Nat]
  /\ answer \in [m : Module \cup {"none"}, v : Stored]

\* As long as nobody took the entry of m away, its body runs at most once at a
\* time, and while it runs the entry is the mark or the table of module.
MarkStays(m) ==
  clears[m] = 0 =>
    /\ \A i \in DOMAIN calls : calls[i] = Body(m) => loaded[m] \in {"sentinel", "table"}
    /\ \A i, j \in DOMAIN calls : calls[i] = Body(m) /\ calls[j] = Body(m) => i = j

\* The body has run for every entry that was taken away, and for the one there is.
Counted(m) ==
  /\ runs[m] <= 1 + clears[m]
  /\ loaded[m] \in Falsy => runs[m] <= clears[m]

IInv == TypeOK /\ (\A m \in Module : MarkStays(m) /\ Counted(m)) /\ GivesModule

USE ModuleAssumption
-----------------------------------------------------------------------------
\* require without an answer gives nothing wrong.
LEMMA NoAnswerGives == answer = NoAnswer => GivesModule
BY DEF NoAnswer, Answer, GivesModule

\* The invariant holds before the first require.
LEMMA InitInv == RequireInit => IInv
<1> SUFFICES ASSUME RequireInit PROVE IInv OBVIOUS
<1> USE DEF RequireInit
<1>1. TypeOK BY DEF TypeOK, Stored, NoAnswer, Answer
<1>2. \A m \in Module : MarkStays(m) /\ Counted(m)
  BY DEF MarkStays, Counted
<1> QED BY <1>1, <1>2, NoAnswerGives DEF IInv

\* A shorter stack of calls keeps what is known of the entries.
LEMMA Shorter ==
  ASSUME TypeOK, \A m \in Module : MarkStays(m) /\ Counted(m),
         NEW n \in 0..Len(calls), calls' = SubSeq(calls, 1, n),
         UNCHANGED <<loaded, runs, clears>>
  PROVE  /\ calls' \in Seq(Call)
         /\ \A m \in Module : MarkStays(m)' /\ Counted(m)'
<1>1. calls' \in Seq(Call) BY DEF TypeOK
<1>2. /\ DOMAIN calls' \subseteq DOMAIN calls
      /\ \A i \in DOMAIN calls' : calls'[i] = calls[i]
  BY DEF TypeOK
<1> QED BY <1>1, <1>2 DEF MarkStays, Counted

\* An error keeps the invariant.
LEMMA RaiseInv ==
  ASSUME IInv, Raise, UNCHANGED <<loaded, runs, clears>>
  PROVE  IInv'
<1>1. PICK n \in 0..Len(calls) : calls' = SubSeq(calls, 1, n)
  <2> DEFINE pcalls == {i \in DOMAIN calls : calls[i].k = "pcall"}
  <2>1. CASE calls' = <<>>
    <3>1. Len(calls) \in Nat /\ SubSeq(calls, 1, 0) = <<>> BY DEF IInv, TypeOK
    <3>2. 0 \in 0..Len(calls) BY <3>1
    <3> QED BY <2>1, <3>1, <3>2
  <2>2. CASE \E i \in pcalls : calls' = SubSeq(calls, 1, i - 1)
    <3>1. PICK i \in DOMAIN calls : calls' = SubSeq(calls, 1, i - 1) BY <2>2
    <3>2. i - 1 \in 0..Len(calls) BY DEF IInv, TypeOK
    <3> QED BY <3>1, <3>2
  <2> QED BY <2>1, <2>2 DEF Raise
<1>2. answer' = NoAnswer BY DEF Raise
<1>3. calls' \in Seq(Call) /\ \A m \in Module : MarkStays(m)' /\ Counted(m)'
  BY <1>1, Shorter DEF IInv
<1>4. TypeOK' BY <1>2, <1>3 DEF IInv, TypeOK, NoAnswer, Answer, Stored
<1>5. GivesModule' BY <1>2 DEF NoAnswer, Answer, GivesModule
<1> QED BY <1>3, <1>4, <1>5 DEF IInv

\* An assignment to package.loaded that is no store of a body keeps it.
LEMMA AssignInv ==
  ASSUME IInv, NEW m \in Module, NEW v \in {"nil", "table"}, Assign(m, v),
         answer' = NoAnswer, UNCHANGED <<calls, runs>>
  PROVE  IInv'
<1>1. TypeOK'
  BY DEF IInv, TypeOK, Assign, Stored, Falsy, NoAnswer, Answer
<1>2. ASSUME NEW x \in Module PROVE MarkStays(x)' /\ Counted(x)'
  BY DEF IInv, TypeOK, Assign, Falsy, MarkStays, Counted
<1>3. GivesModule' BY DEF NoAnswer, Answer, GivesModule
<1> QED BY <1>1, <1>2, <1>3 DEF IInv

\* A require that starts the body of a module keeps it: the entry is falsy, so
\* either no body of m runs or the entry was taken away.
LEMMA RequireLoadsInv ==
  ASSUME IInv, NEW m \in Module, RequireLoads(m)
  PROVE  IInv'
<1> USE DEF RequireLoads, MarkLoading
<1>1. TypeOK'
  <2>1. Body(m) \in Call BY DEF Call
  <2> QED BY <2>1 DEF IInv, TypeOK, Stored, NoAnswer, Answer
<1>2. ASSUME NEW x \in Module PROVE MarkStays(x)' /\ Counted(x)'
  <2>1. Counted(x)' BY DEF IInv, TypeOK, Counted, Falsy
  <2>2. /\ Len(calls') = Len(calls) + 1 /\ calls'[Len(calls) + 1] = Body(m)
        /\ DOMAIN calls' = 1..(Len(calls) + 1)
        /\ \A i \in 1..Len(calls) : calls'[i] = calls[i]
    BY DEF IInv, TypeOK
  <2>3. DOMAIN calls = 1..Len(calls) BY DEF IInv, TypeOK
  <2>4. CASE x = m
    <3>1. clears[m] = 0 => \A i \in DOMAIN calls : calls[i] # Body(m)
      BY DEF IInv, MarkStays, Falsy
    <3>2. loaded'[m] = "sentinel" /\ clears' = clears BY DEF IInv, TypeOK
    <3> QED BY <2>1, <2>2, <2>3, <2>4, <3>1, <3>2 DEF MarkStays
  <2>5. CASE x # m
    <3>1. Body(x) # Body(m) BY <2>5 DEF Body
    <3>2. loaded'[x] = loaded[x] /\ clears' = clears BY <2>5 DEF IInv, TypeOK
    <3>3. MarkStays(x) BY DEF IInv
    <3> QED BY <2>1, <2>2, <2>3, <3>1, <3>2, <3>3 DEF MarkStays
  <2> QED BY <2>4, <2>5
<1>3. GivesModule' BY DEF NoAnswer, Answer, GivesModule
<1> QED BY <1>1, <1>2, <1>3 DEF IInv

\* A require of a module that is loaded gives what its body left.
LEMMA RequireLoadedInv ==
  ASSUME IInv, NEW m \in Module, RequireLoaded(m)
  PROVE  IInv'
<1>1. CASE loaded[m] = "sentinel"
  BY <1>1, RaiseInv DEF RequireLoaded
<1>2. CASE loaded[m] # "sentinel"
  <2> USE <1>2 DEF RequireLoaded
  <2>1. TypeOK' BY DEF IInv, TypeOK, Answer
  <2>2. \A x \in Module : MarkStays(x)' /\ Counted(x)'
    BY DEF IInv, MarkStays, Counted
  <2>3. GivesModule'
    <3>1. answer'.m = m /\ answer'.v = loaded[m] BY DEF Answer
    <3>2. clears[m] = 0 /\ loaded[m] \in {"true", "value"} => Body(m) \notin Range(calls)
      BY DEF IInv, MarkStays, Range
    <3> QED BY <3>1, <3>2 DEF GivesModule
  <2> QED BY <2>1, <2>2, <2>3 DEF IInv
<1> QED BY <1>1, <1>2

\* A body that returns stores what require gives, and runs no more.
LEMMA BodyReturnsInv ==
  ASSUME IInv, BodyReturns
  PROVE  IInv'
<1> DEFINE m == Last(calls).m
           n == Len(calls)
<1>1. PICK v \in {"nil", "false", "value"} :
        LET now == IF v = "nil" THEN loaded[m] ELSE v
            end == IF now = "sentinel" THEN "true" ELSE now
        IN /\ IF v = "false" THEN Assign(m, v)
              ELSE loaded' = [loaded EXCEPT ![m] = end] /\ UNCHANGED clears
           /\ answer' = Answer(m, end)
  BY DEF BodyReturns
<1> DEFINE now == IF v = "nil" THEN loaded[m] ELSE v
           end == IF now = "sentinel" THEN "true" ELSE now
<1>2. answer' = Answer(m, end) BY <1>1
<1>3. v = "false" => Assign(m, v) BY <1>1
<1>4. v # "false" => loaded' = [loaded EXCEPT ![m] = end] /\ clears' = clears
  BY <1>1
<1>5. TypeOK /\ n \in Nat /\ n # 0 /\ calls \in Seq(Call)
  BY DEF IInv, TypeOK, BodyReturns
<1>6. calls' = SubSeq(calls, 1, n - 1) /\ calls[n].k = "body" /\ m = calls[n].m /\ runs' = runs
  BY <1>5 DEF BodyReturns, Front, Last
<1>7. /\ calls' \in Seq(Call) /\ DOMAIN calls' = 1..(n - 1) /\ DOMAIN calls = 1..n
      /\ \A i \in 1..(n - 1) : calls'[i] = calls[i]
  BY <1>5, <1>6
<1>8. m \in Module /\ calls[n] = Body(m)
  <2>1. calls[n] \in Call BY <1>5
  <2> QED BY <2>1, <1>6 DEF Call, Body, ProtectedCall
<1>9. now \in Stored /\ end \in Stored /\ end # "sentinel"
  BY <1>5, <1>8 DEF TypeOK, Stored
<1>10. clears[m] = 0 => loaded[m] \in {"sentinel", "table"}
  BY <1>7, <1>8, <1>5 DEF IInv, MarkStays
<1>11. /\ loaded' = [loaded EXCEPT ![m] = end]
       /\ clears' = IF v = "false" THEN [clears EXCEPT ![m] = @ + 1] ELSE clears
  BY <1>3, <1>4 DEF Assign, Falsy
<1>12. v # "false" /\ clears[m] = 0 => end \in {"true", "value", "table"}
  BY <1>10
<1>13. v # "false" /\ end \in Falsy => loaded[m] \in Falsy BY DEF Falsy
<1> HIDE DEF m, n, now, end
<1>14. TypeOK'
  <2>1. loaded' \in [Module -> Stored] /\ clears' \in [Module -> Nat]
    BY <1>5, <1>8, <1>9, <1>11 DEF TypeOK
  <2>2. answer' \in [m : Module \cup {"none"}, v : Stored]
    BY <1>2, <1>8, <1>9 DEF Answer
  <2> QED BY <2>1, <2>2, <1>5, <1>6, <1>7 DEF TypeOK
<1>15. ASSUME NEW x \in Module PROVE MarkStays(x)' /\ Counted(x)'
  <2>1. Counted(x)'
    <3>1. Counted(x) BY DEF IInv
    <3>2. CASE x = m /\ v = "false"
      <4>1. clears'[x] = clears[x] + 1 BY <3>2, <1>5, <1>8, <1>11 DEF TypeOK
      <4> QED BY <4>1, <3>1, <1>5, <1>6 DEF TypeOK, Counted
    <3>3. CASE x = m /\ v # "false"
      <4>1. loaded'[x] = end /\ clears' = clears BY <3>3, <1>5, <1>8, <1>11 DEF TypeOK
      <4> QED BY <4>1, <3>1, <3>3, <1>6, <1>13 DEF Counted
    <3>4. CASE x # m
      <4>1. loaded'[x] = loaded[x] /\ clears'[x] = clears[x]
        BY <3>4, <1>5, <1>8, <1>11 DEF TypeOK
      <4> QED BY <4>1, <3>1, <1>6 DEF Counted
    <3> QED BY <3>2, <3>3, <3>4
  <2>2. CASE x = m
    <3>1. clears'[m] = 0 => clears[m] = 0 BY <1>5, <1>8, <1>11 DEF TypeOK
    <3>2. clears[m] = 0 => \A i \in DOMAIN calls' : calls'[i] # Body(m)
      <4> SUFFICES ASSUME clears[m] = 0, NEW i \in DOMAIN calls', calls'[i] = Body(m) PROVE FALSE
        OBVIOUS
      <4>1. i \in 1..n /\ n \in 1..n /\ i # n /\ calls[i] = Body(m) BY <1>5, <1>7
      <4> QED BY <4>1, <1>7, <1>8 DEF IInv, MarkStays
    <3> QED BY <2>1, <2>2, <3>1, <3>2 DEF MarkStays
  <2>3. CASE x # m
    <3>1. loaded'[x] = loaded[x] /\ clears'[x] = clears[x]
      BY <2>3, <1>5, <1>8, <1>11 DEF TypeOK
    <3>2. MarkStays(x) BY DEF IInv
    <3>3. 1..(n - 1) \subseteq 1..n BY <1>5
    <3> QED BY <2>1, <1>7, <3>1, <3>2, <3>3 DEF MarkStays
  <2> QED BY <2>2, <2>3
<1>16. GivesModule'
  <2>1. answer'.m = m /\ answer'.v = end BY <1>2 DEF Answer
  <2>2. SUFFICES ASSUME clears'[m] = 0
                 PROVE  end \notin Falsy /\ Body(m) \notin Range(calls')
    BY <2>1, <1>9 DEF GivesModule
  <2>3. clears[m] = 0 /\ v # "false" BY <2>2, <1>5, <1>8, <1>11 DEF TypeOK
  <2>4. ASSUME NEW i \in DOMAIN calls' PROVE calls'[i] # Body(m)
    <3>1. i \in 1..n /\ n \in 1..n /\ i # n /\ calls'[i] = calls[i] BY <1>5, <1>7
    <3> QED BY <3>1, <2>3, <1>7, <1>8 DEF IInv, MarkStays
  <2> QED BY <2>3, <2>4, <1>12 DEF Falsy, Range
<1> QED BY <1>14, <1>15, <1>16 DEF IInv

\* The entry and the end of pcall keep it: a body is something else.
LEMMA PCallInv ==
  ASSUME IInv, PCallBegins \/ PCallReturns
  PROVE  IInv'
<1>1. GivesModule' BY DEF PCallBegins, PCallReturns, NoAnswer, Answer, GivesModule
<1>2. CASE PCallBegins
  <2> USE <1>2 DEF PCallBegins
  <2>1. TypeOK' BY DEF IInv, TypeOK, Call, Stored, NoAnswer, Answer
  <2>2. /\ DOMAIN calls' = 1..(Len(calls) + 1) /\ DOMAIN calls = 1..Len(calls)
        /\ calls'[Len(calls) + 1] = ProtectedCall
        /\ \A i \in 1..Len(calls) : calls'[i] = calls[i]
    BY DEF IInv, TypeOK
  <2>3. \A i \in DOMAIN calls', m \in Module :
          calls'[i] = Body(m) => i \in DOMAIN calls /\ calls[i] = Body(m)
    BY <2>2 DEF Body, ProtectedCall
  <2>4. \A m \in Module : MarkStays(m)' /\ Counted(m)'
    BY <2>3 DEF IInv, MarkStays, Counted
  <2> QED BY <1>1, <2>1, <2>4 DEF IInv
<1>3. CASE PCallReturns
  <2> USE <1>3 DEF PCallReturns
  <2>1. Len(calls) - 1 \in 0..Len(calls) /\ calls' = SubSeq(calls, 1, Len(calls) - 1)
    BY DEF IInv, TypeOK, Front
  <2>2. calls' \in Seq(Call) /\ \A m \in Module : MarkStays(m)' /\ Counted(m)'
    BY <2>1, Shorter DEF IInv
  <2>3. TypeOK' BY <2>2 DEF IInv, TypeOK, Stored, NoAnswer, Answer
  <2> QED BY <1>1, <2>2, <2>3 DEF IInv
<1> QED BY <1>2, <1>3

\* Every step keeps the invariant.
LEMMA NextInv == IInv /\ [RequireNext]_requireVars => IInv'
<1> SUFFICES ASSUME IInv, [RequireNext]_requireVars PROVE IInv' OBVIOUS
<1>1. ASSUME NEW m \in Module, RequireLoaded(m) \/ RequireMissing(m) \/ RequireLoads(m) PROVE IInv'
  BY <1>1, RequireLoadedInv, RequireLoadsInv, RaiseInv DEF RequireMissing
<1>2. CASE BodyReturns BY <1>2, BodyReturnsInv
<1>3. CASE PCallBegins \/ PCallReturns BY <1>3, PCallInv
<1>4. CASE CodeFails BY <1>4, RaiseInv DEF CodeFails
<1>5. CASE ModuleCalled
  <2>1. PICK m \in Module : Assign(m, "table") BY <1>5 DEF ModuleCalled
  <2> QED BY <1>5, <2>1, AssignInv DEF ModuleCalled
<1>6. CASE Unload
  <2>1. PICK m \in Module : Assign(m, "nil") BY <1>6 DEF Unload
  <2> QED BY <1>6, <2>1, AssignInv DEF Unload
<1>7. CASE UNCHANGED requireVars
  BY <1>7 DEF requireVars, IInv, TypeOK, MarkStays, Counted, GivesModule
<1> QED BY <1>1, <1>2, <1>3, <1>4, <1>5, <1>6, <1>7 DEF RequireNext

\* ll_require runs the body of a module once for every time its entry was
\* taken away, and what it returns is the module: never the mark, and nothing
\* before the body has ended, unless module stored its table.
THEOREM RequiringOnce == RequireSpec => []RequiresOnce
<1>1. IInv => RequiresOnce BY DEF IInv, Counted, RequiresOnce, RunsOnce
<1> QED BY <1>1, InitInv, NextInv, PTL DEF RequireSpec
=============================================================================
