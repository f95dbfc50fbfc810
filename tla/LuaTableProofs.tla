--------------------------- MODULE LuaTableProofs ---------------------------
(***************************************************************************)
(* Proofs about the table of LuaTable, for every set of keys, every hash   *)
(* function and every bound of the array part.                             *)
(*                                                                         *)
(* The inductive invariant of a table (Sound) describes its array and its  *)
(* nodes as the functions of ltable.c leave them.  It is preserved by the  *)
(* parts of luaH_set (an assignment to a slot, the three cases of newkey,  *)
(* and rehash with the elements inserted again), by lua_createtable, by    *)
(* OP_SETLIST and by the collector; what the searches return follows from  *)
(* it.  Recursive functions of the model are handled the same way each     *)
(* time: a function that satisfies the recursion exists (by induction over *)
(* an interval, UpTo), so the one that the model chooses satisfies it.     *)
(***************************************************************************)
EXTENDS LuaTable, FiniteSetTheorems, SequenceTheorems, WellFoundedInduction, TLAPS

-----------------------------------------------------------------------------
(* Numbers.                                                                *)

\* A nonempty set of naturals has a least element, which Min is.
LEMMA MinIs ==
  ASSUME NEW S \in SUBSET Nat, S # {}
  PROVE  Min(S) \in S /\ \A x \in S : Min(S) <= x
<1> DEFINE Less == OpToRel(<, Nat)
<1>1. IsWellFoundedOn(Less, Nat) BY NatLessThanWellFounded
<1> HIDE DEF Less
<1>2. PICK i \in S : \A j \in S : <<j, i>> \notin Less BY <1>1, WFMin
<1>3. \A j \in S : ~(j < i) BY <1>2 DEF Less, OpToRel
<1>4. \E x \in S : \A y \in S : x <= y BY <1>3
<1> QED BY <1>4 DEF Min

\* A nonempty set of bounded naturals has a greatest element, which Max is.
LEMMA MaxIs ==
  ASSUME NEW m \in Nat, NEW S \in SUBSET (0 .. m), S # {}
  PROVE  Max(S) \in S /\ \A x \in S : x <= Max(S)
<1> DEFINE T == {m - x : x \in S}
<1>1. T \in SUBSET Nat /\ T # {}
  <2>1. \A x \in S : m - x \in Nat OBVIOUS
  <2>2. PICK x \in S : TRUE OBVIOUS
  <2>3. m - x \in T BY <2>2
  <2> QED BY <2>1, <2>3
<1>2. Min(T) \in T /\ \A x \in T : Min(T) <= x BY <1>1, MinIs
<1>3. PICK i \in S : Min(T) = m - i BY <1>2
<1>4. \A x \in S : x <= i
  <2> SUFFICES ASSUME NEW x \in S PROVE x <= i OBVIOUS
  <2>1. m - x \in T OBVIOUS
  <2>2. m - i <= m - x BY <1>2, <1>3, <2>1
  <2> QED BY <2>2
<1>5. \E x \in S : \A y \in S : x >= y BY <1>4
<1> QED BY <1>5 DEF Max

\* A set with 0 in it and, with each number up to m, the next one.
LEMMA UpTo ==
  ASSUME NEW m \in Nat, NEW T, T \subseteq 0 .. m, 0 \in T,
         \A k \in 1 .. m : k - 1 \in T => k \in T
  PROVE  T = 0 .. m
<1> DEFINE Rest == (0 .. m) \ T
<1>1. SUFFICES ASSUME Rest # {} PROVE FALSE OBVIOUS
<1>2. Rest \in SUBSET Nat OBVIOUS
<1>3. Min(Rest) \in Rest /\ \A x \in Rest : Min(Rest) <= x BY <1>1, <1>2, MinIs
<1> DEFINE i == Min(Rest)
<1>4. i \in 1 .. m /\ i - 1 \in 0 .. m /\ i - 1 < i BY <1>3
<1>5. i - 1 \in T BY <1>3, <1>4
<1> QED BY <1>3, <1>4, <1>5

\* The recursion that defines TwoTo.
Powers(p, n) == p = [i \in 0..n |-> IF i = 0 THEN 1 ELSE 2 * p[i - 1]]

\* The recursive function of TwoTo exists,
LEMMA PowersExist ==
  ASSUME NEW n \in Nat
  PROVE  \E p : Powers(p, n)
<1> DEFINE T == {m \in 0 .. n : \E p : Powers(p, m)}
<1>1. 0 \in T
  <2>1. PICK p : p = [k \in 0 .. 0 |-> 1] OBVIOUS
  <2>2. Powers(p, 0) BY <2>1 DEF Powers
  <2> QED BY <2>2
<1>2. ASSUME NEW m \in 1 .. n, m - 1 \in T PROVE m \in T
  <2>1. PICK p : Powers(p, m - 1) BY <1>2
  <2>2. PICK q : q = [k \in 0 .. m |-> IF k = m THEN 2 * p[m - 1] ELSE p[k]] OBVIOUS
  <2>3. Powers(q, m) BY <2>1, <2>2 DEF Powers
  <2> QED BY <2>3
<1>3. T = 0 .. n BY <1>1, <1>2, UpTo
<1> QED BY <1>3

\* two of them agree,
LEMMA PowersUnique ==
  ASSUME NEW n \in Nat, NEW m \in 0 .. n, NEW p, NEW q, Powers(p, n), Powers(q, m)
  PROVE  p[m] = q[m]
<1> DEFINE T == {k \in 0 .. m : p[k] = q[k]}
<1>1. 0 \in T BY DEF Powers
<1>2. \A k \in 1 .. m : k - 1 \in T => k \in T BY DEF Powers
<1>3. m \in Nat /\ T \subseteq 0 .. m OBVIOUS
<1> HIDE DEF T
<1>4. T = 0 .. m BY <1>1, <1>2, <1>3, UpTo
<1> QED BY <1>3, <1>4 DEF T

\* and TwoTo is its last value.
LEMMA TwoToIs ==
  ASSUME NEW n \in Nat, NEW p, Powers(p, n)
  PROVE  TwoTo(n) = p[n]
<1>1. \E q : Powers(q, n) /\ TwoTo(n) = q[n] BY DEF TwoTo, Powers
<1> QED BY <1>1, PowersUnique

\* Powers of two double.
LEMMA TwoToStep ==
  /\ TwoTo(0) = 1
  /\ \A n \in Nat : TwoTo(n + 1) = 2 * TwoTo(n)
<1>1. TwoTo(0) = 1
  <2>1. PICK p : Powers(p, 0) BY PowersExist
  <2>2. p[0] = 1 BY <2>1 DEF Powers
  <2>3. TwoTo(0) = p[0] BY <2>1, TwoToIs
  <2> QED BY <2>2, <2>3
<1>2. ASSUME NEW n \in Nat PROVE TwoTo(n + 1) = 2 * TwoTo(n)
  <2>1. PICK p : Powers(p, n + 1) BY PowersExist
  <2>2. PICK q : Powers(q, n) BY PowersExist
  <2>3. p[n] = q[n] BY <2>1, <2>2, PowersUnique
  <2>4. p[n + 1] = 2 * p[n] BY <2>1 DEF Powers
  <2>5. TwoTo(n) = q[n] /\ TwoTo(n + 1) = p[n + 1] BY <2>1, <2>2, TwoToIs
  <2> QED BY <2>3, <2>4, <2>5
<1> QED BY <1>1, <1>2

\* A power of two is a natural number above its exponent.
LEMMA TwoToNat ==
  \A n \in Nat : TwoTo(n) \in Nat /\ n < TwoTo(n)
<1> SUFFICES ASSUME NEW n \in Nat PROVE TwoTo(n) \in Nat /\ n < TwoTo(n) OBVIOUS
<1> DEFINE T == {k \in 0 .. n : TwoTo(k) \in Nat /\ k < TwoTo(k)}
<1>1. 0 \in T BY TwoToStep
<1>2. ASSUME NEW k \in 1 .. n, k - 1 \in T PROVE k \in T
  <2>1. TwoTo((k - 1) + 1) = 2 * TwoTo(k - 1) BY TwoToStep
  <2>2. (k - 1) + 1 = k OBVIOUS
  <2> QED BY <1>2, <2>1, <2>2
<1>3. T = 0 .. n BY <1>1, <1>2, UpTo
<1> QED BY <1>3

\* A power of two with a greater exponent is at least twice as large.
LEMMA TwoToMono ==
  \A i, j \in Nat : /\ i <= j => TwoTo(i) <= TwoTo(j)
                    /\ i < j => 2 * TwoTo(i) <= TwoTo(j)
<1>1. ASSUME NEW i \in Nat, NEW d \in Nat PROVE TwoTo(i) <= TwoTo(i + d)
  <2> DEFINE T == {k \in 0 .. d : TwoTo(i) <= TwoTo(i + k)}
  <2>1. 0 \in T BY TwoToNat
  <2>2. ASSUME NEW k \in 1 .. d, k - 1 \in T PROVE k \in T
    <3>1. i + (k - 1) \in Nat /\ (i + (k - 1)) + 1 = i + k OBVIOUS
    <3>2. TwoTo(i + k) = 2 * TwoTo(i + (k - 1)) BY <3>1, TwoToStep
    <3> QED BY <2>2, <3>1, <3>2, TwoToNat
  <2>3. T = 0 .. d BY <2>1, <2>2, UpTo
  <2> QED BY <2>3
<1>2. ASSUME NEW i \in Nat, NEW j \in Nat, i <= j PROVE TwoTo(i) <= TwoTo(j)
  <2>1. j - i \in Nat /\ i + (j - i) = j BY <1>2
  <2> QED BY <1>1, <2>1
<1>3. ASSUME NEW i \in Nat, NEW j \in Nat, i < j PROVE 2 * TwoTo(i) <= TwoTo(j)
  <2>1. TwoTo(i + 1) <= TwoTo(j) BY <1>2, <1>3
  <2> QED BY <2>1, TwoToStep
<1> QED BY <1>2, <1>3

\* The logarithm that luaO_log2 rounds up.
LEMMA CeilLog2Is ==
  ASSUME NEW x \in Nat
  PROVE  /\ CeilLog2(x) \in 0 .. x /\ x <= TwoTo(CeilLog2(x))
         /\ CeilLog2(x) = 0 \/ TwoTo(CeilLog2(x) - 1) < x
<1> DEFINE S == {lg \in 0 .. x : x <= TwoTo(lg)}
<1>1. x \in S BY TwoToNat
<1>2. S \in SUBSET Nat /\ S # {} BY <1>1
<1>3. Min(S) \in S /\ \A y \in S : Min(S) <= y BY <1>2, MinIs
<1> DEFINE l == Min(S)
<1>4. l = 0 \/ TwoTo(l - 1) < x
  <2>1. CASE l # 0
    <3>1. l - 1 \in 0 .. x /\ l - 1 \notin S BY <1>3, <2>1
    <3>2. TwoTo(l - 1) \in Nat BY <3>1, TwoToNat
    <3> QED BY <3>1, <3>2
  <2> QED BY <2>1
<1>5. \E lg \in 0 .. x : x <= TwoTo(lg) /\ (lg = 0 \/ TwoTo(lg - 1) < x) BY <1>3, <1>4
<1> QED BY <1>5 DEF CeilLog2

\* CeilLog2(x) is the least exponent whose power reaches x.
LEMMA CeilLog2Le ==
  ASSUME NEW x \in Nat, x # 0, NEW i \in Nat
  PROVE  CeilLog2(x) <= i <=> x <= TwoTo(i)
<1> DEFINE l == CeilLog2(x)
<1>1. l \in Nat /\ x <= TwoTo(l) /\ (l = 0 \/ TwoTo(l - 1) < x) BY CeilLog2Is
<1> HIDE DEF l
<1>2. CASE l <= i
  <2>1. TwoTo(l) <= TwoTo(i) BY <1>1, <1>2, TwoToMono
  <2> QED BY <1>1, <1>2, <2>1, TwoToNat DEF l
<1>3. CASE i < l
  <2>1. i <= l - 1 /\ l - 1 \in Nat BY <1>1, <1>3
  <2>2. TwoTo(i) <= TwoTo(l - 1) BY <2>1, TwoToMono
  <2> QED BY <1>1, <1>3, <2>1, <2>2, TwoToNat DEF l
<1> QED BY <1>1, <1>2, <1>3

-----------------------------------------------------------------------------
(* Chains.  Their nodes form a graph in which every node has one successor *)
(* at most; node is the function of a table from positions to nodes.       *)

\* Whoever starts at n and follows the chain comes by i.
Leads(node, n, i) ==
  \A X \in SUBSET DOMAIN node :
    /\ n \in X
    /\ \A p \in X : node[p].next # Null => node[p].next \in X
    => i \in X

\* The chains end.
Ranks(node, rank) ==
  /\ rank \in [DOMAIN node -> Nat]
  /\ \A p \in DOMAIN node : node[p].next # Null => rank[p] < rank[node[p].next]

\* The nodes of a table with S nodes.
NodeType(S) == [key : Keys \cup {Nil}, dead : BOOLEAN, val : Values \cup {Nil},
                next : 0 .. (S - 1) \cup {Null}]

\* A table with S nodes.
Shaped(tb, S) ==
  /\ S \in Nat \ {0}
  /\ tb.node \in [0 .. (S - 1) -> NodeType(S)]

\* sizenode of a table with S nodes.
LEMMA SizeIs ==
  ASSUME NEW tb, NEW S, Shaped(tb, S)
  PROVE  sizenode(tb) = S
<1>1. DOMAIN tb.node = 0 .. (S - 1) BY DEF Shaped
<1>2. S \in Nat \ {0} BY DEF Shaped
<1>3. Cardinality(0 .. (S - 1)) = S BY <1>2, FS_Interval
<1> QED BY <1>1, <1>3 DEF sizenode

\* mainposition depends on the number of nodes only.
Main(S, k) == IF k \in StrKeys THEN Hash[k] % S
              ELSE Hash[k] % (IF S = 1 THEN 1 ELSE S - 1)

\* The main position of a key is a node.
LEMMA MainIs ==
  ASSUME NEW tb, NEW S, Shaped(tb, S)
  PROVE  /\ \A k : mainposition(tb, k) = Main(S, k)
         /\ \A k \in Keys : Main(S, k) \in 0 .. (S - 1)
<1>1. \A k : mainposition(tb, k) = Main(S, k) BY SizeIs DEF mainposition, Main
<1>2. ASSUME NEW k \in Keys PROVE Main(S, k) \in 0 .. (S - 1)
  <2>1. Hash[k] \in Nat BY TableAssumption
  <2>2. S \in Nat /\ S > 0 BY DEF Shaped
  <2>3. \A a, b \in Nat : b > 0 => a % b \in 0 .. (b - 1) OBVIOUS
  <2>4. Hash[k] % S \in 0 .. (S - 1) BY <2>1, <2>2, <2>3
  <2>5. CASE S = 1
    <3>1. Hash[k] % 1 \in 0 .. 0 BY <2>1, <2>3
    <3> QED BY <2>4, <2>5, <3>1 DEF Main
  <2>6. CASE S # 1
    <3>1. S - 1 \in Nat /\ S - 1 > 0 BY <2>2, <2>6
    <3>2. Hash[k] % (S - 1) \in 0 .. ((S - 1) - 1) BY <2>1, <2>3, <3>1
    <3>3. Hash[k] % (S - 1) \in 0 .. (S - 1) BY <2>2, <3>2
    <3> QED BY <2>4, <2>6, <3>3 DEF Main
  <2> QED BY <2>5, <2>6
<1> QED BY <1>1, <1>2

\* The recursion that defines Chain.
Follows(at, node, n, m) ==
  at = [i \in 0 .. m |-> IF i = 0 THEN n
                         ELSE IF at[i - 1] = Null THEN Null ELSE node[at[i - 1]].next]

\* The recursive function of Chain exists.
LEMMA FollowsExists ==
  ASSUME NEW m \in Nat, NEW node, NEW n
  PROVE  \E at : Follows(at, node, n, m)
<1> DEFINE T == {k \in 0 .. m : \E at : Follows(at, node, n, k)}
<1>1. 0 \in T
  <2>1. PICK at : at = [k \in 0 .. 0 |-> n] OBVIOUS
  <2>2. Follows(at, node, n, 0) BY <2>1 DEF Follows
  <2> QED BY <2>2
<1>2. ASSUME NEW k \in 1 .. m, k - 1 \in T PROVE k \in T
  <2>1. PICK p : Follows(p, node, n, k - 1) BY <1>2
  <2>2. PICK q : q = [i \in 0 .. k |-> IF i = k
                        THEN IF p[k - 1] = Null THEN Null ELSE node[p[k - 1]].next
                        ELSE p[i]]
    OBVIOUS
  <2>3. k \in Nat /\ k - 1 \in Nat /\ k \in 0 .. m OBVIOUS
  <2>4. \A i \in 0 .. k - 1 : q[i] = p[i] BY <2>2, <2>3
  <2>5. ASSUME NEW i \in 0 .. k
        PROVE  q[i] = IF i = 0 THEN n
                      ELSE IF q[i - 1] = Null THEN Null ELSE node[q[i - 1]].next
    <3>1. CASE i = k
      <4>1. q[i] = IF p[k - 1] = Null THEN Null ELSE node[p[k - 1]].next
        BY <2>2, <2>3, <3>1
      <4>2. q[k - 1] = p[k - 1] BY <2>3, <2>4
      <4> QED BY <1>2, <3>1, <4>1, <4>2
    <3>2. CASE i # k
      <4>1. i \in 0 .. k - 1 /\ (i # 0 => i - 1 \in 0 .. k - 1) BY <2>3, <3>2
      <4>2. p[i] = IF i = 0 THEN n
                   ELSE IF p[i - 1] = Null THEN Null ELSE node[p[i - 1]].next
        BY <2>1, <4>1 DEF Follows
      <4> QED BY <2>4, <4>1, <4>2
    <3> QED BY <3>1, <3>2
  <2>6. q = [i \in 0 .. k |-> q[i]] BY <2>2
  <2>7. Follows(q, node, n, k) BY <2>5, <2>6 DEF Follows
  <2> QED BY <2>3, <2>7
<1>3. T \subseteq 0 .. m OBVIOUS
<1> HIDE DEF T
<1>4. T = 0 .. m BY <1>1, <1>2, <1>3, UpTo
<1> QED BY <1>4 DEF T

\* The chain from n, place by place.
LEMMA ChainIs ==
  ASSUME NEW tb, NEW S, Shaped(tb, S), NEW n \in 0 .. (S - 1)
  PROVE  LET at == Chain(tb, n) IN
         /\ at \in [0 .. (S - 1) -> 0 .. (S - 1) \cup {Null}]
         /\ at[0] = n
         /\ \A i \in 1 .. (S - 1) :
              at[i] = IF at[i - 1] = Null THEN Null ELSE tb.node[at[i - 1]].next
<1> DEFINE at == Chain(tb, n)
<1>1. Follows(at, tb.node, n, S - 1)
  <2>1. S - 1 \in Nat BY DEF Shaped
  <2>2. sizenode(tb) = S BY SizeIs
  <2>3. \E f : Follows(f, tb.node, n, sizenode(tb) - 1) BY <2>1, <2>2, FollowsExists
  <2>4. Follows(at, tb.node, n, sizenode(tb) - 1) BY <2>3 DEF Chain, Follows
  <2> QED BY <2>2, <2>4
<1> HIDE DEF at
<1>2. /\ at = [i \in 0 .. (S - 1) |-> at[i]] /\ at[0] = n
      /\ \A i \in 1 .. (S - 1) :
           at[i] = IF at[i - 1] = Null THEN Null ELSE tb.node[at[i - 1]].next
  <2>1. S - 1 \in Nat BY DEF Shaped
  <2>2. at = [i \in 0 .. (S - 1) |-> at[i]] BY <1>1 DEF Follows
  <2>3. at[0] = n BY <1>1, <2>1 DEF Follows
  <2>4. ASSUME NEW i \in 1 .. (S - 1)
        PROVE  at[i] = IF at[i - 1] = Null THEN Null ELSE tb.node[at[i - 1]].next
    <3>1. i \in 0 .. (S - 1) /\ i # 0 BY <2>1
    <3> QED BY <1>1, <3>1 DEF Follows
  <2> QED BY <2>2, <2>3, <2>4
<1>3. \A i \in 0 .. (S - 1) : at[i] \in 0 .. (S - 1) \cup {Null}
  <2> DEFINE T == {i \in 0 .. (S - 1) : at[i] \in 0 .. (S - 1) \cup {Null}}
  <2>1. S - 1 \in Nat BY DEF Shaped
  <2>2. 0 \in T BY <1>2, <2>1
  <2>3. ASSUME NEW i \in 1 .. (S - 1), i - 1 \in T PROVE i \in T
    <3>1. i \in 0 .. (S - 1) /\ at[i - 1] \in 0 .. (S - 1) \cup {Null} BY <2>1, <2>3
    <3>2. \A p \in 0 .. (S - 1) : tb.node[p].next \in 0 .. (S - 1) \cup {Null}
      BY DEF Shaped, NodeType
    <3>3. at[i] = IF at[i - 1] = Null THEN Null ELSE tb.node[at[i - 1]].next BY <1>2
    <3> QED BY <3>1, <3>2, <3>3
  <2>4. T = 0 .. (S - 1) BY <2>1, <2>2, <2>3, UpTo
  <2> QED BY <2>4
<1> QED BY <1>2, <1>3 DEF at

\* What comes later on a chain is led to by what comes before.
LEMMA ChainOrder ==
  ASSUME NEW tb, NEW S, Shaped(tb, S), NEW n \in 0 .. (S - 1),
         NEW a \in 0 .. (S - 1), NEW b \in a .. (S - 1), Chain(tb, n)[b] # Null
  PROVE  Chain(tb, n)[a] # Null /\ Leads(tb.node, Chain(tb, n)[a], Chain(tb, n)[b])
<1> DEFINE at == Chain(tb, n)
<1>1. /\ at \in [0 .. (S - 1) -> 0 .. (S - 1) \cup {Null}]
      /\ \A i \in 1 .. (S - 1) :
           at[i] = IF at[i - 1] = Null THEN Null ELSE tb.node[at[i - 1]].next
  BY ChainIs
<1>2. S \in Nat \ {0} BY DEF Shaped
<1> HIDE DEF at
<1> DEFINE d == b - a
           T == {i \in 0 .. d : at[a + i] = Null \/ (at[a] # Null /\ Leads(tb.node, at[a], at[a + i]))}
<1>3. d \in Nat /\ a + d = b BY <1>2
<1>4. 0 \in T
  <2>1. a + 0 = a /\ 0 \in 0 .. d BY <1>3
  <2> QED BY <2>1 DEF Leads
<1>5. ASSUME NEW i \in 1 .. d, i - 1 \in T PROVE i \in T
  <2>1. a + (i - 1) = (a + i) - 1 /\ a + i \in 1 .. (S - 1) BY <1>2
  <2>2. at[a + i] = IF at[a + (i - 1)] = Null THEN Null ELSE tb.node[at[a + (i - 1)]].next
    BY <1>1, <2>1
  <2>3. SUFFICES ASSUME at[a + i] # Null
                 PROVE  at[a] # Null /\ Leads(tb.node, at[a], at[a + i])
    OBVIOUS
  <2>4. at[a] # Null /\ Leads(tb.node, at[a], at[a + (i - 1)]) BY <1>5, <2>2, <2>3
  <2> QED BY <2>2, <2>3, <2>4 DEF Leads
<1>6. T \subseteq 0 .. d OBVIOUS
<1>7. T = 0 .. d
  <2> HIDE DEF T, d
  <2> QED BY <1>3, <1>4, <1>5, <1>6, UpTo
<1>8. d \in T BY <1>3, <1>7
<1> QED BY <1>3, <1>8 DEF at

\* Ranks grow along a chain.
LEMMA LeadsUp ==
  ASSUME NEW S \in Nat \ {0}, NEW node, node \in [0 .. (S - 1) -> NodeType(S)],
         NEW rank, Ranks(node, rank),
         NEW a \in 0 .. (S - 1), NEW b, Leads(node, a, b), a # b
  PROVE  b \in 0 .. (S - 1) /\ rank[a] < rank[b]
<1> DEFINE X == {a} \cup {x \in 0 .. (S - 1) : rank[a] < rank[x]}
<1>1. DOMAIN node = 0 .. (S - 1) OBVIOUS
<1>2. ASSUME NEW p \in X, node[p].next # Null PROVE node[p].next \in X
  <2>1. p \in 0 .. (S - 1) OBVIOUS
  <2>2. node[p].next \in 0 .. (S - 1) BY <1>2, <2>1 DEF NodeType
  <2>3. rank[p] < rank[node[p].next] /\ rank \in [0 .. (S - 1) -> Nat]
    BY <1>1, <1>2, <2>1 DEF Ranks
  <2> QED BY <2>1, <2>2, <2>3
<1>3. X \in SUBSET DOMAIN node /\ a \in X BY <1>1
<1>4. b \in X BY <1>2, <1>3 DEF Leads
<1> QED BY <1>4

\* Chain finds every node that it should.
LEMMA ChainReaches ==
  ASSUME NEW tb, NEW S, Shaped(tb, S), NEW n \in 0 .. (S - 1),
         NEW rank, Ranks(tb.node, rank),
         NEW i \in 0 .. (S - 1), Leads(tb.node, n, i)
  PROVE  \E j \in 0 .. (S - 1) : Chain(tb, n)[j] = i
<1> DEFINE at == Chain(tb, n)
           X == {at[j] : j \in 0 .. (S - 1)} \ {Null}
<1>1. /\ at \in [0 .. (S - 1) -> 0 .. (S - 1) \cup {Null}]
      /\ at[0] = n
      /\ \A j \in 1 .. (S - 1) :
           at[j] = IF at[j - 1] = Null THEN Null ELSE tb.node[at[j - 1]].next
  BY ChainIs
<1>2. S \in Nat \ {0} /\ DOMAIN tb.node = 0 .. (S - 1) /\ tb.node \in [0 .. (S - 1) -> NodeType(S)]
  BY DEF Shaped
<1>d. \A a, b \in 0 .. (S - 1) : a <= b /\ at[b] # Null =>
        at[a] # Null /\ Leads(tb.node, at[a], at[b])
  BY ChainOrder
<1> HIDE DEF at
<1>3. ASSUME NEW p \in X, tb.node[p].next # Null PROVE tb.node[p].next \in X
  <2>1. PICK j \in 0 .. (S - 1) : p = at[j] /\ at[j] # Null OBVIOUS
  <2>2. CASE j < S - 1
    <3>1. j + 1 \in 1 .. (S - 1) /\ (j + 1) - 1 = j /\ j + 1 \in 0 .. (S - 1)
      BY <1>2, <2>2
    <3>2. at[j + 1] = tb.node[p].next BY <1>1, <2>1, <3>1
    <3> QED BY <1>3, <3>1, <3>2
  <2>3. CASE j = S - 1
    <3>1. \A a, b \in 0 .. (S - 1) : a < b => at[a] # at[b]
      <4> SUFFICES ASSUME NEW a \in 0 .. (S - 1), NEW b \in 0 .. (S - 1), a < b,
                          at[a] = at[b]
                   PROVE  FALSE
        OBVIOUS
      <4>1. at[a] # Null /\ at[b] # Null /\ at[b - 1] # Null BY <1>2, <1>d, <2>1, <2>3
      <4>2. at[b] = tb.node[at[b - 1]].next BY <1>1, <4>1
      <4>3. at[b - 1] \in 0 .. (S - 1) /\ at[a] \in 0 .. (S - 1)
        <5>1. b - 1 \in 0 .. (S - 1) BY <1>2
        <5> QED BY <1>1, <4>1, <5>1
      <4>4. rank[at[b - 1]] < rank[at[b]] BY <1>2, <4>1, <4>2, <4>3 DEF Ranks
      <4>5. Leads(tb.node, at[a], at[b - 1]) BY <1>2, <1>d, <4>1
      <4>6. at[a] = at[b - 1] \/ rank[at[a]] < rank[at[b - 1]]
        BY <1>2, <4>3, <4>5, LeadsUp
      <4>7. rank[at[b - 1]] \in Nat /\ rank[at[a]] \in Nat BY <1>2, <4>3 DEF Ranks
      <4> QED BY <4>4, <4>6, <4>7
    <3>2. ASSUME NEW a \in 0 .. (S - 1) PROVE at[a] \in 0 .. (S - 1)
      <4>1. S - 1 \in 0 .. (S - 1) /\ a <= S - 1 BY <1>2
      <4>2. at[S - 1] # Null BY <2>1, <2>3
      <4>3. at[a] # Null BY <1>d, <4>1, <4>2
      <4> QED BY <1>1, <4>3
    <3>3. at \in Injection(0 .. (S - 1), 0 .. (S - 1))
      <4>1. at \in [0 .. (S - 1) -> 0 .. (S - 1)] BY <1>1, <3>2
      <4>2. \A a, b \in 0 .. (S - 1) : at[a] = at[b] => a = b
        <5>1. \A a, b \in 0 .. (S - 1) : a < b \/ b < a \/ a = b BY <1>2
        <5> QED BY <3>1, <5>1
      <4> QED BY <4>1, <4>2 DEF Injection, IsInjective
    <3>4. IsFiniteSet(0 .. (S - 1)) BY <1>2, FS_Interval
    <3>5. at \in Surjection(0 .. (S - 1), 0 .. (S - 1)) BY <3>3, <3>4, FS_Injection
    <3>6. tb.node[p].next \in 0 .. (S - 1) BY <1>1, <1>2, <1>3, <2>1 DEF NodeType
    <3>7. PICK a \in 0 .. (S - 1) : at[a] = tb.node[p].next BY <3>5, <3>6 DEF Surjection
    <3> QED BY <1>3, <3>7
  <2> QED BY <1>2, <2>2, <2>3
<1>4. n \in X
  <2>1. 0 \in 0 .. (S - 1) /\ n # Null BY <1>2 DEF Null
  <2> QED BY <1>1, <2>1
<1>5. X \in SUBSET DOMAIN tb.node BY <1>1, <1>2
<1>6. i \in X BY <1>3, <1>4, <1>5 DEF Leads
<1> QED BY <1>6 DEF at

-----------------------------------------------------------------------------
(* The invariant of a table with S nodes.                                  *)

\* The type of a table with S nodes.
Typed(tb, S) ==
  /\ Shaped(tb, S)
  /\ tb \in [array : Seq(Values \cup {Nil}), node : [0 .. (S - 1) -> NodeType(S)],
             lastfree : 0 .. S, dummy : BOOLEAN]

\* The array part holds integer keys, and is not too large.
ArrayOK(tb) ==
  /\ sizearray(tb) <= TwoTo(MAXBITS)
  /\ \A i \in 1 .. sizearray(tb) : tb.array[i] # Nil => i \in IntKeys

\* Chains end, never join, and lead through nodes that had a key.
Linked(tb, S) ==
  /\ \A i \in 0 .. (S - 1) :
       /\ tb.node[i].key = Nil => /\ tb.node[i].next = Null /\ tb.node[i].val = Nil
                                  /\ ~tb.node[i].dead
       /\ tb.node[i].next # Null => tb.node[tb.node[i].next].key # Nil
  /\ \A i, j \in 0 .. (S - 1) :
       i # j /\ tb.node[i].next # Null => tb.node[i].next # tb.node[j].next
  /\ \E rank : Ranks(tb.node, rank)

\* Each key belongs to the hash part and its main position, where some key of
\* that main position is, leads to it.
Homed(tb, S) ==
  \A i \in 0 .. (S - 1) : tb.node[i].key # Nil =>
    /\ ~InArray(tb, tb.node[i].key)
    /\ Leads(tb.node, Main(S, tb.node[i].key), i)
    /\ tb.node[Main(S, tb.node[i].key)].key # Nil
    /\ Main(S, tb.node[Main(S, tb.node[i].key)].key) = Main(S, tb.node[i].key)

\* A key has one node that is not dead, and no dead one comes before it.
Single(tb, S) ==
  /\ \A i \in 0 .. (S - 1) : tb.node[i].dead => tb.node[i].val = Nil
  /\ \A i, j \in 0 .. (S - 1) :
       i # j /\ tb.node[i].key = tb.node[j].key /\ tb.node[i].key # Nil /\ ~tb.node[i].dead
         => tb.node[j].dead /\ ~Leads(tb.node, j, i)

\* From lastfree on no node is free; dummynode holds nothing.
FreeBelow(tb, S) ==
  /\ ~tb.dummy => \A i \in 0 .. (S - 1) : i >= tb.lastfree => tb.node[i].key # Nil
  /\ tb.dummy => S = 1 /\ tb.node[0].key = Nil

\* What always holds of a table with S nodes.
Sound(tb, S) ==
  Typed(tb, S) /\ ArrayOK(tb) /\ Linked(tb, S) /\ Homed(tb, S) /\ Single(tb, S)
  /\ FreeBelow(tb, S)

\* Node i has key k, which is not dead.
Live(tb, i, k) == tb.node[i].key = k /\ ~tb.node[i].dead

\* What the type of a table says of its parts.
LEMMA TypedIs ==
  ASSUME NEW tb, NEW S, Typed(tb, S)
  PROVE  /\ S \in Nat \ {0} /\ tb.node \in [0 .. (S - 1) -> NodeType(S)]
         /\ DOMAIN tb.node = 0 .. (S - 1) /\ Shaped(tb, S) /\ sizenode(tb) = S
         /\ \A i \in 0 .. (S - 1) :
              /\ tb.node[i] = [key |-> tb.node[i].key, dead |-> tb.node[i].dead,
                               val |-> tb.node[i].val, next |-> tb.node[i].next]
              /\ tb.node[i].key \in Keys \cup {Nil} /\ tb.node[i].dead \in BOOLEAN
              /\ tb.node[i].val \in Values \cup {Nil}
              /\ tb.node[i].next \in 0 .. (S - 1) \cup {Null}
         /\ tb.array \in Seq(Values \cup {Nil}) /\ sizearray(tb) \in Nat
         /\ \A i \in 1 .. sizearray(tb) : tb.array[i] \in Values \cup {Nil}
         /\ tb.lastfree \in 0 .. S /\ tb.dummy \in BOOLEAN
<1>1. tb.array \in Seq(Values \cup {Nil}) BY DEF Typed
<1>2. sizearray(tb) \in Nat /\ \A i \in 1 .. sizearray(tb) : tb.array[i] \in Values \cup {Nil}
  BY <1>1, LenProperties, ElementOfSeq DEF sizearray
<1>3. sizenode(tb) = S BY SizeIs DEF Typed
<1>4. \A nd \in NodeType(S) :
        /\ nd = [key |-> nd.key, dead |-> nd.dead, val |-> nd.val, next |-> nd.next]
        /\ nd.key \in Keys \cup {Nil} /\ nd.dead \in BOOLEAN
        /\ nd.val \in Values \cup {Nil} /\ nd.next \in 0 .. (S - 1) \cup {Null}
  BY DEF NodeType
<1>5. S \in Nat \ {0} /\ tb.node \in [0 .. (S - 1) -> NodeType(S)] /\ Shaped(tb, S)
  BY DEF Typed, Shaped
<1>6. tb.lastfree \in 0 .. S /\ tb.dummy \in BOOLEAN BY DEF Typed
<1>7. \A i \in 0 .. (S - 1) : tb.node[i] \in NodeType(S) BY <1>5
<1> QED BY <1>1, <1>2, <1>3, <1>4, <1>5, <1>6, <1>7

\* The search of a chain for key k: it finds the node of k that is not dead,
\* whether it asks for that or not.
LEMMA SearchIs ==
  ASSUME NEW tb, NEW S, Sound(tb, S), NEW k \in Keys
  PROVE  LET at == Chain(tb, Main(S, k))
             any == Keyed(tb, at, k)
             alive == {i \in any : ~tb.node[at[i]].dead}
         IN /\ \A i \in 0 .. (S - 1) : Live(tb, i, k) => First(at, any) = i /\ First(at, alive) = i
            /\ (\A i \in 0 .. (S - 1) : ~Live(tb, i, k)) => First(at, alive) = Null
            /\ First(at, any) # Null =>
                 First(at, any) \in 0 .. (S - 1) /\ tb.node[First(at, any)].key = k
<1> DEFINE m == Main(S, k)
           at == Chain(tb, m)
           any == Keyed(tb, at, k)
           alive == {i \in any : ~tb.node[at[i]].dead}
<1>1. /\ S \in Nat \ {0} /\ Shaped(tb, S) /\ m \in 0 .. (S - 1) /\ k # Nil /\ -1 \notin 0 .. (S - 1)
      /\ tb.node \in [0 .. (S - 1) -> NodeType(S)]
  BY TypedIs, MainIs, TableAssumption DEF Sound
<1>2. /\ at \in [0 .. (S - 1) -> 0 .. (S - 1) \cup {Null}]
      /\ DOMAIN at = 0 .. (S - 1)
  BY <1>1, ChainIs
<1>3. PICK rank : Ranks(tb.node, rank) BY DEF Sound, Linked
<1>4. \A a, b \in 0 .. (S - 1) : a <= b /\ at[b] # Null => Leads(tb.node, at[a], at[b])
  BY <1>1, ChainOrder
<1>5. \A i \in 0 .. (S - 1) : tb.node[i].key = k => \E j \in 0 .. (S - 1) : at[j] = i
  <2> SUFFICES ASSUME NEW i \in 0 .. (S - 1), tb.node[i].key = k
               PROVE  \E j \in 0 .. (S - 1) : at[j] = i
    OBVIOUS
  <2>1. Leads(tb.node, m, i) BY <1>1 DEF Sound, Homed
  <2> HIDE DEF m
  <2>a. Shaped(tb, S) /\ m \in 0 .. (S - 1) BY <1>1
  <2>2. \E j \in 0 .. (S - 1) : Chain(tb, m)[j] = i BY <1>3, <2>1, <2>a, ChainReaches
  <2> QED BY <2>2
<1> HIDE DEF at, m
<1>6. /\ any = {j \in 0 .. (S - 1) : at[j] # Null /\ tb.node[at[j]].key = k}
      /\ any \in SUBSET Nat /\ alive \in SUBSET Nat
  BY <1>1, <1>2 DEF Keyed
<1>7. \A j \in any : at[j] \in 0 .. (S - 1) /\ tb.node[at[j]].key = k
  BY <1>2, <1>6
<1>8. ASSUME NEW i \in 0 .. (S - 1), Live(tb, i, k)
      PROVE  First(at, any) = i /\ First(at, alive) = i
  <2>1. PICK j \in 0 .. (S - 1) : at[j] = i BY <1>5, <1>8 DEF Live
  <2>2. i # Null BY <1>1 DEF Null
  <2>3. j \in any /\ j \in alive BY <1>6, <1>8, <2>1, <2>2 DEF Live
  <2>4. /\ Min(any) \in any /\ Min(any) <= j
        /\ Min(alive) \in alive
    BY <1>6, <2>3, MinIs
  <2>5. at[Min(alive)] = i
    <3>1. Live(tb, at[Min(alive)], k) /\ at[Min(alive)] \in 0 .. (S - 1)
      BY <1>7, <2>4 DEF Live
    <3> QED BY <1>1, <1>8, <3>1 DEF Live, Sound, Single
  <2>6. at[Min(any)] = i
    <3>1. at[Min(any)] \in 0 .. (S - 1) /\ tb.node[at[Min(any)]].key = k BY <1>7, <2>4
    <3>2. Leads(tb.node, at[Min(any)], i) BY <1>4, <1>6, <2>1, <2>2, <2>4
    <3> QED BY <1>1, <1>8, <3>1, <3>2 DEF Live, Sound, Single
  <2> QED BY <2>3, <2>5, <2>6 DEF First
<1>9. ASSUME \A i \in 0 .. (S - 1) : ~Live(tb, i, k)
      PROVE  First(at, alive) = Null
  <2>1. alive = {} BY <1>7, <1>9 DEF Live
  <2> QED BY <2>1 DEF First
<1>10. ASSUME First(at, any) # Null
       PROVE  First(at, any) \in 0 .. (S - 1) /\ tb.node[First(at, any)].key = k
  <2>1. any # {} /\ First(at, any) = at[Min(any)] BY <1>10 DEF First
  <2>2. Min(any) \in any BY <1>6, <2>1, MinIs
  <2> QED BY <1>7, <2>1, <2>2
<1> HIDE DEF any, alive
<1>11. /\ \A i \in 0 .. (S - 1) : Live(tb, i, k) => First(at, any) = i /\ First(at, alive) = i
       /\ (\A i \in 0 .. (S - 1) : ~Live(tb, i, k)) => First(at, alive) = Null
       /\ First(at, any) # Null =>
            First(at, any) \in 0 .. (S - 1) /\ tb.node[First(at, any)].key = k
  BY <1>8, <1>9, <1>10
<1> QED BY <1>11 DEF any, alive, at, m

\* FindNode answers the node of k that is not dead, or Null.
LEMMA FindIs ==
  ASSUME NEW tb, NEW S, Sound(tb, S), NEW k \in Keys
  PROVE  /\ \A i \in 0 .. (S - 1) : Live(tb, i, k) => FindNode(tb, k) = i
         /\ (\A i \in 0 .. (S - 1) : ~Live(tb, i, k)) => FindNode(tb, k) = Null
<1>1. mainposition(tb, k) = Main(S, k) BY MainIs DEF Sound, Typed
<1> QED BY <1>1, SearchIs DEF FindNode

\* What luaH_get answers.
LEMMA GetIs ==
  ASSUME NEW tb, NEW S, Sound(tb, S), NEW k \in Keys
  PROVE  /\ InArray(tb, k) => luaH_get(tb, k) = tb.array[k]
         /\ ~InArray(tb, k) =>
              /\ \A i \in 0 .. (S - 1) : Live(tb, i, k) => luaH_get(tb, k) = tb.node[i].val
              /\ (\A i \in 0 .. (S - 1) : ~Live(tb, i, k)) => luaH_get(tb, k) = Nil
<1>1. S \in Nat /\ -1 \notin 0 .. (S - 1) BY TypedIs DEF Sound
<1> QED BY <1>1, FindIs DEF luaH_get, Null

\* A value stands for its key wherever its node is.
LEMMA SameGet ==
  ASSUME NEW tb, NEW S, Sound(tb, S), NEW tb1, NEW S1, Sound(tb1, S1),
         NEW k \in Keys, ~InArray(tb, k), ~InArray(tb1, k),
         \A i \in 0 .. (S - 1) : tb.node[i].key = k /\ tb.node[i].val # Nil =>
           \E j \in 0 .. (S1 - 1) : tb1.node[j].key = k /\ tb1.node[j].val = tb.node[i].val,
         \A j \in 0 .. (S1 - 1) : tb1.node[j].key = k /\ tb1.node[j].val # Nil =>
           \E i \in 0 .. (S - 1) : tb.node[i].key = k /\ tb.node[i].val = tb1.node[j].val
  PROVE  luaH_get(tb1, k) = luaH_get(tb, k)
<1>1. /\ \A i \in 0 .. (S - 1) : tb.node[i].val # Nil => ~tb.node[i].dead
      /\ \A i \in 0 .. (S1 - 1) : tb1.node[i].val # Nil => ~tb1.node[i].dead
  BY DEF Sound, Single
<1>2. CASE luaH_get(tb, k) # Nil
  <2>1. PICK i \in 0 .. (S - 1) : Live(tb, i, k) /\ luaH_get(tb, k) = tb.node[i].val
    BY <1>2, GetIs
  <2>2. PICK j \in 0 .. (S1 - 1) : tb1.node[j].key = k /\ tb1.node[j].val = tb.node[i].val
    BY <1>2, <2>1 DEF Live
  <2>3. Live(tb1, j, k) BY <1>1, <1>2, <2>1, <2>2 DEF Live
  <2> QED BY <2>1, <2>2, <2>3, GetIs
<1>3. CASE luaH_get(tb1, k) # Nil
  <2>1. PICK i \in 0 .. (S1 - 1) : Live(tb1, i, k) /\ luaH_get(tb1, k) = tb1.node[i].val
    BY <1>3, GetIs
  <2>2. PICK j \in 0 .. (S - 1) : tb.node[j].key = k /\ tb.node[j].val = tb1.node[i].val
    BY <1>3, <2>1 DEF Live
  <2>3. Live(tb, j, k) BY <1>1, <1>3, <2>1, <2>2 DEF Live
  <2> QED BY <2>1, <2>2, <2>3, GetIs
<1> QED BY <1>2, <1>3

-----------------------------------------------------------------------------
(* A new key (newkey).                                                     *)

\* Chains depend on next only.
LEMMA SameLinks ==
  ASSUME NEW node, NEW node1, DOMAIN node1 = DOMAIN node,
         \A p \in DOMAIN node : node1[p].next = node[p].next
  PROVE  /\ \A a, b : Leads(node1, a, b) <=> Leads(node, a, b)
         /\ \A rank : Ranks(node1, rank) <=> Ranks(node, rank)
BY DEF Leads, Ranks

\* The facts about a sound table that every proof below starts from.
LEMMA Basics ==
  ASSUME NEW tb, NEW S, Sound(tb, S)
  PROVE  LET N == 0 .. (S - 1) IN
         /\ S \in Nat \ {0} /\ Shaped(tb, S) /\ Null \notin N
         /\ tb.node \in [N -> NodeType(S)] /\ DOMAIN tb.node = N
         /\ \A k \in Keys : k # Nil /\ Main(S, k) \in N
         /\ \A i \in N : tb.node[i] = [key |-> tb.node[i].key, dead |-> tb.node[i].dead,
                                       val |-> tb.node[i].val, next |-> tb.node[i].next]
         /\ \A i \in N : tb.node[i].key # Nil => tb.node[i].key \in Keys
         /\ \A i \in N : tb.node[i].next # Null => tb.node[i].next \in N
         /\ \A i \in N : tb.node[i].val \in Values \cup {Nil} /\ tb.node[i].dead \in BOOLEAN
<1> DEFINE N == 0 .. (S - 1)
<1>1. Typed(tb, S) /\ Nil \notin Keys BY TableAssumption DEF Sound
<1>2. S \in Nat \ {0} /\ Null \notin N BY <1>1, TypedIs DEF Null
<1>3. \A i \in N :
        /\ tb.node[i].key # Nil => tb.node[i].key \in Keys
        /\ tb.node[i].next # Null => tb.node[i].next \in N
        /\ tb.node[i].val \in Values \cup {Nil} /\ tb.node[i].dead \in BOOLEAN
        /\ tb.node[i] = [key |-> tb.node[i].key, dead |-> tb.node[i].dead,
                         val |-> tb.node[i].val, next |-> tb.node[i].next]
  BY <1>1, TypedIs
<1>4. Shaped(tb, S) /\ tb.node \in [N -> NodeType(S)] /\ DOMAIN tb.node = N BY <1>1, TypedIs
<1>5. \A k \in Keys : Main(S, k) \in N BY <1>4, MainIs
<1> QED BY <1>1, <1>2, <1>3, <1>4, <1>5

\* A node with some fields changed.
LEMMA KeyWith ==
  ASSUME NEW S, NEW nd \in NodeType(S), NEW k \in Keys
  PROVE  LET x == [nd EXCEPT !.key = k, !.dead = FALSE] IN
         /\ x \in NodeType(S) /\ x.key = k /\ x.dead = FALSE /\ x.val = nd.val /\ x.next = nd.next
BY DEF NodeType

\* A node with another value,
LEMMA ValWith ==
  ASSUME NEW S, NEW nd \in NodeType(S), NEW v \in Values \cup {Nil}
  PROVE  LET x == [nd EXCEPT !.val = v] IN
         /\ x \in NodeType(S) /\ x.key = nd.key /\ x.dead = nd.dead
         /\ x.val = v /\ x.next = nd.next
BY DEF NodeType

\* and with another link.
LEMMA NextWith ==
  ASSUME NEW S, NEW nd \in NodeType(S), NEW n \in 0 .. (S - 1) \cup {Null}
  PROVE  LET x == [nd EXCEPT !.next = n] IN
         /\ x \in NodeType(S) /\ x.key = nd.key /\ x.dead = nd.dead
         /\ x.val = nd.val /\ x.next = n
BY DEF NodeType

\* What newkey makes of tb: a node for k, and the other keys as they were,
\* but for one without a value.
Placed(tb, tb1, S, k) ==
  /\ Sound(tb1, S) /\ tb1.array = tb.array /\ tb1.dummy = tb.dummy
  /\ \E n \in 0 .. (S - 1) : Live(tb1, n, k) /\ tb1.node[n].val = Nil
  /\ \A i \in 0 .. (S - 1) : tb1.node[i].key # Nil =>
       \/ Live(tb1, i, k) /\ tb1.node[i].val = Nil
       \/ \E j \in 0 .. (S - 1) : /\ tb.node[j].key = tb1.node[i].key
                                  /\ tb.node[j].dead = tb1.node[i].dead
                                  /\ tb.node[j].val = tb1.node[i].val
  /\ \A j \in 0 .. (S - 1) : tb.node[j].val # Nil =>
       \E i \in 0 .. (S - 1) : /\ tb.node[j].key = tb1.node[i].key
                               /\ tb.node[j].dead = tb1.node[i].dead
                               /\ tb.node[j].val = tb1.node[i].val

\* The main position of k has no value: k takes it, with the chain.
LEMMA PlacedInMain ==
  ASSUME NEW tb, NEW S, Sound(tb, S), NEW k \in Keys, ~InArray(tb, k),
         \A i \in 0 .. (S - 1) : ~Live(tb, i, k), ~tb.dummy,
         NEW m, m = Main(S, k), tb.node[m].val = Nil
  PROVE  Placed(tb, [tb EXCEPT !.node[m] = [@ EXCEPT !.key = k, !.dead = FALSE]], S, k)
<1> DEFINE tb1 == [tb EXCEPT !.node[m] = [@ EXCEPT !.key = k, !.dead = FALSE]]
           N == 0 .. (S - 1)
<1>1. /\ S \in Nat \ {0} /\ Shaped(tb, S) /\ m \in N /\ k # Nil
      /\ tb.node \in [N -> NodeType(S)] /\ DOMAIN tb.node = N
      /\ \A i \in N : tb.node[i] = [key |-> tb.node[i].key, dead |-> tb.node[i].dead,
                                    val |-> tb.node[i].val, next |-> tb.node[i].next]
      /\ \A i \in N : tb.node[i].next # Null => tb.node[i].next \in N
      /\ \A i \in N : tb.node[i].key # Nil =>
                        tb.node[i].key \in Keys /\ Main(S, tb.node[i].key) \in N
  BY Basics
<1>2. /\ tb1.array = tb.array /\ tb1.dummy = tb.dummy /\ tb1.lastfree = tb.lastfree
      /\ Typed(tb1, S) /\ DOMAIN tb1.node = N
      /\ \A i \in N : i # m => tb1.node[i] = tb.node[i]
      /\ tb1.node[m].key = k /\ ~tb1.node[m].dead /\ tb1.node[m].val = Nil
      /\ \A i \in N : tb1.node[i].next = tb.node[i].next
  <2>1. tb \in [array : Seq(Values \cup {Nil}), node : [N -> NodeType(S)],
                lastfree : 0 .. S, dummy : BOOLEAN]
    BY DEF Sound, Typed
  <2>2. [tb.node[m] EXCEPT !.key = k, !.dead = FALSE] \in NodeType(S)
    BY <1>1, KeyWith
  <2>3. tb1 = [tb EXCEPT !.node = [@ EXCEPT ![m] = [tb.node[m] EXCEPT !.key = k, !.dead = FALSE]]]
    BY <2>1
  <2>4. tb1.node = [tb.node EXCEPT ![m] = [tb.node[m] EXCEPT !.key = k, !.dead = FALSE]]
        /\ tb1.array = tb.array /\ tb1.dummy = tb.dummy /\ tb1.lastfree = tb.lastfree
    BY <2>1, <2>3
  <2>5. tb1.node \in [N -> NodeType(S)] BY <1>1, <2>2, <2>4
  <2>6. tb1 \in [array : Seq(Values \cup {Nil}), node : [N -> NodeType(S)],
                lastfree : 0 .. S, dummy : BOOLEAN]
    BY <2>1, <2>3, <2>5
  <2>7. tb1.node[m] = [tb.node[m] EXCEPT !.key = k, !.dead = FALSE] BY <1>1, <2>4
  <2>8. tb1.node[m].key = k /\ ~tb1.node[m].dead /\ tb1.node[m].val = Nil
        /\ tb1.node[m].next = tb.node[m].next
    BY <1>1, <2>7
  <2>9. \A i \in N : i # m => tb1.node[i] = tb.node[i] BY <1>1, <2>4
  <2>10. Typed(tb1, S) BY <1>1, <2>5, <2>6 DEF Typed, Shaped
  <2> QED BY <1>1, <2>4, <2>5, <2>8, <2>9, <2>10
<1> HIDE DEF tb1
<1>3. /\ \A a, b : Leads(tb1.node, a, b) <=> Leads(tb.node, a, b)
      /\ \A rank : Ranks(tb1.node, rank) <=> Ranks(tb.node, rank)
  BY <1>1, <1>2, SameLinks
<1>4. \A x : InArray(tb1, x) <=> InArray(tb, x) BY <1>2 DEF InArray, sizearray
<1>5. ArrayOK(tb1) BY <1>2 DEF Sound, ArrayOK, sizearray
<1>6. Linked(tb1, S)
  <2>1. Linked(tb, S) BY DEF Sound
  <2>2. \A i \in N : tb1.node[i].key = Nil => tb1.node[i] = tb.node[i] BY <1>1, <1>2
  <2>3. \A i \in N : tb.node[i].key # Nil => tb1.node[i].key # Nil BY <1>1, <1>2
  <2>4. \A i \in N : tb.node[i].next # Null => tb.node[i].next \in N BY <1>1
  <2> QED BY <1>2, <1>3, <2>1, <2>2, <2>3, <2>4 DEF Linked
<1>7. Homed(tb1, S)
  <2> SUFFICES ASSUME NEW i \in N, tb1.node[i].key # Nil
               PROVE  /\ ~InArray(tb1, tb1.node[i].key)
                      /\ Leads(tb1.node, Main(S, tb1.node[i].key), i)
                      /\ tb1.node[Main(S, tb1.node[i].key)].key # Nil
                      /\ Main(S, tb1.node[Main(S, tb1.node[i].key)].key)
                         = Main(S, tb1.node[i].key)
    BY DEF Homed
  <2>3. tb1.node[i].key # Nil OBVIOUS
  <2>1. CASE i = m
    <3>1. Leads(tb1.node, m, m) BY DEF Leads
    <3> QED BY <1>1, <1>2, <1>4, <2>1, <3>1
  <2>2. CASE i # m
    <3>1. tb1.node[i] = tb.node[i] BY <1>2, <2>2
    <3>2. tb.node[i].key \in Keys /\ Main(S, tb.node[i].key) \in N
      BY <1>1, <2>3, <3>1
    <3>3. CASE Main(S, tb.node[i].key) = m
      <4>1. /\ ~InArray(tb, tb.node[i].key) /\ Leads(tb.node, Main(S, tb.node[i].key), i)
        BY <2>3, <3>1 DEF Sound, Homed
      <4>2. Leads(tb1.node, Main(S, tb.node[i].key), i) /\ ~InArray(tb1, tb.node[i].key)
        BY <1>3, <1>4, <4>1
      <4>3. tb1.node[m].key = k /\ k # Nil /\ Main(S, k) = m BY <1>1, <1>2
      <4> QED BY <3>1, <3>3, <4>2, <4>3
    <3>4. CASE Main(S, tb.node[i].key) # m
      <4>1. tb1.node[Main(S, tb.node[i].key)] = tb.node[Main(S, tb.node[i].key)]
        BY <1>2, <3>2, <3>4
      <4> QED BY <1>3, <1>4, <2>3, <3>1, <4>1 DEF Sound, Homed
    <3> QED BY <3>3, <3>4
  <2> QED BY <2>1, <2>2
<1>8. \A j \in N : j # m /\ tb.node[j].key = k => tb.node[j].dead /\ ~Leads(tb.node, j, m)
  <2> SUFFICES ASSUME NEW j \in N, j # m, tb.node[j].key = k
               PROVE  tb.node[j].dead /\ ~Leads(tb.node, j, m)
    OBVIOUS
  <2>1. tb.node[j].dead BY DEF Live
  <2>2. Leads(tb.node, m, j) BY <1>1 DEF Sound, Homed
  <2>3. PICK rank : Ranks(tb.node, rank) BY DEF Sound, Linked
  <2>4. rank[m] < rank[j] /\ rank[m] \in Nat /\ rank[j] \in Nat
    BY <1>1, <2>2, <2>3, LeadsUp DEF Ranks
  <2>5. ASSUME Leads(tb.node, j, m) PROVE FALSE
    <3>1. rank[j] < rank[m] BY <1>1, <2>3, <2>5, LeadsUp
    <3> QED BY <2>4, <3>1
  <2> QED BY <2>1, <2>5
<1>9. Single(tb1, S)
  <2>1. \A i \in N : tb1.node[i].dead => tb1.node[i].val = Nil
    BY <1>2 DEF Sound, Single
  <2>2. ASSUME NEW i \in N, NEW j \in N, i # j, tb1.node[i].key = tb1.node[j].key,
               tb1.node[i].key # Nil, ~tb1.node[i].dead
        PROVE  tb1.node[j].dead /\ ~Leads(tb1.node, j, i)
    <3>1. CASE i = m BY <1>2, <1>3, <1>8, <2>2, <3>1
    <3>2. CASE j = m
      <4>1. tb.node[i].key = k /\ ~tb.node[i].dead BY <1>2, <2>2, <3>2
      <4> QED BY <4>1 DEF Live
    <3>3. CASE i # m /\ j # m BY <1>2, <1>3, <2>2, <3>3 DEF Sound, Single
    <3> QED BY <3>1, <3>2, <3>3
  <2> QED BY <2>1, <2>2 DEF Single
<1>10. FreeBelow(tb1, S)
  BY <1>1, <1>2 DEF Sound, FreeBelow
<1>11. Sound(tb1, S) BY <1>2, <1>5, <1>6, <1>7, <1>9, <1>10 DEF Sound
<1>12. Live(tb1, m, k) /\ tb1.node[m].val = Nil BY <1>2 DEF Live
<1>13. \A i \in N : i # m => /\ tb.node[i].key = tb1.node[i].key
                             /\ tb.node[i].dead = tb1.node[i].dead
                             /\ tb.node[i].val = tb1.node[i].val
  BY <1>2
<1>14. Placed(tb, tb1, S, k)
  <2>1. \A i \in N : \/ Live(tb1, i, k) /\ tb1.node[i].val = Nil
                     \/ \E j \in N : /\ tb.node[j].key = tb1.node[i].key
                                     /\ tb.node[j].dead = tb1.node[i].dead
                                     /\ tb.node[j].val = tb1.node[i].val
    BY <1>12, <1>13
  <2>2. \A j \in N : tb.node[j].val # Nil => j # m OBVIOUS
  <2> QED BY <1>1, <1>2, <1>11, <1>12, <1>13, <2>1, <2>2 DEF Placed
<1> QED BY <1>14 DEF tb1

-----------------------------------------------------------------------------
\* Chains of one graph that are chains of another.
LEMMA LeadsMap ==
  ASSUME NEW node, NEW node1, NEW D \in SUBSET DOMAIN node, NEW f,
         \A x \in D : node[x].next # Null =>
           node[x].next \in D /\ Leads(node1, f[x], f[node[x].next]),
         NEW a \in D, NEW b, Leads(node, a, b)
  PROVE  b \in D /\ Leads(node1, f[a], f[b])
<1>1. b \in D BY DEF Leads
<1>2. ASSUME NEW X1 \in SUBSET DOMAIN node1, f[a] \in X1,
             \A p \in X1 : node1[p].next # Null => node1[p].next \in X1
      PROVE  f[b] \in X1
  <2> DEFINE X == {x \in D : f[x] \in X1}
  <2>1. \A x \in X : node[x].next # Null => node[x].next \in X
    <3> SUFFICES ASSUME NEW x \in X, node[x].next # Null PROVE node[x].next \in X
      OBVIOUS
    <3>1. node[x].next \in D /\ Leads(node1, f[x], f[node[x].next]) OBVIOUS
    <3>2. f[node[x].next] \in X1 BY <1>2, <3>1 DEF Leads
    <3> QED BY <3>1, <3>2
  <2>2. a \in X /\ X \in SUBSET DOMAIN node BY <1>2
  <2>3. b \in X BY <2>1, <2>2 DEF Leads
  <2> QED BY <2>3
<1> QED BY <1>1, <1>2 DEF Leads

\* A chain leads to its first two nodes.
LEMMA LeadsStep ==
  ASSUME NEW node, NEW a
  PROVE  /\ Leads(node, a, a)
         /\ node[a].next # Null => Leads(node, a, node[a].next)
BY DEF Leads

\* The key in main position m is a colliding one: it moves to the free node n
\* with its place in the chain, and k takes m.
LEMMA PlacedByMove ==
  ASSUME NEW tb, NEW S, Sound(tb, S), NEW k \in Keys, ~InArray(tb, k),
         \A i \in 0 .. (S - 1) : ~Live(tb, i, k), ~tb.dummy,
         NEW m, m = Main(S, k), tb.node[m].val # Nil, Main(S, tb.node[m].key) # m,
         NEW n \in 0 .. (S - 1), tb.node[n].key = Nil,
         \A i \in 0 .. (S - 1) : i > n => tb.node[i].key # Nil,
         NEW p \in 0 .. (S - 1), tb.node[p].next = m,
         NEW tb1, Typed(tb1, S), tb1.array = tb.array, tb1.dummy = tb.dummy,
         tb1.lastfree = n,
         tb1.node[p].key = tb.node[p].key, tb1.node[p].dead = tb.node[p].dead,
         tb1.node[p].val = tb.node[p].val, tb1.node[p].next = n,
         tb1.node[n] = tb.node[m],
         tb1.node[m].key = k, ~tb1.node[m].dead, tb1.node[m].val = Nil,
         tb1.node[m].next = Null,
         \A i \in (0 .. (S - 1)) \ {p, n, m} : tb1.node[i] = tb.node[i]
  PROVE  Placed(tb, tb1, S, k)
<1> DEFINE N == 0 .. (S - 1)
           h == tb.node[m].key
<1>1. /\ S \in Nat \ {0} /\ m \in N /\ Null \notin N /\ k # Nil
      /\ DOMAIN tb.node = N /\ DOMAIN tb1.node = N
      /\ \A i \in N : tb.node[i].next # Null => tb.node[i].next \in N
      /\ \A i \in N : tb.node[i].key # Nil =>
                        tb.node[i].key \in Keys /\ Main(S, tb.node[i].key) \in N
  BY Basics, TypedIs
<1>2. PICK rank : Ranks(tb.node, rank) BY DEF Sound, Linked
<1>3. /\ \A i \in N : rank[i] \in Nat
      /\ \A i \in N : tb.node[i].next # Null => rank[i] < rank[tb.node[i].next]
  BY <1>1, <1>2 DEF Ranks
<1>4. /\ \A i \in N : tb.node[i].key = Nil => tb.node[i].next = Null /\ tb.node[i].val = Nil
      /\ \A i \in N : tb.node[i].next # Null => tb.node[tb.node[i].next].key # Nil
      /\ \A i, j \in N :
           i # j /\ tb.node[i].next # Null => tb.node[i].next # tb.node[j].next
  BY DEF Sound, Linked
<1>5. /\ h # Nil /\ p # n /\ p # m /\ m # n
      /\ \A i \in N : tb.node[i].next # n
      /\ \A i \in N : i # p => tb.node[i].next # m
  <2>1. h # Nil BY <1>1, <1>4
  <2>2. m # n /\ tb.node[n].next = Null BY <1>4, <2>1
  <2>3. m # Null BY <1>1
  <2>4. p # n /\ p # m
    <3>1. rank[p] < rank[m] /\ rank[m] \in Nat BY <1>1, <1>3, <2>3
    <3> QED BY <2>2, <2>3, <3>1
  <2>5. \A i \in N : tb.node[i].next # n BY <1>1, <1>4
  <2>6. \A i \in N : i # p => tb.node[i].next # m BY <1>4, <2>3
  <2> QED BY <2>1, <2>2, <2>4, <2>5, <2>6
<1> HIDE DEF N
<1>6. \A i \in N : /\ i \notin {p, n, m} => tb1.node[i].next = tb.node[i].next
                   /\ tb1.node[n].next = tb.node[m].next
                   /\ tb1.node[p].next = n /\ tb1.node[m].next = Null
  BY DEF N
\* The main position of every key that stays is not m.
<1>7. /\ \A i \in N : tb.node[i].key # Nil =>
           LET c == Main(S, tb.node[i].key) IN
           /\ c \in N /\ c # m /\ c # n /\ ~InArray(tb, tb.node[i].key)
           /\ Leads(tb.node, c, i) /\ tb.node[c].key # Nil
           /\ Main(S, tb.node[c].key) = c
  <2> SUFFICES ASSUME NEW i \in N, tb.node[i].key # Nil
               PROVE  LET c == Main(S, tb.node[i].key) IN
                      /\ c \in N /\ c # m /\ c # n /\ ~InArray(tb, tb.node[i].key)
                      /\ Leads(tb.node, c, i) /\ tb.node[c].key # Nil
                      /\ Main(S, tb.node[c].key) = c
    OBVIOUS
  <2>1. LET c == Main(S, tb.node[i].key) IN
        /\ ~InArray(tb, tb.node[i].key) /\ Leads(tb.node, c, i) /\ tb.node[c].key # Nil
        /\ Main(S, tb.node[c].key) = c
    BY DEF Sound, Homed, N
  <2>2. Main(S, tb.node[i].key) \in N BY <1>1
  <2> QED BY <2>1, <2>2
<1>8. \A i \in N : tb.node[i].key # k BY <1>1, <1>7
<1>9. \A x : InArray(tb1, x) <=> InArray(tb, x) BY DEF InArray, sizearray
<1>10. \A i \in N : /\ i # m /\ i # n => /\ tb1.node[i].key = tb.node[i].key
                                         /\ tb1.node[i].dead = tb.node[i].dead
                                         /\ tb1.node[i].val = tb.node[i].val
  BY DEF N
\* The chains, which go through n where they went through m.
<1>11. ASSUME NEW a \in N \ {n}, a # m, NEW b \in N \ {n}, Leads(tb.node, a, b)
       PROVE  Leads(tb1.node, a, IF b = m THEN n ELSE b)
  <2> DEFINE f == [x \in N \ {n} |-> IF x = m THEN n ELSE x]
  <2>1. \A x \in N \ {n} : tb.node[x].next # Null =>
          tb.node[x].next \in N \ {n} /\ Leads(tb1.node, f[x], f[tb.node[x].next])
    <3> SUFFICES ASSUME NEW x \in N \ {n}, tb.node[x].next # Null
                 PROVE  /\ tb.node[x].next \in N \ {n}
                        /\ Leads(tb1.node, f[x], f[tb.node[x].next])
      OBVIOUS
    <3>1. tb.node[x].next \in N \ {n} BY <1>1, <1>5
    <3>2. tb1.node[f[x]].next = f[tb.node[x].next]
      <4>1. CASE x = m
        <5>1. tb.node[m].next # m BY <1>1, <1>5, <3>1
        <5> QED BY <1>6, <3>1, <4>1, <5>1
      <4>2. CASE x = p BY <1>1, <1>5, <1>6, <3>1, <4>2
      <4>3. CASE x # m /\ x # p BY <1>1, <1>5, <1>6, <3>1, <4>3
      <4> QED BY <4>1, <4>2, <4>3
    <3>3. f[tb.node[x].next] # Null BY <1>1, <3>1 DEF N
    <3> QED BY <3>1, <3>2, <3>3, LeadsStep
  <2>2. N \ {n} \in SUBSET DOMAIN tb.node BY <1>1
  <2>3. f[a] = a /\ f[b] = IF b = m THEN n ELSE b BY <1>11
  <2> HIDE DEF f
  <2>4. Leads(tb1.node, f[a], f[b]) BY <1>11, <2>1, <2>2, LeadsMap
  <2> QED BY <2>3, <2>4
<1>12. ASSUME NEW a \in N \ {m}, NEW b \in N \ {m}, Leads(tb1.node, a, b)
       PROVE  Leads(tb.node, IF a = n THEN m ELSE a, IF b = n THEN m ELSE b)
  <2> DEFINE f == [x \in N \ {m} |-> IF x = n THEN m ELSE x]
  <2>1. \A x \in N \ {m} : tb1.node[x].next # Null =>
          tb1.node[x].next \in N \ {m} /\ Leads(tb.node, f[x], f[tb1.node[x].next])
    <3> SUFFICES ASSUME NEW x \in N \ {m}, tb1.node[x].next # Null
                 PROVE  /\ tb1.node[x].next \in N \ {m}
                        /\ Leads(tb.node, f[x], f[tb1.node[x].next])
      OBVIOUS
    <3>0. n \in N BY DEF N
    <3>1. tb1.node[x].next \in N \ {m} /\ tb.node[f[x]].next = f[tb1.node[x].next]
      <4>1. CASE x = n
        <5>1. tb1.node[n].next = tb.node[m].next /\ tb.node[m].next \in N BY <1>1, <1>6, <4>1
        <5>2. tb.node[m].next # m /\ tb.node[m].next # n BY <1>1, <1>5
        <5> QED BY <4>1, <5>1, <5>2
      <4>2. CASE x = p
        <5>1. tb1.node[x].next = n BY <4>2
        <5>2. f[n] = m /\ f[x] = x BY <1>5, <3>0, <4>2
        <5> QED BY <1>5, <3>0, <4>2, <5>1, <5>2
      <4>3. CASE x # n /\ x # p
        <5>1. tb1.node[x].next = tb.node[x].next BY <1>6, <4>3
        <5>2. tb.node[x].next \in N /\ tb.node[x].next # m /\ tb.node[x].next # n
          BY <1>1, <1>5, <4>3, <5>1
        <5> QED BY <4>3, <5>1, <5>2
      <4> QED BY <4>1, <4>2, <4>3
    <3>2. f[tb1.node[x].next] # Null BY <1>1, <3>1
    <3> QED BY <3>1, <3>2, LeadsStep
  <2>2. N \ {m} \in SUBSET DOMAIN tb1.node BY <1>1
  <2>3. f[a] = (IF a = n THEN m ELSE a) /\ f[b] = IF b = n THEN m ELSE b OBVIOUS
  <2> HIDE DEF f
  <2>4. Leads(tb.node, f[a], f[b]) BY <1>12, <2>1, <2>2, LeadsMap
  <2> QED BY <2>3, <2>4
<1>13. Linked(tb1, S)
  <2>1. \A i \in N : tb1.node[i].key = Nil => /\ tb1.node[i].next = Null /\ tb1.node[i].val = Nil
                                              /\ ~tb1.node[i].dead
    <3> SUFFICES ASSUME NEW i \in N, tb1.node[i].key = Nil
                 PROVE  i \notin {m, n, p}
      BY DEF Sound, Linked, N
    <3>1. tb.node[p].key # Nil BY <1>1, <1>4 DEF N
    <3> QED BY <1>1, <1>5, <3>1
  <2>2. \A i \in N : tb.node[i].key # Nil => tb1.node[i].key # Nil BY <1>1, <1>5, <1>10
  <2>3. \A i \in N : tb1.node[i].next # Null => tb1.node[tb1.node[i].next].key # Nil
    <3> SUFFICES ASSUME NEW i \in N, tb1.node[i].next # Null
                 PROVE  tb1.node[tb1.node[i].next].key # Nil
      OBVIOUS
    <3>1. CASE i = p
      <4>1. tb1.node[i].next = n BY <3>1
      <4>2. tb1.node[n].key = h BY Zenon
      <4> QED BY <1>5, <4>1, <4>2
    <3>2. CASE i = n
      <4>1. tb1.node[i].next = tb.node[m].next BY <1>6, <3>2
      <4>2. tb.node[m].next \in N /\ tb.node[tb.node[m].next].key # Nil BY <1>1, <1>4, <4>1
      <4> QED BY <2>2, <4>1, <4>2
    <3>3. CASE i # p /\ i # n BY <1>1, <1>4, <1>6, <2>2, <3>3
    <3> QED BY <3>1, <3>2, <3>3
  <2>4. \A i, j \in N : i # j /\ tb1.node[i].next # Null => tb1.node[i].next # tb1.node[j].next
    <3> SUFFICES ASSUME NEW i \in N, NEW j \in N, i # j, tb1.node[i].next # Null,
                        tb1.node[i].next = tb1.node[j].next
                 PROVE  FALSE
      OBVIOUS
    <3>1. i # m /\ j # m BY <1>6
    <3>2. CASE i = p \/ j = p
      <4>1. PICK x \in {i, j} : x # p /\ tb1.node[x].next = n BY <3>2
      <4>2. x \in N /\ x # m BY <3>1
      <4> QED BY <1>1, <1>5, <1>6, <4>1, <4>2
    <3>3. CASE i # p /\ j # p
      <4>1. CASE i # n /\ j # n BY <1>4, <1>6, <3>1, <3>3, <4>1
      <4>2. CASE i = n
        <5>1. tb.node[m].next = tb.node[j].next /\ tb.node[m].next # Null
          BY <1>6, <3>1, <3>3, <4>2
        <5> QED BY <1>1, <1>4, <3>1, <5>1
      <4>3. CASE j = n
        <5>1. tb.node[m].next = tb.node[i].next /\ tb.node[m].next # Null
          BY <1>6, <3>1, <3>3, <4>3
        <5> QED BY <1>1, <1>4, <3>1, <5>1
      <4> QED BY <4>1, <4>2, <4>3
    <3> QED BY <3>2, <3>3
  <2>5. Ranks(tb1.node, [i \in N |-> IF i = n THEN rank[m] ELSE rank[i]])
    <3> DEFINE rank1 == [i \in N |-> IF i = n THEN rank[m] ELSE rank[i]]
    <3>1. rank1 \in [N -> Nat] BY <1>1, <1>3
    <3>2. \A i \in N : rank1[i] = IF i = n THEN rank[m] ELSE rank[i] OBVIOUS
    <3> HIDE DEF rank1
    <3>3. ASSUME NEW i \in N, tb1.node[i].next # Null PROVE rank1[i] < rank1[tb1.node[i].next]
      <4>0. n \in N /\ p \in N BY DEF N
      <4>1. CASE i = p
        <5>1. rank[p] < rank[m] BY <1>1, <1>3, <4>0
        <5> QED BY <1>5, <3>2, <4>0, <4>1, <5>1
      <4>2. CASE i = n
        <5>1. rank[m] < rank[tb.node[m].next] /\ tb.node[m].next \in N /\ tb.node[m].next # n
          BY <1>1, <1>3, <1>5, <1>6, <3>3, <4>2
        <5> QED BY <1>6, <3>2, <4>0, <4>2, <5>1
      <4>3. CASE i # p /\ i # n
        <5>1. tb1.node[i].next = tb.node[i].next BY <1>6, <3>3, <4>3
        <5>2. rank[i] < rank[tb.node[i].next] /\ tb.node[i].next \in N /\ tb.node[i].next # n
          BY <1>1, <1>3, <1>5, <3>3, <5>1
        <5> QED BY <3>2, <4>3, <5>1, <5>2
      <4> QED BY <4>1, <4>2, <4>3
    <3>4. Ranks(tb1.node, rank1) BY <1>1, <3>1, <3>3 DEF Ranks
    <3> QED BY <3>4 DEF rank1
  <2> QED BY <2>1, <2>3, <2>4, <2>5 DEF Linked, N
<1>14. Homed(tb1, S)
  <2> SUFFICES ASSUME NEW i \in N, tb1.node[i].key # Nil
               PROVE  /\ ~InArray(tb1, tb1.node[i].key)
                      /\ Leads(tb1.node, Main(S, tb1.node[i].key), i)
                      /\ tb1.node[Main(S, tb1.node[i].key)].key # Nil
                      /\ Main(S, tb1.node[Main(S, tb1.node[i].key)].key)
                         = Main(S, tb1.node[i].key)
    BY DEF Homed, N
  <2>1. CASE i = m BY <1>1, <1>9, <2>1, LeadsStep
  <2>2. ASSUME NEW j \in N, tb1.node[i].key = tb.node[j].key, tb.node[j].key # Nil,
               i = IF j = m THEN n ELSE j, j # n
        PROVE  /\ ~InArray(tb1, tb1.node[i].key)
               /\ Leads(tb1.node, Main(S, tb1.node[i].key), i)
               /\ tb1.node[Main(S, tb1.node[i].key)].key # Nil
               /\ Main(S, tb1.node[Main(S, tb1.node[i].key)].key)
                  = Main(S, tb1.node[i].key)
    <3> DEFINE c == Main(S, tb.node[j].key)
    <3>1. /\ c \in N /\ c # m /\ c # n /\ ~InArray(tb, tb.node[j].key)
          /\ Leads(tb.node, c, j) /\ tb.node[c].key # Nil /\ Main(S, tb.node[c].key) = c
      BY <1>7, <2>2
    <3> HIDE DEF c
    <3>2. Leads(tb1.node, c, i) BY <1>11, <2>2, <3>1
    <3>3. tb1.node[c].key = tb.node[c].key BY <1>10, <3>1
    <3> QED BY <1>9, <2>2, <3>1, <3>2, <3>3 DEF c
  <2>3. CASE i = n BY <1>1, <1>5, <2>2, <2>3
  <2>4. CASE i # m /\ i # n
    <3>1. tb1.node[i].key = tb.node[i].key BY <1>10, <2>4
    <3> QED BY <2>2, <2>4, <3>1
  <2> QED BY <2>1, <2>3, <2>4
<1>15. Single(tb1, S)
  <2>1. \A i \in N : tb1.node[i].dead => tb1.node[i].val = Nil
    <3>1. \A i \in N : tb.node[i].dead => tb.node[i].val = Nil BY DEF Sound, Single, N
    <3> QED BY <1>1, <1>10, <3>1
  <2>2. ASSUME NEW i \in N, NEW j \in N, i # j, tb1.node[i].key = tb1.node[j].key,
               tb1.node[i].key # Nil, ~tb1.node[i].dead
        PROVE  tb1.node[j].dead /\ ~Leads(tb1.node, j, i)
    <3>1. i # m /\ j # m BY <1>1, <1>8, <1>10, <2>2
    <3> DEFINE u == IF i = n THEN m ELSE i
               v == IF j = n THEN m ELSE j
    <3>2. /\ u \in N /\ v \in N /\ u # v /\ tb.node[u].key = tb1.node[i].key
          /\ tb.node[v].key = tb1.node[j].key
          /\ tb.node[u].dead = tb1.node[i].dead /\ tb.node[v].dead = tb1.node[j].dead
      BY <1>1, <1>10, <2>2, <3>1
    <3>3. Leads(tb1.node, j, i) => Leads(tb.node, v, u) BY <1>12, <3>1
    <3> HIDE DEF u, v
    <3>4. tb.node[v].dead /\ ~Leads(tb.node, v, u)
      BY <2>2, <3>2 DEF Sound, Single, N
    <3> QED BY <3>2, <3>3, <3>4
  <2> QED BY <2>1, <2>2 DEF Single, N
<1>16. Sound(tb1, S)
  <2>1. ArrayOK(tb1) BY DEF Sound, ArrayOK, sizearray
  <2>2. FreeBelow(tb1, S)
    <3>1. \A i \in N : i >= n => tb1.node[i].key # Nil
      <4>0. n \in Nat BY <1>1 DEF N
      <4>1. \A i \in N : i >= n /\ i # n => i > n BY <1>1, <4>0 DEF N
      <4>2. \A i \in N : i # n /\ i >= n => tb.node[i].key # Nil BY <4>1 DEF N
      <4> QED BY <1>1, <1>5, <1>10, <4>2
    <3> QED BY <3>1 DEF FreeBelow, N
  <2> QED BY <1>13, <1>14, <1>15, <2>1, <2>2 DEF Sound
<1> QED
  <2>1. Live(tb1, m, k) /\ tb1.node[m].val = Nil /\ m \in N BY <1>1 DEF Live
  <2>2. \A i \in N : i # m => \E j \in N :
          /\ tb.node[j].key = tb1.node[i].key /\ tb.node[j].dead = tb1.node[i].dead
          /\ tb.node[j].val = tb1.node[i].val
    BY <1>1, <1>10
  <2>3. \A j \in N : tb.node[j].val # Nil => \E i \in N :
          /\ tb.node[j].key = tb1.node[i].key /\ tb.node[j].dead = tb1.node[i].dead
          /\ tb.node[j].val = tb1.node[i].val
    <3> SUFFICES ASSUME NEW j \in N, tb.node[j].val # Nil
                 PROVE  \E i \in N : /\ tb.node[j].key = tb1.node[i].key
                                     /\ tb.node[j].dead = tb1.node[i].dead
                                     /\ tb.node[j].val = tb1.node[i].val
      OBVIOUS
    <3>1. j # n BY <1>4
    <3>2. n \in N BY DEF N
    <3>3. CASE j = m BY <3>2, <3>3
    <3>4. CASE j # m BY <1>10, <3>1, <3>4
    <3> QED BY <3>3, <3>4
  <2> QED BY <1>16, <2>1, <2>2, <2>3 DEF Placed, N

-----------------------------------------------------------------------------
\* The key in main position m is at home: k takes the free node n and comes
\* second in its chain.
LEMMA PlacedInChain ==
  ASSUME NEW tb, NEW S, Sound(tb, S), NEW k \in Keys, ~InArray(tb, k),
         \A i \in 0 .. (S - 1) : ~Live(tb, i, k), ~tb.dummy,
         NEW m, m = Main(S, k), tb.node[m].val # Nil, Main(S, tb.node[m].key) = m,
         NEW n \in 0 .. (S - 1), tb.node[n].key = Nil,
         \A i \in 0 .. (S - 1) : i > n => tb.node[i].key # Nil,
         NEW tb1, Typed(tb1, S), tb1.array = tb.array, tb1.dummy = tb.dummy,
         tb1.lastfree = n,
         tb1.node[m].key = tb.node[m].key, tb1.node[m].dead = tb.node[m].dead,
         tb1.node[m].val = tb.node[m].val, tb1.node[m].next = n,
         tb1.node[n].key = k, ~tb1.node[n].dead, tb1.node[n].val = Nil,
         tb1.node[n].next = tb.node[m].next,
         \A i \in (0 .. (S - 1)) \ {n, m} : tb1.node[i] = tb.node[i]
  PROVE  Placed(tb, tb1, S, k)
<1> DEFINE N == 0 .. (S - 1)
<1>1. /\ S \in Nat \ {0} /\ m \in N /\ Null \notin N /\ k # Nil
      /\ DOMAIN tb.node = N /\ DOMAIN tb1.node = N
      /\ \A i \in N : tb.node[i].next # Null => tb.node[i].next \in N
      /\ \A i \in N : tb.node[i].key # Nil =>
                        tb.node[i].key \in Keys /\ Main(S, tb.node[i].key) \in N
  BY Basics, TypedIs
<1>2. PICK rank : Ranks(tb.node, rank) BY DEF Sound, Linked
<1>3. /\ \A i \in N : rank[i] \in Nat
      /\ \A i \in N : tb.node[i].next # Null => rank[i] < rank[tb.node[i].next]
  BY <1>1, <1>2 DEF Ranks
<1>4. /\ \A i \in N : tb.node[i].key = Nil => tb.node[i].next = Null /\ tb.node[i].val = Nil
      /\ \A i \in N : tb.node[i].next # Null => tb.node[tb.node[i].next].key # Nil
      /\ \A i, j \in N :
           i # j /\ tb.node[i].next # Null => tb.node[i].next # tb.node[j].next
  BY DEF Sound, Linked
<1>5. /\ tb.node[m].key # Nil /\ m # n /\ \A i \in N : tb.node[i].next # n
      /\ tb.node[n].val = Nil
  <2>1. tb.node[m].key # Nil BY <1>1, <1>4
  <2>2. \A i \in N : tb.node[i].next # n BY <1>1, <1>4
  <2> QED BY <1>4, <2>1, <2>2
<1>a. tb.node \in [N -> NodeType(S)] BY Basics
<1> HIDE DEF N
<1>0. n \in N BY DEF N
<1>6. \A i \in N : /\ i \notin {n, m} => tb1.node[i].next = tb.node[i].next
                   /\ tb1.node[m].next = n /\ tb1.node[n].next = tb.node[m].next
  BY DEF N
<1>7. \A x : InArray(tb1, x) <=> InArray(tb, x) BY DEF InArray, sizearray
<1>8. \A i \in N : i # n => /\ tb1.node[i].key = tb.node[i].key
                            /\ tb1.node[i].dead = tb.node[i].dead
                            /\ tb1.node[i].val = tb.node[i].val
  BY DEF N
\* The chains are the old ones, with n after m.
<1>9. ASSUME NEW a \in N \ {n}, NEW b \in N, Leads(tb.node, a, b)
      PROVE  Leads(tb1.node, a, b)
  <2> DEFINE f == [x \in N |-> x]
  <2>1. \A x \in N \ {n} : tb.node[x].next # Null =>
          tb.node[x].next \in N \ {n} /\ Leads(tb1.node, f[x], f[tb.node[x].next])
    <3> SUFFICES ASSUME NEW x \in N \ {n}, tb.node[x].next # Null
                 PROVE  /\ tb.node[x].next \in N \ {n}
                        /\ Leads(tb1.node, x, tb.node[x].next)
      BY <1>1
    <3>1. tb.node[x].next \in N \ {n} BY <1>1, <1>5
    <3>2. CASE x = m
      <4>1. tb1.node[x].next = n /\ n # Null /\ tb1.node[n].next = tb.node[x].next
        BY <1>0, <1>1, <1>6, <3>2
      <4>2. Leads(tb1.node, x, n) /\ Leads(tb1.node, n, tb.node[x].next) BY <4>1, LeadsStep
      <4> QED BY <3>1, <4>2 DEF Leads
    <3>3. CASE x # m
      <4>1. tb1.node[x].next = tb.node[x].next BY <1>6, <3>3
      <4> QED BY <3>1, <4>1, LeadsStep
    <3> QED BY <3>1, <3>2, <3>3
  <2>2. N \ {n} \in SUBSET DOMAIN tb.node BY <1>1
  <2>3. f[a] = a /\ f[b] = b BY <1>9
  <2> HIDE DEF f
  <2>4. Leads(tb1.node, f[a], f[b]) BY <1>9, <2>1, <2>2, LeadsMap
  <2> QED BY <2>3, <2>4
<1>10. ASSUME NEW a \in N, NEW b \in N, Leads(tb1.node, a, b)
       PROVE  Leads(tb.node, IF a = n THEN m ELSE a, IF b = n THEN m ELSE b)
  <2> DEFINE f == [x \in N |-> IF x = n THEN m ELSE x]
  <2>1. \A x \in N : tb1.node[x].next # Null =>
          tb1.node[x].next \in N /\ Leads(tb.node, f[x], f[tb1.node[x].next])
    <3> SUFFICES ASSUME NEW x \in N, tb1.node[x].next # Null
                 PROVE  tb1.node[x].next \in N /\ Leads(tb.node, f[x], f[tb1.node[x].next])
      OBVIOUS
    <3>1. CASE x = m
      <4>1. tb1.node[x].next = n /\ f[x] = m /\ f[n] = m BY <1>0, <1>5, <3>1
      <4> QED BY <1>0, <4>1, LeadsStep
    <3>2. CASE x # m
      <4> DEFINE u == f[x]
      <4>1. tb1.node[x].next = tb.node[u].next /\ u \in N
        BY <1>0, <1>1, <1>6, <3>2
      <4>2. tb.node[u].next \in N /\ tb.node[u].next # n BY <1>1, <1>5, <4>1
      <4>3. f[tb1.node[x].next] = tb.node[u].next BY <4>1, <4>2
      <4> QED BY <4>1, <4>2, <4>3, LeadsStep
    <3> QED BY <3>1, <3>2
  <2>2. N \in SUBSET DOMAIN tb1.node BY <1>1
  <2>3. f[a] = (IF a = n THEN m ELSE a) /\ f[b] = IF b = n THEN m ELSE b OBVIOUS
  <2> HIDE DEF f
  <2>4. Leads(tb.node, f[a], f[b]) BY <1>10, <2>1, <2>2, LeadsMap
  <2> QED BY <2>3, <2>4
<1>13. Linked(tb1, S)
  <2>1. \A i \in N : tb1.node[i].key = Nil => /\ tb1.node[i].next = Null /\ tb1.node[i].val = Nil
                                              /\ ~tb1.node[i].dead
    <3> SUFFICES ASSUME NEW i \in N, tb1.node[i].key = Nil
                 PROVE  i \notin {m, n}
      BY DEF Sound, Linked, N
    <3> QED BY <1>1, <1>5
  <2>2. \A i \in N : tb.node[i].key # Nil => tb1.node[i].key # Nil BY <1>1, <1>8
  <2>3. \A i \in N : tb1.node[i].next # Null => tb1.node[tb1.node[i].next].key # Nil
    <3> SUFFICES ASSUME NEW i \in N, tb1.node[i].next # Null
                 PROVE  tb1.node[tb1.node[i].next].key # Nil
      OBVIOUS
    <3>1. CASE i = m
      <4>1. tb1.node[i].next = n BY <3>1
      <4> QED BY <1>1, <4>1
    <3>2. CASE i = n
      <4>1. tb1.node[i].next = tb.node[m].next BY <1>6, <3>2
      <4>2. tb.node[m].next \in N /\ tb.node[tb.node[m].next].key # Nil BY <1>1, <1>4, <4>1
      <4> QED BY <2>2, <4>1, <4>2
    <3>3. CASE i # m /\ i # n BY <1>1, <1>4, <1>6, <2>2, <3>3
    <3> QED BY <3>1, <3>2, <3>3
  <2>4. \A i, j \in N : i # j /\ tb1.node[i].next # Null => tb1.node[i].next # tb1.node[j].next
    <3> SUFFICES ASSUME NEW i \in N, NEW j \in N, i # j, tb1.node[i].next # Null,
                        tb1.node[i].next = tb1.node[j].next
                 PROVE  FALSE
      OBVIOUS
    <3>1. CASE i = m \/ j = m
      <4>1. PICK x \in {i, j} : x # m /\ tb1.node[x].next = n BY <3>1
      <4>2. x \in N OBVIOUS
      <4> QED BY <1>1, <1>5, <1>6, <4>1, <4>2
    <3>2. CASE i # m /\ j # m
      <4>1. CASE i # n /\ j # n BY <1>4, <1>6, <3>2, <4>1
      <4>2. CASE i = n
        <5>1. tb.node[m].next = tb.node[j].next /\ tb.node[m].next # Null
          BY <1>6, <3>2, <4>2
        <5> QED BY <1>1, <1>4, <3>2, <5>1
      <4>3. CASE j = n
        <5>1. tb.node[m].next = tb.node[i].next /\ tb.node[m].next # Null
          BY <1>6, <3>2, <4>3
        <5> QED BY <1>1, <1>4, <3>2, <5>1
      <4> QED BY <4>1, <4>2, <4>3
    <3> QED BY <3>1, <3>2
  <2>5. \E rank1 : Ranks(tb1.node, rank1)
    <3> DEFINE rank1 == [i \in N |-> IF i = n THEN 2 * rank[m] + 1 ELSE 2 * rank[i]]
    <3>1. rank1 \in [N -> Nat] BY <1>1, <1>3
    <3>2. \A i \in N : rank1[i] = IF i = n THEN 2 * rank[m] + 1 ELSE 2 * rank[i] OBVIOUS
    <3> HIDE DEF rank1
    <3>3. ASSUME NEW i \in N, tb1.node[i].next # Null PROVE rank1[i] < rank1[tb1.node[i].next]
      <4>1. CASE i = m BY <1>0, <1>1, <1>3, <1>5, <3>2, <4>1
      <4>2. CASE i = n
        <5>1. rank[m] < rank[tb.node[m].next] /\ tb.node[m].next \in N /\ tb.node[m].next # n
          BY <1>1, <1>3, <1>5, <1>6, <3>3, <4>2
        <5>2. rank[m] \in Nat /\ rank[tb.node[m].next] \in Nat BY <1>1, <1>3, <5>1
        <5>3. 2 * rank[m] + 1 < 2 * rank[tb.node[m].next] BY <5>1, <5>2
        <5> QED BY <1>6, <1>0, <3>2, <4>2, <5>1, <5>3
      <4>3. CASE i # m /\ i # n
        <5>1. tb1.node[i].next = tb.node[i].next BY <1>6, <3>3, <4>3
        <5>2. rank[i] < rank[tb.node[i].next] /\ tb.node[i].next \in N /\ tb.node[i].next # n
          BY <1>1, <1>3, <1>5, <3>3, <5>1
        <5>3. rank[i] \in Nat /\ rank[tb.node[i].next] \in Nat BY <1>1, <1>3, <5>2
        <5> QED BY <3>2, <4>3, <5>1, <5>2, <5>3
      <4> QED BY <4>1, <4>2, <4>3
    <3>4. Ranks(tb1.node, rank1) BY <1>1, <3>1, <3>3 DEF Ranks
    <3> QED BY <3>4
  <2> QED BY <2>1, <2>3, <2>4, <2>5 DEF Linked, N
<1>14. Homed(tb1, S)
  <2> SUFFICES ASSUME NEW i \in N, tb1.node[i].key # Nil
               PROVE  /\ ~InArray(tb1, tb1.node[i].key)
                      /\ Leads(tb1.node, Main(S, tb1.node[i].key), i)
                      /\ tb1.node[Main(S, tb1.node[i].key)].key # Nil
                      /\ Main(S, tb1.node[Main(S, tb1.node[i].key)].key)
                         = Main(S, tb1.node[i].key)
    BY DEF Homed, N
  <2>1. CASE i = n
    <3>1. Leads(tb1.node, m, n)
      <4>1. tb1.node[m].next = n /\ n # Null BY <1>0, <1>1
      <4> QED BY <4>1, LeadsStep
    <3>2. tb1.node[i].key = k /\ tb1.node[m].key = tb.node[m].key BY <2>1
    <3> QED BY <1>5, <1>7, <2>1, <3>1, <3>2
  <2>2. CASE i # n
    <3> DEFINE c == Main(S, tb.node[i].key)
    <3>0. tb1.node[i].key = tb.node[i].key BY <1>8, <2>2
    <3>1. /\ ~InArray(tb, tb.node[i].key)
          /\ Leads(tb.node, c, i) /\ tb.node[c].key # Nil /\ Main(S, tb.node[c].key) = c
      BY <3>0 DEF Sound, Homed, N
    <3>2. c \in N /\ c # n BY <1>1, <3>0, <3>1
    <3> HIDE DEF c
    <3>3. Leads(tb1.node, c, i) BY <1>9, <3>1, <3>2
    <3>4. tb1.node[c].key = tb.node[c].key BY <1>8, <3>2
    <3> QED BY <1>7, <3>0, <3>1, <3>3, <3>4 DEF c
  <2> QED BY <2>1, <2>2
<1>15. Single(tb1, S)
  <2>1. \A i \in N : tb1.node[i].dead => tb1.node[i].val = Nil
    <3>1. \A i \in N : tb.node[i].dead => tb.node[i].val = Nil BY DEF Sound, Single, N
    <3> QED BY <1>1, <1>8, <3>1
  <2>2. ASSUME NEW i \in N, NEW j \in N, i # j, tb1.node[i].key = tb1.node[j].key,
               tb1.node[i].key # Nil, ~tb1.node[i].dead
        PROVE  tb1.node[j].dead /\ ~Leads(tb1.node, j, i)
    <3>1. CASE i = n
      <4>1. tb.node[j].key = k /\ tb1.node[j].dead = tb.node[j].dead BY <1>8, <2>2, <3>1
      <4>2. tb.node[j].dead BY <4>1 DEF Live, N
      <4>3. j # m BY <4>2 DEF Sound, Single, N
      <4>4. Leads(tb.node, m, j) BY <1>1, <4>1 DEF Sound, Homed, N
      <4>5. rank[m] < rank[j] /\ rank[m] \in Nat /\ rank[j] \in Nat
        BY <1>a, <1>1, <1>2, <1>3, <4>3, <4>4, LeadsUp DEF N
      <4>6. ASSUME Leads(tb1.node, j, i) PROVE FALSE
        <5>1. Leads(tb.node, j, m) BY <1>10, <2>2, <3>1, <4>6
        <5>2. rank[j] < rank[m] BY <1>a, <1>1, <1>2, <4>3, <5>1, LeadsUp DEF N
        <5> QED BY <4>5, <5>2
      <4> QED BY <4>1, <4>2, <4>6
    <3>2. CASE j = n
      <4>1. tb.node[i].key = k /\ ~tb.node[i].dead BY <1>8, <2>2, <3>2
      <4> QED BY <4>1 DEF Live, N
    <3>3. CASE i # n /\ j # n
      <4>1. /\ tb.node[i].key = tb1.node[i].key /\ tb.node[j].key = tb1.node[j].key
            /\ tb.node[i].dead = tb1.node[i].dead /\ tb.node[j].dead = tb1.node[j].dead
        BY <1>8, <3>3
      <4>2. tb.node[j].dead /\ ~Leads(tb.node, j, i)
        BY <2>2, <4>1 DEF Sound, Single, N
      <4> QED BY <1>10, <3>3, <4>1, <4>2
    <3> QED BY <3>1, <3>2, <3>3
  <2> QED BY <2>1, <2>2 DEF Single, N
<1>16. Sound(tb1, S)
  <2>1. ArrayOK(tb1) BY DEF Sound, ArrayOK, sizearray
  <2>2. FreeBelow(tb1, S)
    <3>1. \A i \in N : i >= n => tb1.node[i].key # Nil
      <4>0. n \in Nat BY <1>1 DEF N
      <4>1. \A i \in N : i >= n /\ i # n => i > n BY <1>1, <4>0 DEF N
      <4>2. \A i \in N : i # n /\ i >= n => tb.node[i].key # Nil BY <4>1 DEF N
      <4> QED BY <1>1, <1>8, <4>2
    <3> QED BY <3>1 DEF FreeBelow, N
  <2> QED BY <1>13, <1>14, <1>15, <2>1, <2>2 DEF Sound
<1> QED
  <2>1. Live(tb1, n, k) /\ tb1.node[n].val = Nil /\ n \in N BY <1>0 DEF Live
  <2>2. \A i \in N : i # n => \E j \in N :
          /\ tb.node[j].key = tb1.node[i].key /\ tb.node[j].dead = tb1.node[i].dead
          /\ tb.node[j].val = tb1.node[i].val
    BY <1>8
  <2>3. \A j \in N : tb.node[j].val # Nil => \E i \in N :
          /\ tb.node[j].key = tb1.node[i].key /\ tb.node[j].dead = tb1.node[i].dead
          /\ tb.node[j].val = tb1.node[i].val
    BY <1>5, <1>8
  <2> QED BY <1>16, <2>1, <2>2, <2>3 DEF Placed, N

-----------------------------------------------------------------------------
\* The table that the second case of newkey makes: the node in m, whose main
\* position is another one, moves to n, p points to it there, and k takes m.
Moved(tb, k, m, n, p) ==
  [tb EXCEPT !.lastfree = n,
             !.node[p].next = n,
             !.node[n] = tb.node[m],
             !.node[m] = [[@ EXCEPT !.key = k, !.dead = FALSE] EXCEPT !.next = Null, !.val = Nil]]

\* tb1 is that table, field by field.
IsMoved(tb, tb1, S, k, m, n, p) ==
  /\ Typed(tb1, S) /\ tb1.array = tb.array /\ tb1.dummy = tb.dummy
  /\ tb1.lastfree = n
  /\ tb1.node[p].key = tb.node[p].key /\ tb1.node[p].dead = tb.node[p].dead
  /\ tb1.node[p].val = tb.node[p].val /\ tb1.node[p].next = n
  /\ tb1.node[n] = tb.node[m]
  /\ tb1.node[m].key = k /\ ~tb1.node[m].dead /\ tb1.node[m].val = Nil
  /\ tb1.node[m].next = Null
  /\ \A i \in (0 .. (S - 1)) \ {p, n, m} : tb1.node[i] = tb.node[i]

\* Moved, field by field.
LEMMA MovedIs ==
  ASSUME NEW tb, NEW S, Typed(tb, S), NEW k \in Keys,
         NEW m \in 0 .. (S - 1), NEW n \in 0 .. (S - 1), NEW p \in 0 .. (S - 1),
         p # n, p # m, m # n
  PROVE  IsMoved(tb, Moved(tb, k, m, n, p), S, k, m, n, p)
<1> DEFINE tb1 == Moved(tb, k, m, n, p)
           N == 0 .. (S - 1)
           R == [array : Seq(Values \cup {Nil}), node : [N -> NodeType(S)],
                 lastfree : 0 .. S, dummy : BOOLEAN]
           nd1 == [tb.node EXCEPT ![p].next = n]
           nd2 == [nd1 EXCEPT ![n] = tb.node[m]]
           x == [[nd2[m] EXCEPT !.key = k, !.dead = FALSE] EXCEPT !.next = Null, !.val = Nil]
           nd3 == [nd2 EXCEPT ![m] = x]
<1>1. tb.node \in [N -> NodeType(S)] /\ tb \in R /\ n \in 0 .. S /\ S \in Nat \ {0}
  BY TypedIs DEF Typed
<1>0. tb.node[p] \in NodeType(S) /\ n \in 0 .. (S - 1) \cup {Null} BY <1>1
<1>2. tb1.node = nd3 BY <1>1 DEF Moved
<1>3. tb1.array = tb.array /\ tb1.dummy = tb.dummy /\ tb1.lastfree = n BY <1>1 DEF Moved
<1>4. /\ nd1 \in [N -> NodeType(S)] /\ nd1[p].key = tb.node[p].key
      /\ nd1[p].dead = tb.node[p].dead /\ nd1[p].val = tb.node[p].val /\ nd1[p].next = n
      /\ \A i \in N \ {p} : nd1[i] = tb.node[i]
  <2>1. LET y == [tb.node[p] EXCEPT !.next = n] IN
        /\ y \in NodeType(S) /\ y.key = tb.node[p].key /\ y.dead = tb.node[p].dead
        /\ y.val = tb.node[p].val /\ y.next = n
    BY <1>0, NextWith
  <2>3. nd1 = [tb.node EXCEPT ![p] = [tb.node[p] EXCEPT !.next = n]] OBVIOUS
  <2> QED BY <1>1, <2>1, <2>3
<1>5. nd2 \in [N -> NodeType(S)] /\ nd2[n] = tb.node[m] /\ \A i \in N \ {n} : nd2[i] = nd1[i]
  BY <1>1, <1>4
<1>6. nd2[m] \in NodeType(S) BY <1>5
<1>7. x \in NodeType(S) /\ x.key = k /\ x.dead = FALSE /\ x.next = Null /\ x.val = Nil
  <2> HIDE DEF nd2
  <2> DEFINE y == [nd2[m] EXCEPT !.key = k, !.dead = FALSE]
  <2>1. y \in NodeType(S) /\ y.key = k /\ y.dead = FALSE BY <1>6 DEF NodeType
  <2> HIDE DEF y
  <2>2. LET z == [y EXCEPT !.next = Null, !.val = Nil] IN
        z \in NodeType(S) /\ z.key = y.key /\ z.dead = y.dead /\ z.next = Null /\ z.val = Nil
    BY <2>1 DEF NodeType
  <2> QED BY <2>1, <2>2 DEF y
<1>8. nd3 \in [N -> NodeType(S)] /\ nd3[m] = x /\ \A i \in N \ {m} : nd3[i] = nd2[i]
  BY <1>5, <1>7
<1>9. Typed(tb1, S)
  <2>1. tb1 \in R
    <3>1. /\ tb.array \in Seq(Values \cup {Nil}) /\ tb.dummy \in BOOLEAN
      BY <1>1
    <3> HIDE DEF nd3
    <3>2. tb1 = [tb EXCEPT !.lastfree = n, !.node = nd3] BY DEF nd3, Moved
    <3> QED BY <1>1, <1>8, <3>2
  <2> QED BY <1>1, <1>2, <1>8, <2>1 DEF Typed, Shaped
<1> HIDE DEF nd1, nd2, nd3, x
<1>10. \A i \in N \ {p, n, m} : tb1.node[i] = tb.node[i] BY <1>2, <1>4, <1>5, <1>8
<1>11. tb1.node[p] = nd1[p] /\ tb1.node[n] = tb.node[m] /\ tb1.node[m] = x
  BY <1>2, <1>5, <1>8
<1> HIDE DEF tb1
<1>12. IsMoved(tb, tb1, S, k, m, n, p)
  <2>1. tb1.node[p].key = tb.node[p].key /\ tb1.node[p].dead = tb.node[p].dead
        /\ tb1.node[p].val = tb.node[p].val /\ tb1.node[p].next = n
    BY <1>4, <1>11
  <2>2. tb1.node[m].key = k /\ ~tb1.node[m].dead /\ tb1.node[m].val = Nil
        /\ tb1.node[m].next = Null
    BY <1>7, <1>11
  <2> QED BY <1>3, <1>9, <1>10, <1>11, <2>1, <2>2 DEF IsMoved
<1> QED BY <1>12 DEF tb1

\* The table that the third case of newkey makes: k in the free node n, after m in its chain.
Chained(tb, k, m, n) ==
  [tb EXCEPT !.lastfree = n,
             !.node[n] = [[@ EXCEPT !.key = k, !.dead = FALSE] EXCEPT !.next = tb.node[m].next],
             !.node[m].next = n]

\* tb1 is that table, field by field.
IsChained(tb, tb1, S, k, m, n) ==
  /\ Typed(tb1, S) /\ tb1.array = tb.array /\ tb1.dummy = tb.dummy
  /\ tb1.lastfree = n
  /\ tb1.node[m].key = tb.node[m].key /\ tb1.node[m].dead = tb.node[m].dead
  /\ tb1.node[m].val = tb.node[m].val /\ tb1.node[m].next = n
  /\ tb1.node[n].key = k /\ ~tb1.node[n].dead /\ tb1.node[n].val = tb.node[n].val
  /\ tb1.node[n].next = tb.node[m].next
  /\ \A i \in (0 .. (S - 1)) \ {n, m} : tb1.node[i] = tb.node[i]

\* Chained, field by field.
LEMMA ChainedIs ==
  ASSUME NEW tb, NEW S, Typed(tb, S), NEW k \in Keys,
         NEW m \in 0 .. (S - 1), NEW n \in 0 .. (S - 1), m # n
  PROVE  IsChained(tb, Chained(tb, k, m, n), S, k, m, n)
<1> DEFINE tb1 == Chained(tb, k, m, n)
           N == 0 .. (S - 1)
           R == [array : Seq(Values \cup {Nil}), node : [N -> NodeType(S)],
                 lastfree : 0 .. S, dummy : BOOLEAN]
           x == [[tb.node[n] EXCEPT !.key = k, !.dead = FALSE] EXCEPT !.next = tb.node[m].next]
           nd1 == [tb.node EXCEPT ![n] = x]
           nd2 == [nd1 EXCEPT ![m].next = n]
<1>1. tb.node \in [N -> NodeType(S)] /\ tb \in R /\ n \in 0 .. S /\ S \in Nat \ {0}
      /\ tb.node[m].next \in N \cup {Null}
  <2>1. Typed(tb, S) OBVIOUS
  <2>2. tb.node \in [N -> NodeType(S)] /\ S \in Nat \ {0} /\ tb.node[m].next \in N \cup {Null}
    BY <2>1, TypedIs
  <2>3. n \in 0 .. S BY <2>2
  <2> QED BY <2>2, <2>3 DEF Typed
<1>0. tb.node[m] \in NodeType(S) /\ tb.node[n] \in NodeType(S) /\ n \in N \cup {Null} BY <1>1
<1>2. tb1.node = nd2 BY <1>1 DEF Chained
<1>3. tb1.array = tb.array /\ tb1.dummy = tb.dummy /\ tb1.lastfree = n BY <1>1 DEF Chained
<1>4. /\ x \in NodeType(S) /\ x.key = k /\ x.dead = FALSE /\ x.next = tb.node[m].next
      /\ x.val = tb.node[n].val
  <2> DEFINE y == [tb.node[n] EXCEPT !.key = k, !.dead = FALSE]
  <2>1. y \in NodeType(S) /\ y.key = k /\ y.dead = FALSE /\ y.val = tb.node[n].val
    BY <1>0 DEF NodeType
  <2>a. tb.node[m].next \in 0 .. (S - 1) \cup {Null} BY <1>1
  <2> HIDE DEF y, x, nd1, nd2, tb1, N, R
  <2>2. LET z == [y EXCEPT !.next = tb.node[m].next] IN
        /\ z \in NodeType(S) /\ z.key = y.key /\ z.dead = y.dead
        /\ z.val = y.val /\ z.next = tb.node[m].next
    BY <2>1, <2>a, NextWith
  <2> USE DEF x
  <2> QED BY <2>1, <2>2 DEF y
<1>5. nd1 \in [N -> NodeType(S)] /\ nd1[n] = x /\ \A i \in N \ {n} : nd1[i] = tb.node[i]
  BY <1>1, <1>4
<1>6. /\ nd2 \in [N -> NodeType(S)] /\ nd2[m].key = tb.node[m].key
      /\ nd2[m].dead = tb.node[m].dead /\ nd2[m].val = tb.node[m].val /\ nd2[m].next = n
      /\ \A i \in N \ {m} : nd2[i] = nd1[i]
  <2>0. nd1[m] = tb.node[m] BY <1>5
  <2>1. LET y == [tb.node[m] EXCEPT !.next = n] IN
        /\ y \in NodeType(S) /\ y.key = tb.node[m].key /\ y.dead = tb.node[m].dead
        /\ y.val = tb.node[m].val /\ y.next = n
    BY <1>0, NextWith
  <2>3. nd2 = [nd1 EXCEPT ![m] = [tb.node[m] EXCEPT !.next = n]] BY <2>0
  <2> HIDE DEF nd1
  <2> QED BY <1>5, <2>1, <2>3
<1>7. Typed(tb1, S)
  <2>1. tb1 \in R
    <3>1. /\ tb.array \in Seq(Values \cup {Nil}) /\ tb.dummy \in BOOLEAN
      BY <1>1
    <3> HIDE DEF nd2
    <3>2. tb1 = [tb EXCEPT !.lastfree = n, !.node = nd2] BY DEF nd2, Chained
    <3> QED BY <1>1, <1>6, <3>2
  <2> QED BY <1>1, <1>2, <1>6, <2>1 DEF Typed, Shaped
<1> HIDE DEF nd1, nd2, x
<1>8. \A i \in N \ {n, m} : tb1.node[i] = tb.node[i] BY <1>2, <1>5, <1>6
<1>9. tb1.node[m] = nd2[m] /\ tb1.node[n] = x BY <1>2, <1>5, <1>6
<1> HIDE DEF tb1
<1>10. IsChained(tb, tb1, S, k, m, n)
  <2>1. tb1.node[m].key = tb.node[m].key /\ tb1.node[m].dead = tb.node[m].dead
        /\ tb1.node[m].val = tb.node[m].val /\ tb1.node[m].next = n
    BY <1>6, <1>9
  <2>2. tb1.node[n].key = k /\ ~tb1.node[n].dead /\ tb1.node[n].val = tb.node[n].val
        /\ tb1.node[n].next = tb.node[m].next
    BY <1>4, <1>9
  <2> QED BY <1>3, <1>7, <1>8, <2>1, <2>2 DEF IsChained
<1> QED BY <1>10 DEF tb1

\* The last free node, and that there is none left when getfreepos fails.
LEMMA FreePosIs ==
  ASSUME NEW tb, NEW S, Sound(tb, S), ~tb.dummy
  PROVE  /\ FreePos(tb) # Null =>
              /\ FreePos(tb) \in 0 .. (S - 1) /\ tb.node[FreePos(tb)].key = Nil
              /\ \A i \in 0 .. (S - 1) : i > FreePos(tb) => tb.node[i].key # Nil
         /\ FreePos(tb) = Null => \A i \in 0 .. (S - 1) : tb.node[i].key # Nil
<1> DEFINE N == 0 .. (S - 1)
           free == {i \in 0 .. (tb.lastfree - 1) : tb.node[i].key = Nil}
<1>1. S \in Nat \ {0} /\ Null \notin N /\ tb.lastfree \in 0 .. S BY Basics, TypedIs DEF Sound
<1>2. \A i \in N : i >= tb.lastfree => tb.node[i].key # Nil BY DEF Sound, FreeBelow
<1>3. free \subseteq 0 .. S /\ free \subseteq N BY <1>1
<1>4. CASE free = {}
  <2>1. \A i \in N : i < tb.lastfree => i \in 0 .. (tb.lastfree - 1) BY <1>1
  <2>2. \A i \in N : tb.node[i].key # Nil BY <1>1, <1>2, <1>4, <2>1
  <2> QED BY <1>4, <2>2 DEF FreePos
<1>5. CASE free # {}
  <2>1. Max(free) \in free /\ \A x \in free : x <= Max(free)
    <3> HIDE DEF free
    <3> QED BY <1>1, <1>3, <1>5, MaxIs
  <2>2. FreePos(tb) = Max(free) BY <1>5 DEF FreePos
  <2>3. \A i \in N : i > Max(free) => tb.node[i].key # Nil
    <3> SUFFICES ASSUME NEW i \in N, i > Max(free), tb.node[i].key = Nil PROVE FALSE
      OBVIOUS
    <3>1. i < tb.lastfree BY <1>1, <1>2
    <3>2. i \in free BY <1>1, <3>1
    <3> QED BY <1>1, <1>3, <2>1, <3>2
  <2> QED BY <1>1, <1>3, <2>1, <2>2, <2>3
<1> QED BY <1>4, <1>5

\* A chain reaches the nodes it leads to.
LEMMA SoundReaches ==
  ASSUME NEW tb, NEW S, Sound(tb, S), NEW n \in 0 .. (S - 1), NEW i \in 0 .. (S - 1),
         Leads(tb.node, n, i)
  PROVE  \E j \in 0 .. (S - 1) : Chain(tb, n)[j] = i
<1>1. Shaped(tb, S) BY Basics
<1>2. PICK rank : Ranks(tb.node, rank) BY DEF Sound, Linked
<1> QED BY <1>1, <1>2, ChainReaches

\* The node before main position m in the chain of the key that m holds.
LEMMA PreviousIs ==
  ASSUME NEW tb, NEW S, Sound(tb, S), NEW m \in 0 .. (S - 1), tb.node[m].key # Nil,
         Main(S, tb.node[m].key) # m
  PROVE  Previous(tb, m) \in 0 .. (S - 1) /\ tb.node[Previous(tb, m)].next = m
<1> DEFINE N == 0 .. (S - 1)
           c == Main(S, tb.node[m].key)
           at == Chain(tb, c)
<1>1. /\ S \in Nat \ {0} /\ Shaped(tb, S) /\ c \in N /\ Null \notin N
      /\ mainposition(tb, tb.node[m].key) = c
  BY Basics, MainIs
<1>2. Leads(tb.node, c, m) BY DEF Sound, Homed
<1>3. /\ at \in [N -> N \cup {Null}] /\ at[0] = c
      /\ \A i \in 1 .. (S - 1) :
           at[i] = IF at[i - 1] = Null THEN Null ELSE tb.node[at[i - 1]].next
  <2> HIDE DEF c
  <2>1. Shaped(tb, S) /\ c \in 0 .. (S - 1) BY <1>1
  <2> QED BY <2>1, ChainIs
<1>4. PICK j \in N : at[j] = m BY <1>1, <1>2, SoundReaches
<1> HIDE DEF at
<1>5. j # 0 BY <1>3, <1>4
<1>6. j \in 1 .. (S - 1) /\ j - 1 \in N BY <1>1, <1>5
<1>7. at[j - 1] # Null /\ tb.node[at[j - 1]].next = m BY <1>1, <1>3, <1>4, <1>6
<1>8. DOMAIN at = N BY <1>3
<1>9. Previous(tb, m) = at[CHOOSE i \in DOMAIN at : at[i] # Null /\ tb.node[at[i]].next = m]
  BY <1>1 DEF Previous, at
<1>10. \E i \in DOMAIN at : at[i] # Null /\ tb.node[at[i]].next = m BY <1>6, <1>7, <1>8
<1>11. PICK i \in N : Previous(tb, m) = at[i] /\ at[i] # Null /\ tb.node[at[i]].next = m
  BY <1>8, <1>9, <1>10
<1> QED BY <1>3, <1>11

\* newkey.
LEMMA PlaceKeyIs ==
  ASSUME NEW tb, NEW S, Sound(tb, S), NEW k \in Keys, ~InArray(tb, k),
         \A i \in 0 .. (S - 1) : ~Live(tb, i, k), ~MustRehash(tb, k)
  PROVE  Placed(tb, PlaceKey(tb, k), S, k)
<1> DEFINE N == 0 .. (S - 1)
           m == Main(S, k)
           n == FreePos(tb)
<1>1. m \in N /\ mainposition(tb, k) = m /\ \A x : mainposition(tb, x) = Main(S, x)
  BY Basics, MainIs
<1>2. ~tb.dummy
  <2>1. tb.dummy => FreePos(tb) = Null BY DEF FreePos
  <2> QED BY <2>1 DEF MustRehash
<1>3. CASE tb.node[m].val = Nil
  <2>1. PlaceKey(tb, k) = [tb EXCEPT !.node[m] = [@ EXCEPT !.key = k, !.dead = FALSE]]
    BY <1>1, <1>3 DEF PlaceKey
  <2> HIDE DEF m
  <2>2. m = Main(S, k) BY DEF m
  <2>3. Placed(tb, [tb EXCEPT !.node[m] = [@ EXCEPT !.key = k, !.dead = FALSE]], S, k)
    BY <1>2, <1>3, <2>2, PlacedInMain
  <2> QED BY <2>1, <2>3
<1>4. CASE tb.node[m].val # Nil
  <2>1. n # Null BY <1>1, <1>4 DEF MustRehash
  <2>2. n \in N /\ tb.node[n].key = Nil /\ \A i \in N : i > n => tb.node[i].key # Nil
    BY <1>2, <2>1, FreePosIs
  <2>3. tb.node[m].key # Nil BY <1>1, <1>4 DEF Sound, Linked
  <2>4. Typed(tb, S) /\ m # n /\ tb.node[n].val = Nil /\ tb.node[n].next = Null /\ m # Null
    BY <1>1, <2>2, <2>3, Basics DEF Sound, Linked
  <2>5. CASE Main(S, tb.node[m].key) # m
    <3> DEFINE p == Previous(tb, m)
    <3>1. p \in N /\ tb.node[p].next = m BY <1>1, <2>3, <2>5, PreviousIs
    <3>2. p # n BY <2>4, <3>1
    <3>3. p # m
      <4>1. PICK rank : Ranks(tb.node, rank) BY DEF Sound, Linked
      <4>2. DOMAIN tb.node = N BY Basics
      <4>3. rank[p] < rank[m] /\ rank[m] \in Nat BY <1>1, <2>4, <3>1, <4>1, <4>2 DEF Ranks
      <4> QED BY <4>3
    <3>4. PlaceKey(tb, k) = Moved(tb, k, m, n, p)
      BY <1>1, <1>4, <2>5 DEF PlaceKey, Moved
    <3> DEFINE tb1 == Moved(tb, k, m, n, p)
    <3> HIDE DEF m, n, p
    <3>5. IsMoved(tb, tb1, S, k, m, n, p)
      <4>2. m \in 0 .. (S - 1) /\ n \in 0 .. (S - 1) /\ p \in 0 .. (S - 1) BY <1>1, <2>2, <3>1
      <4>3. Typed(tb, S) /\ p # n /\ p # m /\ m # n BY <2>4, <3>2, <3>3
      <4> QED BY <4>2, <4>3, MovedIs
    <3> HIDE DEF tb1
    <3>6. m = Main(S, k) BY DEF m
    <3>7. Placed(tb, tb1, S, k)
      BY <1>2, <1>4, <2>2, <2>5, <3>1, <3>5, <3>6, PlacedByMove DEF IsMoved
    <3> QED BY <3>4, <3>7 DEF tb1
  <2>6. CASE Main(S, tb.node[m].key) = m
    <3>4. PlaceKey(tb, k) = Chained(tb, k, m, n)
      BY <1>1, <1>4, <2>6 DEF PlaceKey, Chained
    <3> DEFINE tb1 == Chained(tb, k, m, n)
    <3> HIDE DEF m, n
    <3>5. IsChained(tb, tb1, S, k, m, n)
      <4>2. m \in 0 .. (S - 1) /\ n \in 0 .. (S - 1) BY <1>1, <2>2
      <4>3. Typed(tb, S) /\ m # n BY <2>4
      <4> QED BY <4>2, <4>3, ChainedIs
    <3> HIDE DEF tb1
    <3>6. m = Main(S, k) /\ tb1.node[n].val = Nil BY <2>4, <3>5 DEF m, IsChained
    <3>7. Placed(tb, tb1, S, k)
      BY <1>2, <1>4, <2>2, <2>6, <3>5, <3>6, PlacedInChain DEF IsChained
    <3> QED BY <3>4, <3>7 DEF tb1
  <2> QED BY <2>5, <2>6
<1> QED BY <1>3, <1>4

-----------------------------------------------------------------------------
(* An assignment to a slot.                                                *)

\* The nodes have the same keys and links.
SameLayout(tb, tb1, S) ==
  /\ sizearray(tb1) = sizearray(tb)
  /\ \A i \in 0 .. (S - 1) : /\ tb1.node[i].key = tb.node[i].key
                             /\ tb1.node[i].next = tb.node[i].next

\* tb1 maps k to v, and every other key as tb does.
Updated(tb, tb1, S, k, v) ==
  /\ Sound(tb1, S) /\ sizearray(tb1) = sizearray(tb) /\ tb1.dummy = tb.dummy
  /\ luaH_get(tb1, k) = v
  /\ \A x \in Keys \ {k} : luaH_get(tb1, x) = luaH_get(tb, x)

\* No node has a key and no value.
NoGaps(tb, S) == \A i \in 0 .. (S - 1) : tb.node[i].key # Nil => tb.node[i].val # Nil

\* An assignment to a slot of the array part, and to node n.
SetArray(tb, k, v) == [tb EXCEPT !.array[k] = v]
SetNode(tb, n, v) == [tb EXCEPT !.node[n].val = v]

\* A slot of the array part.
LEMMA SetArrayIs ==
  ASSUME NEW tb, NEW S, Sound(tb, S), NEW k \in Keys, InArray(tb, k),
         NEW v \in Values \cup {Nil}
  PROVE  /\ Updated(tb, SetArray(tb, k, v), S, k, v) /\ SameLayout(tb, SetArray(tb, k, v), S)
         /\ NoGaps(tb, S) => NoGaps(SetArray(tb, k, v), S)
<1> DEFINE N == 0 .. (S - 1)
           tb1 == SetArray(tb, k, v)
           V == Values \cup {Nil}
<1>1. /\ tb \in [array : Seq(V), node : [N -> NodeType(S)], lastfree : 0 .. S, dummy : BOOLEAN]
      /\ Typed(tb, S) /\ S \in Nat
  BY Basics DEF Sound, Typed
<1>2. k \in IntKeys /\ k \in Nat /\ k >= 1 /\ k <= sizearray(tb) /\ sizearray(tb) \in Nat
  BY <1>1, TypedIs, TableAssumption DEF InArray
<1>3. tb1.node = tb.node /\ tb1.lastfree = tb.lastfree /\ tb1.dummy = tb.dummy
      /\ tb1.array = [tb.array EXCEPT ![k] = v]
  BY <1>1 DEF SetArray
<1>4. /\ tb1.array \in Seq(V) /\ Len(tb1.array) = Len(tb.array)
      /\ \A i \in 1 .. Len(tb.array) : tb1.array[i] = IF i = k THEN v ELSE tb.array[i]
  BY <1>1, <1>2, <1>3, ExceptSeq DEF sizearray
<1>5. tb1 \in [array : Seq(V), node : [N -> NodeType(S)], lastfree : 0 .. S, dummy : BOOLEAN]
  <2>1. tb1 = [tb EXCEPT !.array = [tb.array EXCEPT ![k] = v]] BY <1>1 DEF SetArray
  <2> QED BY <1>1, <1>3, <1>4, <2>1
<1>6. Typed(tb1, S) BY <1>1, <1>3, <1>5 DEF Typed, Shaped
<1> HIDE DEF tb1
<1>7. sizearray(tb1) = sizearray(tb) /\ \A x : InArray(tb1, x) <=> InArray(tb, x)
  BY <1>4 DEF InArray, sizearray
<1>8. ArrayOK(tb1)
  <2>1. ArrayOK(tb) BY DEF Sound
  <2>2. \A i \in 1 .. sizearray(tb) : tb1.array[i] # Nil => i \in IntKeys
    BY <1>2, <1>4, <2>1 DEF ArrayOK, sizearray
  <2> QED BY <1>7, <2>1, <2>2 DEF ArrayOK
<1>9. Sound(tb1, S)
  <2>1. Linked(tb1, S) BY <1>3 DEF Sound, Linked
  <2>2. Homed(tb1, S) BY <1>3, <1>7 DEF Sound, Homed
  <2>3. Single(tb1, S) BY <1>3 DEF Sound, Single
  <2>4. FreeBelow(tb1, S) BY <1>3 DEF Sound, FreeBelow
  <2> QED BY <1>6, <1>8, <2>1, <2>2, <2>3, <2>4 DEF Sound
<1>10. luaH_get(tb1, k) = v
  <2>1. luaH_get(tb1, k) = tb1.array[k] BY <1>7, <1>9, GetIs
  <2> QED BY <1>2, <1>4, <2>1 DEF sizearray
<1>11. ASSUME NEW x \in Keys \ {k} PROVE luaH_get(tb1, x) = luaH_get(tb, x)
  <2>1. CASE InArray(tb, x)
    <3>1. luaH_get(tb1, x) = tb1.array[x] /\ luaH_get(tb, x) = tb.array[x]
      BY <1>7, <1>9, <2>1, GetIs
    <3>2. x \in 1 .. Len(tb.array) BY <2>1, TableAssumption DEF InArray, sizearray
    <3> QED BY <1>4, <3>1, <3>2
  <2>2. CASE ~InArray(tb, x)
    <3>1. ~InArray(tb1, x) BY <1>7, <2>2
    <3> QED BY <1>3, <1>9, <2>2, <3>1, SameGet
  <2> QED BY <2>1, <2>2
<1>12. Updated(tb, tb1, S, k, v) BY <1>3, <1>7, <1>9, <1>10, <1>11 DEF Updated
<1>13. SameLayout(tb, tb1, S) BY <1>3, <1>7 DEF SameLayout
<1>14. NoGaps(tb, S) => NoGaps(tb1, S) BY <1>3 DEF NoGaps
<1> QED BY <1>12, <1>13, <1>14 DEF tb1

\* The value of a node.
LEMMA SetNodeIs ==
  ASSUME NEW tb, NEW S, Sound(tb, S), NEW k \in Keys, ~InArray(tb, k),
         NEW n \in 0 .. (S - 1), Live(tb, n, k), NEW v \in Values \cup {Nil}
  PROVE  /\ Updated(tb, SetNode(tb, n, v), S, k, v) /\ SameLayout(tb, SetNode(tb, n, v), S)
         /\ SetNode(tb, n, v).node[n].val = v
         /\ \A i \in 0 .. (S - 1) : i # n => SetNode(tb, n, v).node[i].val = tb.node[i].val
<1> DEFINE N == 0 .. (S - 1)
           tb1 == SetNode(tb, n, v)
           V == Values \cup {Nil}
           R == [array : Seq(V), node : [N -> NodeType(S)], lastfree : 0 .. S, dummy : BOOLEAN]
           x1 == [tb.node[n] EXCEPT !.val = v]
<1>1. tb \in R /\ Typed(tb, S) /\ S \in Nat \ {0} /\ tb.node \in [N -> NodeType(S)]
      /\ tb.node[n] \in NodeType(S) /\ tb.node[n].key = k /\ ~tb.node[n].dead /\ k # Nil
      /\ DOMAIN tb.node = N
  BY Basics DEF Sound, Typed, Live
<1>2. /\ x1 \in NodeType(S) /\ x1.key = tb.node[n].key /\ x1.dead = tb.node[n].dead
      /\ x1.val = v /\ x1.next = tb.node[n].next
  <2>1. tb.node[n] \in NodeType(S) BY <1>1
  <2> QED BY <2>1 DEF NodeType
<1>3. tb1 = [tb EXCEPT !.node = [tb.node EXCEPT ![n] = x1]] BY <1>1 DEF SetNode
<1> HIDE DEF x1
<1>4. /\ tb1.array = tb.array /\ tb1.lastfree = tb.lastfree /\ tb1.dummy = tb.dummy
      /\ tb1.node = [tb.node EXCEPT ![n] = x1]
  BY <1>1, <1>3
<1>5. tb1 \in R
  <2> DEFINE nodes == [tb.node EXCEPT ![n] = x1]
  <2>1. nodes \in [N -> NodeType(S)] BY <1>1, <1>2
  <2> HIDE DEF nodes, N, V, tb1
  <2> QED BY <1>1, <1>3, <2>1 DEF nodes
<1> HIDE DEF tb1
<1>6. Typed(tb1, S) /\ DOMAIN tb1.node = N BY <1>1, <1>5 DEF Typed, Shaped
<1>7. tb1.node[n] = x1 /\ \A i \in N : i # n => tb1.node[i] = tb.node[i] BY <1>1, <1>4
<1>8. /\ \A i \in N : /\ tb1.node[i].key = tb.node[i].key /\ tb1.node[i].dead = tb.node[i].dead
                      /\ tb1.node[i].next = tb.node[i].next
      /\ tb1.node[n].val = v
      /\ \A i \in N : i # n => tb1.node[i].val = tb.node[i].val
  <2>1. /\ tb1.node[n].key = tb.node[n].key /\ tb1.node[n].dead = tb.node[n].dead
        /\ tb1.node[n].next = tb.node[n].next /\ tb1.node[n].val = v
    BY <1>2, <1>7
  <2> QED BY <1>7, <2>1
<1>9. sizearray(tb1) = sizearray(tb) /\ \A x : InArray(tb1, x) <=> InArray(tb, x)
  BY <1>4 DEF InArray, sizearray
<1>10. /\ \A a, b : Leads(tb1.node, a, b) <=> Leads(tb.node, a, b)
       /\ \A rank : Ranks(tb1.node, rank) <=> Ranks(tb.node, rank)
  BY <1>1, <1>6, <1>8, SameLinks
<1>11. Linked(tb1, S)
  <2>1. Linked(tb, S) /\ \A i \in N : tb.node[i].next # Null => tb.node[i].next \in N
    BY Basics DEF Sound
  <2>2. \A i \in N : tb1.node[i].key = Nil => tb1.node[i].val = Nil
    BY <1>1, <1>8, <2>1 DEF Linked
  <2> QED BY <1>8, <1>10, <2>1, <2>2 DEF Linked
<1>12. Homed(tb1, S)
  <2> SUFFICES ASSUME NEW i \in N, tb1.node[i].key # Nil
               PROVE  /\ ~InArray(tb1, tb1.node[i].key)
                      /\ Leads(tb1.node, Main(S, tb1.node[i].key), i)
                      /\ tb1.node[Main(S, tb1.node[i].key)].key # Nil
                      /\ Main(S, tb1.node[Main(S, tb1.node[i].key)].key)
                         = Main(S, tb1.node[i].key)
    BY DEF Homed
  <2>1. tb1.node[i].key = tb.node[i].key BY <1>8
  <2>2. Main(S, tb.node[i].key) \in N BY <2>1, Basics
  <2>3. /\ ~InArray(tb, tb.node[i].key)
        /\ Leads(tb.node, Main(S, tb.node[i].key), i)
        /\ tb.node[Main(S, tb.node[i].key)].key # Nil
        /\ Main(S, tb.node[Main(S, tb.node[i].key)].key) = Main(S, tb.node[i].key)
    BY <2>1 DEF Sound, Homed
  <2> QED BY <1>8, <1>9, <1>10, <2>1, <2>2, <2>3
<1>13. Single(tb1, S)
  <2>1. \A i \in N : tb1.node[i].dead => tb1.node[i].val = Nil
    BY <1>1, <1>8 DEF Sound, Single
  <2>2. ASSUME NEW i \in N, NEW j \in N, i # j, tb1.node[i].key = tb1.node[j].key,
               tb1.node[i].key # Nil, ~tb1.node[i].dead
        PROVE  tb1.node[j].dead /\ ~Leads(tb1.node, j, i)
    <3>1. /\ tb.node[i].key = tb.node[j].key /\ tb.node[i].key # Nil /\ ~tb.node[i].dead
      BY <1>8, <2>2
    <3>2. tb.node[j].dead /\ ~Leads(tb.node, j, i) BY <2>2, <3>1 DEF Sound, Single
    <3> QED BY <1>8, <1>10, <3>2
  <2> QED BY <2>1, <2>2 DEF Single
<1>14. FreeBelow(tb1, S)
  <2>1. 0 \in N BY <1>1
  <2> QED BY <1>4, <1>8, <2>1 DEF Sound, FreeBelow
<1>15. ArrayOK(tb1) BY <1>4, <1>9 DEF Sound, ArrayOK
<1>16. Sound(tb1, S) BY <1>6, <1>11, <1>12, <1>13, <1>14, <1>15 DEF Sound
<1>17. luaH_get(tb1, k) = v
  <2>1. Live(tb1, n, k) BY <1>1, <1>8 DEF Live
  <2> QED BY <1>8, <1>9, <1>16, <2>1, GetIs
<1>18. ASSUME NEW x \in Keys \ {k} PROVE luaH_get(tb1, x) = luaH_get(tb, x)
  <2>1. CASE InArray(tb, x)
    <3>1. luaH_get(tb1, x) = tb1.array[x] /\ luaH_get(tb, x) = tb.array[x]
      BY <1>9, <1>16, <2>1, GetIs
    <3> QED BY <1>4, <3>1
  <2>2. CASE ~InArray(tb, x)
    <3>1. ~InArray(tb1, x) BY <1>9, <2>2
    <3>2. \A i \in N : tb.node[i].key = x => i # n BY <1>1
    <3>3. /\ \A i \in N : tb.node[i].key = x /\ tb.node[i].val # Nil =>
               \E j \in N : tb1.node[j].key = x /\ tb1.node[j].val = tb.node[i].val
          /\ \A j \in N : tb1.node[j].key = x /\ tb1.node[j].val # Nil =>
               \E i \in N : tb.node[i].key = x /\ tb.node[i].val = tb1.node[j].val
      BY <1>8, <3>2
    <3> QED BY <1>16, <2>2, <3>1, <3>3, SameGet
  <2> QED BY <2>1, <2>2
<1>19. Updated(tb, tb1, S, k, v) BY <1>4, <1>9, <1>16, <1>17, <1>18 DEF Updated
<1>20. SameLayout(tb, tb1, S) BY <1>8, <1>9 DEF SameLayout
<1> QED BY <1>8, <1>19, <1>20 DEF tb1

\* A key that has a value has a node.
LEMMA LiveIs ==
  ASSUME NEW tb, NEW S, Sound(tb, S), NEW k \in Keys, ~InArray(tb, k)
  PROVE  /\ FindNode(tb, k) # Null => FindNode(tb, k) \in 0 .. (S - 1) /\ Live(tb, FindNode(tb, k), k)
         /\ FindNode(tb, k) = Null => \A i \in 0 .. (S - 1) : ~Live(tb, i, k)
         /\ luaH_get(tb, k) # Nil => FindNode(tb, k) # Null
<1>1. Null \notin 0 .. (S - 1) BY Basics
<1>2. CASE \E i \in 0 .. (S - 1) : Live(tb, i, k) BY <1>1, <1>2, FindIs
<1>3. CASE \A i \in 0 .. (S - 1) : ~Live(tb, i, k)
  <2>1. FindNode(tb, k) = Null BY <1>3, FindIs
  <2>2. luaH_get(tb, k) = Nil BY <1>3, GetIs
  <2> QED BY <1>3, <2>1, <2>2
<1> QED BY <1>2, <1>3

\* There is a slot for k, or a node for one.
Fits(tb, k) == InArray(tb, k) \/ FindNode(tb, k) # Null \/ ~MustRehash(tb, k)

\* luaH_set and the assignment, when they need no rehash.
LEMMA PutIs ==
  ASSUME NEW tb, NEW S, Sound(tb, S), NEW k \in Keys, NEW v \in Values \cup {Nil},
         Fits(tb, k)
  PROVE  /\ Updated(tb, Put(tb, k, v), S, k, v)
         /\ luaH_get(tb, k) # Nil => SameLayout(tb, Put(tb, k, v), S)
         /\ NoGaps(tb, S) /\ v # Nil => NoGaps(Put(tb, k, v), S)
<1> DEFINE N == 0 .. (S - 1)
<1>1. CASE InArray(tb, k)
  <2>1. Put(tb, k, v) = SetArray(tb, k, v) BY <1>1 DEF Put, SetArray
  <2> QED BY <1>1, <2>1, SetArrayIs
<1>2. CASE ~InArray(tb, k) /\ FindNode(tb, k) # Null
  <2> DEFINE n == FindNode(tb, k)
  <2>1. Put(tb, k, v) = SetNode(tb, n, v) BY <1>2 DEF Put, SetNode
  <2>2. n \in N /\ Live(tb, n, k) BY <1>2, LiveIs
  <2> HIDE DEF n
  <2>3. /\ Updated(tb, SetNode(tb, n, v), S, k, v) /\ SameLayout(tb, SetNode(tb, n, v), S)
        /\ SetNode(tb, n, v).node[n].val = v
        /\ \A i \in 0 .. (S - 1) : i # n => SetNode(tb, n, v).node[i].val = tb.node[i].val
    BY <1>2, <2>2, SetNodeIs
  <2>4. NoGaps(tb, S) /\ v # Nil => NoGaps(SetNode(tb, n, v), S)
    BY <2>3 DEF NoGaps, SameLayout
  <2> QED BY <2>1, <2>3, <2>4
<1>3. CASE ~InArray(tb, k) /\ FindNode(tb, k) = Null
  <2> DEFINE tb1 == PlaceKey(tb, k)
             n == FindNode(tb1, k)
             tb2 == SetNode(tb1, n, v)
  <2>1. Put(tb, k, v) = tb2 BY <1>3 DEF Put, SetNode
  <2>2. \A i \in N : ~Live(tb, i, k) BY <1>3, LiveIs
  <2>3. Placed(tb, tb1, S, k) BY <1>3, <2>2, PlaceKeyIs DEF Fits
  <2>4. luaH_get(tb, k) = Nil BY <1>3, LiveIs
  <2> HIDE DEF tb1, n, tb2
  <2>5. /\ Sound(tb1, S) /\ tb1.array = tb.array /\ tb1.dummy = tb.dummy
        /\ sizearray(tb1) = sizearray(tb) /\ \A x : InArray(tb1, x) <=> InArray(tb, x)
    BY <2>3 DEF Placed, InArray, sizearray
  <2>6. n \in N /\ Live(tb1, n, k)
    <3>1. PICK i \in N : Live(tb1, i, k) BY <2>3 DEF Placed
    <3>2. n = i BY <2>5, <3>1, FindIs DEF n
    <3> QED BY <3>1, <3>2
  <2>7. /\ Updated(tb1, tb2, S, k, v) /\ SameLayout(tb1, tb2, S)
        /\ tb2.node[n].val = v
        /\ \A i \in 0 .. (S - 1) : i # n => tb2.node[i].val = tb1.node[i].val
    <3>1. ~InArray(tb1, k) BY <1>3, <2>5
    <3> QED BY <2>5, <2>6, <3>1, SetNodeIs DEF tb2
  <2>8. ASSUME NEW x \in Keys \ {k} PROVE luaH_get(tb1, x) = luaH_get(tb, x)
    <3>1. CASE InArray(tb, x)
      <4>1. luaH_get(tb1, x) = tb1.array[x] /\ luaH_get(tb, x) = tb.array[x]
        BY <2>5, <3>1, GetIs
      <4> QED BY <2>5, <4>1
    <3>2. CASE ~InArray(tb, x)
      <4>1. ~InArray(tb1, x) BY <2>5, <3>2
      <4>2. \A i \in N : tb.node[i].key = x /\ tb.node[i].val # Nil =>
              \E j \in N : tb1.node[j].key = x /\ tb1.node[j].val = tb.node[i].val
        BY <2>3 DEF Placed
      <4>3. \A j \in N : tb1.node[j].key = x /\ tb1.node[j].val # Nil =>
              \E i \in N : tb.node[i].key = x /\ tb.node[i].val = tb1.node[j].val
        <5>1. x # Nil /\ x # k BY Basics
        <5> QED BY <2>3, <5>1 DEF Placed, Live
      <4> QED BY <2>5, <3>2, <4>1, <4>2, <4>3, SameGet
    <3> QED BY <3>1, <3>2
  <2>9. Updated(tb, tb2, S, k, v) BY <2>5, <2>7, <2>8 DEF Updated
  <2>10. NoGaps(tb, S) /\ v # Nil => NoGaps(tb2, S)
    <3> SUFFICES ASSUME NoGaps(tb, S), v # Nil, NEW i \in N, tb2.node[i].key # Nil
                 PROVE  tb2.node[i].val # Nil
      BY DEF NoGaps
    <3>1. tb1.node[i].key = tb2.node[i].key BY <2>7 DEF SameLayout
    <3>2. CASE i = n BY <2>7, <3>2
    <3>3. CASE i # n
      <4>0. k # Nil BY Basics
      <4>1. ~Live(tb1, i, k)
        <5>1. tb1.node[n].key = k /\ ~tb1.node[n].dead BY <2>6 DEF Live
        <5>2. Single(tb1, S) BY <2>5 DEF Sound
        <5> QED BY <2>6, <3>3, <4>0, <5>1, <5>2 DEF Live, Single
      <4>2. PICK j \in N : tb.node[j].key = tb1.node[i].key /\ tb.node[j].val = tb1.node[i].val
        BY <2>3, <3>1, <4>1 DEF Placed
      <4> QED BY <2>7, <3>1, <3>3, <4>2 DEF NoGaps
    <3> QED BY <3>2, <3>3
  <2> QED BY <2>1, <2>4, <2>9, <2>10
<1> QED BY <1>1, <1>2, <1>3

-----------------------------------------------------------------------------
(* Empty parts, and room in them.                                          *)

\* The number of nodes that setnodevector makes.
Nodes(nh) == IF nh = 0 THEN 1 ELSE TwoTo(CeilLog2(nh))

\* What setnodevector makes for nh keys.
LEMMA NodesIs ==
  ASSUME NEW nh \in Nat
  PROVE  /\ Nodes(nh) \in Nat \ {0} /\ nh <= Nodes(nh)
         /\ LET h == EmptyHash(nh) IN
            /\ h.node = [i \in 0 .. (Nodes(nh) - 1) |-> EmptyNode]
            /\ h.lastfree \in 0 .. Nodes(nh) /\ h.dummy \in BOOLEAN
            /\ nh = 0 <=> h.dummy
            /\ nh # 0 => h.lastfree = Nodes(nh)
<1>1. CASE nh = 0
  <2>1. CeilLog2(1) = 0
    <3>1. CeilLog2(1) <= 0 <=> 1 <= TwoTo(0) BY CeilLog2Le
    <3>2. CeilLog2(1) \in Nat BY CeilLog2Is
    <3> QED BY <3>1, <3>2, TwoToStep
  <2>2. NodeVector(1) = [i \in 0 .. 0 |-> EmptyNode] BY <2>1, TwoToStep DEF NodeVector
  <2>3. EmptyHash(nh) = [node |-> NodeVector(1), lastfree |-> 0, dummy |-> TRUE]
    BY <1>1 DEF EmptyHash
  <2>4. Nodes(nh) = 1 /\ 1 - 1 = 0 BY <1>1 DEF Nodes
  <2> DEFINE h == EmptyHash(nh)
  <2>5. h.node = NodeVector(1) /\ h.lastfree = 0 /\ h.dummy = TRUE BY <2>3
  <2> HIDE DEF h
  <2>6. h.lastfree \in 0 .. 1 /\ 1 \in Nat \ {0} /\ nh <= 1
    BY <1>1, <2>5
  <2>8. h.dummy \in BOOLEAN BY <2>5
  <2>7. h.node = [i \in 0 .. (Nodes(nh) - 1) |-> EmptyNode] BY <2>2, <2>4, <2>5
  <2> QED BY <1>1, <2>4, <2>5, <2>6, <2>7, <2>8 DEF h
<1>2. CASE nh # 0
  <2> DEFINE S == TwoTo(CeilLog2(nh))
  <2>1. CeilLog2(nh) \in Nat /\ nh <= S BY CeilLog2Is
  <2>2. S \in Nat BY <2>1, TwoToNat
  <2>3. NodeVector(nh) = [i \in 0 .. (S - 1) |-> EmptyNode] BY DEF NodeVector
  <2>4. EmptyHash(nh) = [node |-> NodeVector(nh), lastfree |-> S, dummy |-> FALSE]
    BY <1>2 DEF EmptyHash
  <2>5. Nodes(nh) = S BY <1>2 DEF Nodes
  <2> HIDE DEF S
  <2> QED BY <1>2, <2>1, <2>2, <2>3, <2>4, <2>5
<1> QED BY <1>1, <1>2

\* The table with new parts: what the array keeps, and nothing else.
LEMMA EmptiedIs ==
  ASSUME NEW tb, tb.array \in Seq(Values \cup {Nil}), NEW na \in 0 .. TwoTo(MAXBITS),
         \A i \in 1 .. sizearray(tb) : tb.array[i] # Nil => i \in IntKeys,
         NEW nh \in Nat
  PROVE  LET e == Emptied(tb, na, nh) IN
         /\ Sound(e, Nodes(nh)) /\ NoGaps(e, Nodes(nh)) /\ sizearray(e) = na
         /\ e.dummy <=> nh = 0
         /\ \A k \in Keys : luaH_get(e, k) = IF InArray(tb, k) /\ k <= na
                                             THEN tb.array[k] ELSE Nil
<1> DEFINE e == Emptied(tb, na, nh)
           S == Nodes(nh)
           N == 0 .. (S - 1)
           V == Values \cup {Nil}
           h == EmptyHash(nh)
           ar == [i \in 1 .. na |-> IF i <= sizearray(tb) THEN tb.array[i] ELSE Nil]
<1>1. S \in Nat \ {0} /\ h.node = [i \in N |-> EmptyNode] /\ h.lastfree \in 0 .. S
      /\ h.dummy \in BOOLEAN /\ (nh = 0 <=> h.dummy) /\ (nh # 0 => h.lastfree = S)
      /\ (nh = 0 => S = 1)
  BY NodesIs DEF Nodes
<1>2. sizearray(tb) \in Nat /\ \A i \in 1 .. sizearray(tb) : tb.array[i] \in V
  BY LenProperties, ElementOfSeq DEF sizearray
<1>3. na \in Nat /\ na <= TwoTo(MAXBITS)
  <2>1. TwoTo(MAXBITS) \in Nat BY TwoToNat, TableAssumption
  <2> QED BY <2>1
<1>4. ar \in [1 .. na -> V] BY <1>2, <1>3
<1>5. ar \in Seq(V) /\ Len(ar) = na BY <1>3, <1>4
<1>6. e.array = ar /\ e.node = h.node /\ e.lastfree = h.lastfree /\ e.dummy = h.dummy
      /\ e = [array |-> ar, node |-> h.node, lastfree |-> h.lastfree, dummy |-> h.dummy]
  BY DEF Emptied
<1>7. EmptyNode \in NodeType(S) /\ EmptyNode.key = Nil /\ EmptyNode.dead = FALSE
      /\ EmptyNode.val = Nil /\ EmptyNode.next = Null
  BY DEF EmptyNode, NodeType
<1>8. e.node \in [N -> NodeType(S)] /\ DOMAIN e.node = N /\ \A i \in N : e.node[i] = EmptyNode
  BY <1>1, <1>6, <1>7
<1> HIDE DEF ar, h
<1>9. Typed(e, S)
  <2>1. e \in [array : Seq(V), node : [N -> NodeType(S)], lastfree : 0 .. S, dummy : BOOLEAN]
    BY <1>1, <1>5, <1>6, <1>8
  <2> HIDE DEF e
  <2> QED BY <1>1, <1>8, <2>1 DEF Typed, Shaped
<1> HIDE DEF e
<1>10. sizearray(e) = na BY <1>5, <1>6 DEF sizearray
<1>11. \A i \in 1 .. na : e.array[i] = IF i <= sizearray(tb) THEN tb.array[i] ELSE Nil
  BY <1>6 DEF ar
<1>12. Sound(e, S)
  <2>1. ArrayOK(e) BY <1>2, <1>3, <1>10, <1>11 DEF ArrayOK
  <2>2. Linked(e, S)
    <3>1. Ranks(e.node, [i \in N |-> 0]) BY <1>7, <1>8 DEF Ranks
    <3>2. \A i \in N : e.node[i].key = Nil /\ e.node[i].next = Null /\ e.node[i].val = Nil
                       /\ e.node[i].dead = FALSE
      BY <1>7, <1>8
    <3> QED BY <3>1, <3>2 DEF Linked
  <2>3. Homed(e, S) BY <1>7, <1>8 DEF Homed
  <2>4. Single(e, S) BY <1>7, <1>8 DEF Single
  <2>5. FreeBelow(e, S)
    <3>1. ~e.dummy => \A i \in N : ~(i >= e.lastfree) BY <1>1, <1>6
    <3>2. 0 \in N BY <1>1
    <3> QED BY <1>1, <1>6, <1>7, <1>8, <3>1, <3>2 DEF FreeBelow
  <2> QED BY <1>9, <2>1, <2>2, <2>3, <2>4, <2>5 DEF Sound
<1>13. NoGaps(e, S) BY <1>7, <1>8 DEF NoGaps
<1>14. ASSUME NEW k \in Keys
       PROVE  luaH_get(e, k) = IF InArray(tb, k) /\ k <= na THEN tb.array[k] ELSE Nil
  <2>1. k # Nil BY TableAssumption
  <2>2. \A i \in N : ~Live(e, i, k) BY <1>7, <1>8, <2>1 DEF Live
  <2>3. CASE InArray(e, k)
    <3>1. k \in 1 .. na BY <1>3, <1>10, <2>3, TableAssumption DEF InArray
    <3>2. luaH_get(e, k) = e.array[k] BY <1>12, <2>3, GetIs
    <3>3. InArray(tb, k) /\ k <= na <=> k <= sizearray(tb) BY <2>3, <3>1 DEF InArray
    <3> QED BY <1>11, <3>1, <3>2, <3>3
  <2>4. CASE ~InArray(e, k)
    <3>1. luaH_get(e, k) = Nil BY <1>12, <2>2, <2>4, GetIs
    <3>2. ~(InArray(tb, k) /\ k <= na) BY <1>10, <2>4 DEF InArray
    <3> QED BY <3>1, <3>2
  <2> QED BY <2>3, <2>4
<1> QED BY <1>1, <1>6, <1>10, <1>12, <1>13, <1>14 DEF e

\* No rehash while fewer keys than nodes have come.
LEMMA RoomFor ==
  ASSUME NEW tb, NEW S, Sound(tb, S), NoGaps(tb, S), ~tb.dummy,
         NEW k \in Keys, luaH_get(tb, k) = Nil,
         NEW H, IsFiniteSet(H), Cardinality(H) <= S, k \in H,
         \A x \in Keys : luaH_get(tb, x) # Nil /\ ~InArray(tb, x) => x \in H
  PROVE  ~MustRehash(tb, k)
<1> DEFINE N == 0 .. (S - 1)
<1>1. SUFFICES ASSUME FreePos(tb) = Null PROVE FALSE BY DEF MustRehash
<1>2. \A i \in N : tb.node[i].key # Nil BY <1>1, FreePosIs
<1>3. \A i \in N : tb.node[i].val # Nil /\ ~tb.node[i].dead
  BY <1>2 DEF NoGaps, Sound, Single
<1> DEFINE f == [i \in N |-> tb.node[i].key]
<1>4. \A i \in N : f[i] \in H \ {k}
  <2> SUFFICES ASSUME NEW i \in N PROVE f[i] \in H \ {k} OBVIOUS
  <2>1. f[i] = tb.node[i].key /\ f[i] \in Keys BY <1>2, Basics
  <2>2. ~InArray(tb, f[i]) BY <1>2, <2>1 DEF Sound, Homed
  <2>3. Live(tb, i, f[i]) BY <1>3, <2>1 DEF Live
  <2>4. luaH_get(tb, f[i]) # Nil
    <3> HIDE DEF f
    <3>1. luaH_get(tb, f[i]) = tb.node[i].val BY <2>1, <2>2, <2>3, GetIs
    <3> QED BY <1>3, <3>1
  <2> HIDE DEF f
  <2> QED BY <2>1, <2>2, <2>4
<1>5. \A i, j \in N : f[i] = f[j] => i = j
  BY <1>2, <1>3 DEF Sound, Single
<1>6. f \in [N -> H \ {k}] BY <1>4
<1> HIDE DEF f
<1>7. f \in Injection(N, H \ {k}) BY <1>5, <1>6 DEF Injection, IsInjective
<1>8. S \in Nat \ {0} /\ Cardinality(N) = S /\ IsFiniteSet(N) BY Basics, FS_Interval
<1>9. IsFiniteSet(H \ {k}) /\ Cardinality(H \ {k}) = Cardinality(H) - 1 /\ Cardinality(H) \in Nat
  BY FS_RemoveElement, FS_CardinalityType
<1>10. Cardinality(N) <= Cardinality(H \ {k}) BY <1>7, <1>9, FS_Injection
<1> QED BY <1>8, <1>9, <1>10

-----------------------------------------------------------------------------
(* Inserting the elements again.                                           *)

\* The key is in an array of na slots, and was in the array before.
Stays(tb, k, na) == InArray(tb, k) /\ k <= na

\* es lists, once each, the keys of tb that do not stay, with their values;
\* entries without a value may be among them.
Lists(tb, es, na) ==
  /\ Len(es) \in Nat
  /\ \A i \in 1 .. Len(es) : es[i][2] # Nil =>
       /\ es[i][1] \in Keys /\ es[i][2] \in Values
       /\ luaH_get(tb, es[i][1]) = es[i][2] /\ ~Stays(tb, es[i][1], na)
  /\ \A i, j \in 1 .. Len(es) :
       i # j /\ es[i][2] # Nil /\ es[j][2] # Nil => es[i][1] # es[j][1]
  /\ \A k \in Keys : luaH_get(tb, k) # Nil /\ ~Stays(tb, k, na) =>
       \E i \in 1 .. Len(es) : es[i][1] = k /\ es[i][2] # Nil

\* The length of a sequence given as a function.
LEMMA FunctionLen ==
  ASSUME NEW n \in Nat, NEW es, es = [i \in 1 .. n |-> es[i]]
  PROVE  Len(es) = n
<1>1. es \in [1 .. n -> {es[i] : i \in 1 .. n}] BY Zenon
<1>2. \A A : es \in [1 .. n -> A] => Len(es) = n OBVIOUS
<1> QED BY <1>1, <1>2

\* What resize inserts again.
LEMMA ReinsertedIs ==
  ASSUME NEW tb, NEW S, Sound(tb, S), NEW na \in Nat
  PROVE  Lists(tb, Reinserted(tb, na), na)
<1> DEFINE es == Reinserted(tb, na)
           N == 0 .. (S - 1)
           slice == IF na < sizearray(tb) THEN sizearray(tb) - na ELSE 0
<1>1. /\ S \in Nat \ {0} /\ sizenode(tb) = S /\ sizearray(tb) \in Nat /\ slice \in Nat
      /\ Nil \notin Keys
      /\ \A i \in 1 .. sizearray(tb) : tb.array[i] \in Values \cup {Nil}
  BY TypedIs, TableAssumption DEF Sound
<1>2. es = [i \in 1 .. (slice + S) |->
              IF i <= slice THEN <<na + i, tb.array[na + i]>>
              ELSE <<tb.node[slice + S - i].key, tb.node[slice + S - i].val>>]
  BY <1>1 DEF Reinserted
<1>3. /\ slice = 0 \/ (slice > 0 /\ na + slice = sizearray(tb))
  BY <1>1
<1> HIDE DEF slice, es
<1>4. Len(es) = slice + S
  <2>1. slice + S \in Nat BY <1>1
  <2>2. es = [i \in 1 .. (slice + S) |-> es[i]] BY <1>2
  <2> QED BY <2>1, <2>2, FunctionLen
\* An entry of the slice.
<1>5. ASSUME NEW i \in 1 .. slice
      PROVE  /\ es[i][1] = na + i /\ es[i][2] = tb.array[na + i]
             /\ na + i \in 1 .. sizearray(tb)
  <2>1. i \in 1 .. (slice + S) /\ i <= slice /\ i \in Nat /\ i >= 1 /\ slice > 0 BY <1>1
  <2>2. es[i] = <<na + i, tb.array[na + i]>> BY <1>2, <2>1
  <2>3. na + i \in 1 .. sizearray(tb) BY <1>1, <1>3, <2>1
  <2> QED BY <2>2, <2>3
\* An entry of the nodes.
<1>6. ASSUME NEW i \in (slice + 1) .. (slice + S)
      PROVE  /\ slice + S - i \in N
             /\ es[i][1] = tb.node[slice + S - i].key /\ es[i][2] = tb.node[slice + S - i].val
  <2>1. i \in 1 .. (slice + S) /\ ~(i <= slice) /\ slice + S - i \in N BY <1>1
  <2>2. es[i] = <<tb.node[slice + S - i].key, tb.node[slice + S - i].val>> BY <1>2, <2>1
  <2> QED BY <2>1, <2>2
<1>7. \A i \in 1 .. (slice + S) : i \in 1 .. slice \/ i \in (slice + 1) .. (slice + S)
  BY <1>1
<1>8. ASSUME NEW i \in 1 .. slice, es[i][2] # Nil
      PROVE  /\ es[i][1] \in Keys /\ es[i][2] \in Values
             /\ luaH_get(tb, es[i][1]) = es[i][2] /\ ~Stays(tb, es[i][1], na)
             /\ InArray(tb, es[i][1])
  <2>1. na + i \in IntKeys BY <1>5, <1>8 DEF Sound, ArrayOK
  <2>2. InArray(tb, na + i) /\ na + i \in Keys BY <1>1, <1>5, <2>1 DEF InArray, Keys
  <2>3. luaH_get(tb, na + i) = tb.array[na + i] BY <2>2, GetIs
  <2>4. tb.array[na + i] \in Values BY <1>1, <1>5, <1>8
  <2>5. ~(na + i <= na) BY <1>1
  <2> QED BY <1>5, <2>2, <2>3, <2>4, <2>5 DEF Stays
<1>9. ASSUME NEW j \in N, tb.node[j].val # Nil
      PROVE  /\ tb.node[j].key \in Keys /\ tb.node[j].val \in Values /\ ~tb.node[j].dead
             /\ luaH_get(tb, tb.node[j].key) = tb.node[j].val
             /\ ~InArray(tb, tb.node[j].key)
  <2>1. tb.node[j].key # Nil /\ ~tb.node[j].dead
    BY <1>9 DEF Sound, Linked, Single
  <2>2. tb.node[j].key \in Keys /\ tb.node[j].val \in Values /\ ~InArray(tb, tb.node[j].key)
    BY <1>9, <2>1, Basics DEF Sound, Homed
  <2>3. Live(tb, j, tb.node[j].key) BY <2>1 DEF Live
  <2>4. luaH_get(tb, tb.node[j].key) = tb.node[j].val BY <2>2, <2>3, GetIs
  <2> QED BY <2>1, <2>2, <2>4
<1>10. \A i \in 1 .. Len(es) : es[i][2] # Nil =>
         /\ es[i][1] \in Keys /\ es[i][2] \in Values
         /\ luaH_get(tb, es[i][1]) = es[i][2] /\ ~Stays(tb, es[i][1], na)
  <2> SUFFICES ASSUME NEW i \in 1 .. (slice + S), es[i][2] # Nil
               PROVE  /\ es[i][1] \in Keys /\ es[i][2] \in Values
                      /\ luaH_get(tb, es[i][1]) = es[i][2] /\ ~Stays(tb, es[i][1], na)
    BY <1>4
  <2>1. CASE i \in 1 .. slice BY <1>8, <2>1
  <2>2. CASE i \in (slice + 1) .. (slice + S)
    BY <1>6, <1>9, <2>2 DEF Stays
  <2> QED BY <1>7, <2>1, <2>2
<1>11. ASSUME NEW i \in 1 .. (slice + S), NEW j \in 1 .. (slice + S), i # j,
              es[i][2] # Nil, es[j][2] # Nil
       PROVE  es[i][1] # es[j][1]
  <2>1. CASE i \in 1 .. slice /\ j \in 1 .. slice
    <3>1. es[i][1] = na + i /\ es[j][1] = na + j BY <1>5, <2>1
    <3>2. na + i # na + j BY <1>11
    <3> QED BY <3>1, <3>2
  <2>2. CASE i \in 1 .. slice /\ j \in (slice + 1) .. (slice + S)
    <3>1. InArray(tb, es[i][1]) BY <1>8, <1>11, <2>2
    <3>2. ~InArray(tb, es[j][1]) BY <1>6, <1>9, <1>11, <2>2
    <3> QED BY <3>1, <3>2
  <2>3. CASE j \in 1 .. slice /\ i \in (slice + 1) .. (slice + S)
    <3>1. InArray(tb, es[j][1]) BY <1>8, <1>11, <2>3
    <3>2. ~InArray(tb, es[i][1]) BY <1>6, <1>9, <1>11, <2>3
    <3> QED BY <3>1, <3>2
  <2>4. CASE i \in (slice + 1) .. (slice + S) /\ j \in (slice + 1) .. (slice + S)
    <3> DEFINE u == slice + S - i
               v == slice + S - j
    <3>1. u # v BY <1>1, <1>11
    <3>2. /\ u \in N /\ v \in N /\ es[i][1] = tb.node[u].key /\ es[j][1] = tb.node[v].key
          /\ es[i][2] = tb.node[u].val /\ es[j][2] = tb.node[v].val
      BY <1>6, <2>4
    <3> HIDE DEF u, v
    <3>3. ~tb.node[u].dead /\ ~tb.node[v].dead /\ tb.node[u].key # Nil
      BY <1>1, <1>9, <1>11, <3>2
    <3> QED BY <3>1, <3>2, <3>3 DEF Sound, Single
  <2> QED BY <1>7, <2>1, <2>2, <2>3, <2>4
<1>12. ASSUME NEW k \in Keys, luaH_get(tb, k) # Nil, ~Stays(tb, k, na)
       PROVE  \E i \in 1 .. (slice + S) : es[i][1] = k /\ es[i][2] # Nil
  <2>1. CASE InArray(tb, k)
    <3>1. k \in Nat /\ k > na /\ k <= sizearray(tb)
      BY <1>1, <1>12, <2>1, TableAssumption DEF InArray, Stays
    <3>2. slice > 0 /\ na + slice = sizearray(tb) BY <1>1, <1>3, <3>1 DEF slice
    <3> DEFINE i == k - na
    <3>3. i \in 1 .. slice /\ na + i = k /\ i \in 1 .. (slice + S) BY <1>1, <3>1, <3>2
    <3> HIDE DEF i
    <3>4. es[i][1] = k /\ es[i][2] = tb.array[k] BY <1>5, <3>3
    <3>5. luaH_get(tb, k) = tb.array[k] BY <2>1, GetIs
    <3> QED BY <1>12, <3>3, <3>4, <3>5
  <2>2. CASE ~InArray(tb, k)
    <3>1. PICK j \in N : Live(tb, j, k) /\ tb.node[j].val # Nil BY <1>12, <2>2, GetIs
    <3> DEFINE i == slice + S - j
    <3>2. i \in (slice + 1) .. (slice + S) /\ slice + S - i = j /\ i \in 1 .. (slice + S)
      BY <1>1
    <3> HIDE DEF i
    <3>3. es[i][1] = tb.node[j].key /\ es[i][2] = tb.node[j].val BY <1>6, <3>2
    <3> QED BY <3>1, <3>2, <3>3 DEF Live
  <2> QED BY <2>1, <2>2
<1>13. Len(es) \in Nat BY <1>1, <1>4
<1> QED BY <1>4, <1>10, <1>11, <1>12, <1>13 DEF Lists, es

\* The recursion that defines Filled.
Fills(f, tb0, es, n) ==
  f = [i \in 0 .. n |->
         IF i = 0 THEN tb0
         ELSE IF es[i][2] = Nil THEN f[i - 1] ELSE Put(f[i - 1], es[i][1], es[i][2])]

\* The recursive function of Filled exists.
LEMMA FillsExists ==
  ASSUME NEW m \in Nat, NEW tb0, NEW es
  PROVE  \E f : Fills(f, tb0, es, m)
<1> DEFINE T == {k \in 0 .. m : \E f : Fills(f, tb0, es, k)}
<1>1. 0 \in T
  <2>1. PICK f : f = [k \in 0 .. 0 |-> tb0] OBVIOUS
  <2>2. Fills(f, tb0, es, 0) BY <2>1 DEF Fills
  <2> QED BY <2>2
<1>2. ASSUME NEW k \in 1 .. m, k - 1 \in T PROVE k \in T
  <2>1. PICK p : Fills(p, tb0, es, k - 1) BY <1>2
  <2>2. PICK q : q = [i \in 0 .. k |-> IF i = k
                        THEN IF es[k][2] = Nil THEN p[k - 1]
                             ELSE Put(p[k - 1], es[k][1], es[k][2])
                        ELSE p[i]]
    OBVIOUS
  <2>3. k \in Nat /\ k - 1 \in Nat /\ k \in 0 .. m OBVIOUS
  <2>4. \A i \in 0 .. k - 1 : q[i] = p[i] BY <2>2, <2>3
  <2>5. ASSUME NEW i \in 0 .. k
        PROVE  q[i] = IF i = 0 THEN tb0
                      ELSE IF es[i][2] = Nil THEN q[i - 1]
                           ELSE Put(q[i - 1], es[i][1], es[i][2])
    <3>1. CASE i = k
      <4>1. q[i] = IF es[k][2] = Nil THEN p[k - 1] ELSE Put(p[k - 1], es[k][1], es[k][2])
        BY <2>2, <2>3, <3>1
      <4>2. q[k - 1] = p[k - 1] BY <2>3, <2>4
      <4> QED BY <1>2, <3>1, <4>1, <4>2
    <3>2. CASE i # k
      <4>1. i \in 0 .. k - 1 /\ (i # 0 => i - 1 \in 0 .. k - 1) BY <2>3, <3>2
      <4>2. p[i] = IF i = 0 THEN tb0
                   ELSE IF es[i][2] = Nil THEN p[i - 1]
                        ELSE Put(p[i - 1], es[i][1], es[i][2])
        BY <2>1, <4>1 DEF Fills
      <4> QED BY <2>4, <4>1, <4>2
    <3> QED BY <3>1, <3>2
  <2>6. q = [i \in 0 .. k |-> q[i]] BY <2>2
  <2>7. Fills(q, tb0, es, k) BY <2>5, <2>6 DEF Fills
  <2> QED BY <2>3, <2>7
<1>3. T \subseteq 0 .. m OBVIOUS
<1> HIDE DEF T
<1>4. T = 0 .. m BY <1>1, <1>2, <1>3, UpTo
<1> QED BY <1>4 DEF T

\* Filled, element by element.
LEMMA FilledIs ==
  ASSUME NEW tb0, NEW es, Len(es) \in Nat
  PROVE  LET f == Filled(tb0, es) IN
         /\ f[0] = tb0
         /\ \A i \in 1 .. Len(es) :
              f[i] = IF es[i][2] = Nil THEN f[i - 1] ELSE Put(f[i - 1], es[i][1], es[i][2])
<1> DEFINE f == Filled(tb0, es)
<1>1. \E g : Fills(g, tb0, es, Len(es)) BY FillsExists
<1>2. Fills(f, tb0, es, Len(es)) BY <1>1 DEF Filled, Fills
<1> HIDE DEF f
<1>3. f[0] = tb0 BY <1>2 DEF Fills
<1>4. ASSUME NEW i \in 1 .. Len(es)
      PROVE  f[i] = IF es[i][2] = Nil THEN f[i - 1] ELSE Put(f[i - 1], es[i][1], es[i][2])
  <2>1. i \in 0 .. Len(es) /\ i # 0 OBVIOUS
  <2> QED BY <1>2, <2>1 DEF Fills
<1> QED BY <1>3, <1>4 DEF f

-----------------------------------------------------------------------------
(* resize.                                                                 *)

\* k belongs to an array part of na slots.
InNew(k, na) == k \in IntKeys /\ k <= na

\* H has the keys that go to the hash part of nh nodes, which are not too many.
Room(tb, H, na, nh) ==
  /\ IsFiniteSet(H) /\ Cardinality(H) <= nh
  /\ \A k \in Keys : luaH_get(tb, k) # Nil /\ ~InNew(k, na) => k \in H

\* tb1 is tb while it is filled: i elements have come.
During(tb, tb1, es, i, na, nh) ==
  /\ Sound(tb1, Nodes(nh)) /\ NoGaps(tb1, Nodes(nh)) /\ sizearray(tb1) = na
  /\ tb1.dummy <=> nh = 0
  /\ \A k \in Keys :
       luaH_get(tb1, k) = IF \/ Stays(tb, k, na)
                             \/ \E j \in 1 .. i : es[j][1] = k /\ es[j][2] # Nil
                          THEN luaH_get(tb, k) ELSE Nil

\* The next element finds a node.
LEMMA NextFits ==
  ASSUME NEW tb, NEW S, Sound(tb, S), NEW na \in Nat, NEW nh \in Nat, NEW H,
         Room(tb, H, na, nh), NEW es, Lists(tb, es, na),
         NEW i \in 1 .. Len(es), es[i][2] # Nil, NEW tb1, During(tb, tb1, es, i - 1, na, nh)
  PROVE  /\ luaH_get(tb1, es[i][1]) = Nil
         /\ InArray(tb1, es[i][1]) \/ ~MustRehash(tb1, es[i][1])
<1> DEFINE k == es[i][1]
<1>1. k \in Keys /\ es[i][2] \in Values /\ luaH_get(tb, k) = es[i][2] /\ ~Stays(tb, k, na)
  BY DEF Lists
<1>2. luaH_get(tb1, k) = Nil
  <2>1. \A j \in 1 .. (i - 1) : j \in 1 .. Len(es) /\ j # i BY DEF Lists
  <2>2. \A j \in 1 .. (i - 1) : ~(es[j][1] = k /\ es[j][2] # Nil) BY <2>1 DEF Lists
  <2> HIDE DEF k
  <2> QED BY <1>1, <2>2 DEF During
<1>3. ASSUME ~InArray(tb1, k) PROVE ~MustRehash(tb1, k)
  <2>1. \A x : InArray(tb1, x) <=> InNew(x, na) BY DEF During, InArray, InNew
  <2>2. k \in H BY <1>1, <1>3, <2>1 DEF Room
  <2>3. \A x \in Keys : luaH_get(tb1, x) # Nil /\ ~InArray(tb1, x) => x \in H
    BY <2>1 DEF During, Room
  <2>4. Cardinality(H) \in Nat /\ Cardinality(H) # 0
    BY <2>2, FS_CardinalityType, FS_EmptySet DEF Room
  <2>5. nh # 0 /\ Cardinality(H) <= Nodes(nh)
    <3>1. Cardinality(H) <= nh BY DEF Room
    <3>2. nh <= Nodes(nh) /\ Nodes(nh) \in Nat BY NodesIs
    <3> QED BY <2>4, <3>1, <3>2
  <2>6. ~tb1.dummy BY <2>5 DEF During
  <2> HIDE DEF k
  <2> QED BY <1>1, <1>2, <2>2, <2>3, <2>5, <2>6, RoomFor DEF During, Room
<1> QED BY <1>2, <1>3

\* Filling goes well to the end.
LEMMA FillingIs ==
  ASSUME NEW tb, NEW S, Sound(tb, S), NEW na \in 0 .. TwoTo(MAXBITS), NEW nh \in Nat,
         NEW H, Room(tb, H, na, nh)
  PROVE  LET es == Reinserted(tb, na)
             f == Filled(Emptied(tb, na, nh), es)
         IN /\ Len(es) \in Nat /\ Lists(tb, es, na)
            /\ \A i \in 0 .. Len(es) : During(tb, f[i], es, i, na, nh)
<1> DEFINE es == Reinserted(tb, na)
           e == Emptied(tb, na, nh)
           f == Filled(e, es)
           n == Len(es)
<1>0. na \in Nat
  <2>1. TwoTo(MAXBITS) \in Nat BY TwoToNat, TableAssumption
  <2> QED BY <2>1
<1>1. Lists(tb, es, na) /\ n \in Nat BY <1>0, ReinsertedIs DEF Lists
<1>2. /\ Sound(e, Nodes(nh)) /\ NoGaps(e, Nodes(nh)) /\ sizearray(e) = na
      /\ e.dummy <=> nh = 0
      /\ \A k \in Keys : luaH_get(e, k) = IF InArray(tb, k) /\ k <= na
                                          THEN tb.array[k] ELSE Nil
  <2>1. tb.array \in Seq(Values \cup {Nil}) BY TypedIs DEF Sound
  <2>2. \A i \in 1 .. sizearray(tb) : tb.array[i] # Nil => i \in IntKeys BY DEF Sound, ArrayOK
  <2> QED BY <2>1, <2>2, EmptiedIs
<1> HIDE DEF e, es
<1>3. /\ f[0] = e
      /\ \A i \in 1 .. n :
           f[i] = IF es[i][2] = Nil THEN f[i - 1] ELSE Put(f[i - 1], es[i][1], es[i][2])
  BY <1>1, FilledIs
<1> HIDE DEF f, n
<1> DEFINE T == {i \in 0 .. n : During(tb, f[i], es, i, na, nh)}
<1>4. 0 \in T
  <2>1. \A k \in Keys : Stays(tb, k, na) => luaH_get(tb, k) = tb.array[k]
    BY GetIs DEF Stays
  <2>2. During(tb, e, es, 0, na, nh) BY <1>2, <2>1 DEF During, Stays
  <2> QED BY <1>1, <1>3, <2>2
<1>5. ASSUME NEW i \in 1 .. n, i - 1 \in T PROVE i \in T
  <2> DEFINE k == es[i][1]
             v == es[i][2]
             tb1 == f[i - 1]
             tb2 == f[i]
  <2>1. During(tb, tb1, es, i - 1, na, nh) BY <1>5
  <2>2. tb2 = IF v = Nil THEN tb1 ELSE Put(tb1, k, v) BY <1>3
  <2>3. /\ i \in 0 .. n /\ i \in 1 .. i
        /\ \A j : j \in 1 .. i <=> j \in 1 .. (i - 1) \/ j = i
    BY <1>1
  <2>4. CASE v = Nil
    <3>1. \A x : (\E j \in 1 .. i : es[j][1] = x /\ es[j][2] # Nil)
                 <=> (\E j \in 1 .. (i - 1) : es[j][1] = x /\ es[j][2] # Nil)
      BY <2>3, <2>4
    <3>2. tb2 = tb1 BY <2>2, <2>4
    <3> HIDE DEF tb1, tb2
    <3>3. During(tb, tb2, es, i, na, nh) BY <2>1, <3>1, <3>2 DEF During
    <3> QED BY <2>3, <3>3 DEF tb2
  <2>5. CASE v # Nil
    <3>1. k \in Keys /\ v \in Values /\ luaH_get(tb, k) = v
      BY <1>1, <2>5 DEF Lists, n
    <3>2. luaH_get(tb1, k) = Nil /\ (InArray(tb1, k) \/ ~MustRehash(tb1, k))
      <4>1. i \in 1 .. Len(es) /\ es[i][2] # Nil BY <2>5 DEF n
      <4> HIDE DEF tb1
      <4> QED BY <1>0, <1>1, <2>1, <4>1, NextFits
    <3>3. tb2 = Put(tb1, k, v) BY <2>2, <2>5
    <3>a. \A x : x # k =>
            ((\E j \in 1 .. i : es[j][1] = x /\ es[j][2] # Nil)
             <=> (\E j \in 1 .. (i - 1) : es[j][1] = x /\ es[j][2] # Nil))
      BY <2>3
    <3>b. \E j \in 1 .. i : es[j][1] = k /\ es[j][2] # Nil BY <2>3, <2>5
    <3> HIDE DEF tb1, tb2, k, v
    <3>4. Sound(tb1, Nodes(nh)) /\ NoGaps(tb1, Nodes(nh)) /\ sizearray(tb1) = na
          /\ (tb1.dummy <=> nh = 0)
      BY <2>1 DEF During
    <3>5. Updated(tb1, tb2, Nodes(nh), k, v) /\ NoGaps(tb2, Nodes(nh))
      BY <2>5, <3>1, <3>2, <3>3, <3>4, PutIs DEF Fits
    <3>6. ASSUME NEW x \in Keys
          PROVE  luaH_get(tb2, x) = IF \/ Stays(tb, x, na)
                                       \/ \E j \in 1 .. i : es[j][1] = x /\ es[j][2] # Nil
                                    THEN luaH_get(tb, x) ELSE Nil
      <4>1. CASE x = k BY <3>1, <3>5, <3>b, <4>1 DEF Updated
      <4>2. CASE x # k
        <5>1. luaH_get(tb2, x) = luaH_get(tb1, x) BY <3>5, <4>2 DEF Updated
        <5> QED BY <2>1, <3>a, <4>2, <5>1 DEF During
      <4> QED BY <4>1, <4>2
    <3>7. During(tb, tb2, es, i, na, nh) BY <3>4, <3>5, <3>6 DEF During, Updated
    <3> QED BY <2>3, <3>7 DEF tb2
  <2> QED BY <2>4, <2>5
<1>6. T \subseteq 0 .. n OBVIOUS
<1> HIDE DEF T
<1>7. T = 0 .. n BY <1>1, <1>4, <1>5, <1>6, UpTo
<1>8. \A i \in 0 .. n : During(tb, f[i], es, i, na, nh) BY <1>7 DEF T
<1> QED BY <1>1, <1>8 DEF f, e, es, n

\* tb1 has the same keys and values in the new parts.
Resized(tb, tb1, na, nh) ==
  /\ Sound(tb1, Nodes(nh)) /\ NoGaps(tb1, Nodes(nh)) /\ sizearray(tb1) = na
  /\ tb1.dummy <=> nh = 0
  /\ \A k \in Keys : luaH_get(tb1, k) = luaH_get(tb, k)

\* resize makes a table of the sizes asked for with the same fields, in which
\* every key counted for it finds room.
LEMMA ResizeIs ==
  ASSUME NEW tb, NEW S, Sound(tb, S), NEW na \in 0 .. TwoTo(MAXBITS), NEW nh \in Nat,
         NEW H, Room(tb, H, na, nh)
  PROVE  /\ Resized(tb, resize(tb, na, nh), na, nh)
         /\ \A k \in Keys : luaH_get(tb, k) = Nil /\ (InNew(k, na) \/ k \in H) =>
              \/ InArray(resize(tb, na, nh), k)
              \/ ~MustRehash(resize(tb, na, nh), k)
<1> DEFINE es == Reinserted(tb, na)
           f == Filled(Emptied(tb, na, nh), es)
           tb1 == resize(tb, na, nh)
<1>1. Len(es) \in Nat /\ Lists(tb, es, na) /\ During(tb, f[Len(es)], es, Len(es), na, nh)
  <2>1. Len(es) \in Nat => Len(es) \in 0 .. Len(es) OBVIOUS
  <2> HIDE DEF es
  <2> QED BY <2>1, FillingIs DEF es
<1>2. tb1 = f[Len(es)] BY DEF resize
<1> HIDE DEF es, tb1, f
<1>3. During(tb, tb1, es, Len(es), na, nh) BY <1>1, <1>2
<1>4. \A k \in Keys : luaH_get(tb1, k) = luaH_get(tb, k)
  BY <1>1, <1>3 DEF During, Lists
<1>5. Resized(tb, tb1, na, nh) BY <1>3, <1>4 DEF Resized, During
<1>6. ASSUME NEW k \in Keys, luaH_get(tb, k) = Nil, InNew(k, na) \/ k \in H
      PROVE  InArray(tb1, k) \/ ~MustRehash(tb1, k)
  <2>1. \A x : InArray(tb1, x) <=> InNew(x, na) BY <1>5 DEF Resized, InArray, InNew
  <2>2. CASE ~InArray(tb1, k)
    <3>1. k \in H BY <1>6, <2>1, <2>2
    <3>2. \A x \in Keys : luaH_get(tb1, x) # Nil /\ ~InArray(tb1, x) => x \in H
      BY <1>4, <2>1 DEF Room
    <3>3. Cardinality(H) \in Nat /\ Cardinality(H) # 0
      BY <3>1, FS_CardinalityType, FS_EmptySet DEF Room
    <3>4. nh # 0 /\ Cardinality(H) <= Nodes(nh)
      <4>1. Cardinality(H) <= nh BY DEF Room
      <4>2. nh <= Nodes(nh) /\ Nodes(nh) \in Nat BY NodesIs
      <4> QED BY <3>3, <4>1, <4>2
    <3>5. ~tb1.dummy BY <1>5, <3>4 DEF Resized
    <3>6. luaH_get(tb1, k) = Nil BY <1>4, <1>6
    <3>7. Sound(tb1, Nodes(nh)) /\ NoGaps(tb1, Nodes(nh)) /\ IsFiniteSet(H)
      BY <1>5 DEF Resized, Room
    <3> QED BY <3>1, <3>2, <3>4, <3>5, <3>6, <3>7, RoomFor
  <2> QED BY <2>2
<1> QED BY <1>5, <1>6 DEF tb1

-----------------------------------------------------------------------------
(* computesizes.                                                           *)

\* The members of A up to n, how many there are up to 2^i, and half of 2^i.
Below(A, n) == {x \in A : x <= n}
Cnt(A, i) == IF i = -1 THEN 0 ELSE Cardinality(Below(A, TwoTo(i)))
Half(i) == TwoTo(i) \div 2

\* A set of integer keys that may go to the array part.
Indices(A) == A \in SUBSET (1 .. TwoTo(MAXBITS))

\* Half of a power of two is the power before, or 0.
LEMMA HalfIs ==
  ASSUME NEW i \in Nat
  PROVE  /\ TwoTo(i) \in Nat /\ Half(i) \in Nat
         /\ \A n \in Nat : 2 * n > TwoTo(i) <=> n > Half(i)
         /\ i = 0 => Half(i) = 0
         /\ i # 0 => Half(i) = TwoTo(i - 1) /\ Half(i - 1) <= Half(i)
<1>1. CASE i = 0 BY <1>1, TwoToStep DEF Half
<1>2. CASE i # 0
  <2>1. i - 1 \in Nat /\ (i - 1) + 1 = i BY <1>2
  <2>2. TwoTo(i) = 2 * TwoTo(i - 1) /\ TwoTo(i - 1) \in Nat BY <2>1, TwoToStep, TwoToNat
  <2>3. Half(i) = TwoTo(i - 1) BY <2>2 DEF Half
  <2>4. Half(i - 1) <= TwoTo(i - 1) BY <2>2 DEF Half
  <2> QED BY <1>2, <2>2, <2>3, <2>4
<1> QED BY <1>1, <1>2

\* The sets that computesizes counts are finite.
LEMMA CountType ==
  ASSUME NEW A, Indices(A)
  PROVE  /\ IsFiniteSet(A) /\ Cardinality(A) \in Nat
         /\ \A n : /\ IsFiniteSet(Below(A, n)) /\ Cardinality(Below(A, n)) \in Nat
                   /\ Cardinality(Below(A, n)) <= Cardinality(A)
<1>1. TwoTo(MAXBITS) \in Nat BY TwoToNat, TableAssumption
<1>2. IsFiniteSet(1 .. TwoTo(MAXBITS)) BY <1>1, FS_Interval
<1>3. IsFiniteSet(A) BY <1>2, FS_Subset DEF Indices
<1>4. Cardinality(A) \in Nat BY <1>3, FS_CardinalityType
<1>5. ASSUME NEW n
      PROVE  /\ IsFiniteSet(Below(A, n)) /\ Cardinality(Below(A, n)) \in Nat
             /\ Cardinality(Below(A, n)) <= Cardinality(A)
  <2>1. Below(A, n) \in SUBSET A BY DEF Below
  <2>2. IsFiniteSet(Below(A, n)) /\ Cardinality(Below(A, n)) <= Cardinality(A)
    BY <1>3, <2>1, FS_Subset
  <2> QED BY <2>2, FS_CardinalityType
<1> QED BY <1>3, <1>4, <1>5

\* A slice adds its keys, and the keys below it fill half of 2^i at most.
LEMMA CountIs ==
  ASSUME NEW A, Indices(A), NEW i \in 0 .. MAXBITS
  PROVE  /\ Cnt(A, i) = Cnt(A, i - 1) + Nums(A)[i]
         /\ Cnt(A, i) \in Nat /\ Cnt(A, i - 1) \in Nat /\ Nums(A)[i] \in Nat
         /\ Cnt(A, i) <= Cardinality(A) /\ Cnt(A, i - 1) <= Half(i)
<1> DEFINE New == {k \in A : CeilLog2(k) = i}
           Old == IF i = 0 THEN {} ELSE Below(A, TwoTo(i - 1))
<1>1. MAXBITS \in Nat /\ i \in Nat /\ (i # 0 => i - 1 \in Nat /\ i - 1 # -1)
      /\ (i = 0 => i - 1 = -1) /\ i # -1
  BY TableAssumption
<1>2. Nums(A)[i] = Cardinality(New) BY DEF Nums
<1>3. IsFiniteSet(A) /\ New \in SUBSET A /\ IsFiniteSet(Old) BY CountType, FS_EmptySet
<1>4. IsFiniteSet(New) BY <1>3, FS_Subset
<1>5. Cnt(A, i) = Cardinality(Below(A, TwoTo(i))) /\ Cnt(A, i - 1) = Cardinality(Old)
  BY <1>1, FS_EmptySet DEF Cnt
<1>6. \A x \in A : x \in Nat /\ x # 0 BY TwoToNat, TableAssumption DEF Indices
<1>7. \A x \in A : CeilLog2(x) \in Nat BY <1>6, CeilLog2Is
<1>8. \A x \in A : x \in Below(A, TwoTo(i)) <=> CeilLog2(x) <= i
  BY <1>1, <1>6, CeilLog2Le DEF Below
<1>9. \A x \in A : x \in Old <=> CeilLog2(x) <= i - 1
  <2>1. CASE i = 0 BY <1>7, <2>1
  <2>2. CASE i # 0 BY <1>1, <1>6, <2>2, CeilLog2Le DEF Below
  <2> QED BY <2>1, <2>2
<1>10. Old \subseteq A /\ Below(A, TwoTo(i)) \subseteq A BY DEF Below
<1>11. Below(A, TwoTo(i)) = Old \cup New
  <2>1. \A x \in A : x \in Below(A, TwoTo(i)) <=> x \in Old \/ x \in New
    BY <1>1, <1>7, <1>8, <1>9
  <2> HIDE DEF Old
  <2> QED BY <1>10, <2>1
<1>12. Old \cap New = {}
  <2>1. \A x \in A : ~(x \in Old /\ x \in New) BY <1>1, <1>7, <1>9
  <2> HIDE DEF Old
  <2> QED BY <1>10, <2>1
<1> HIDE DEF Old, New
<1>13. /\ Cardinality(Old \cup New)
          = Cardinality(Old) + Cardinality(New) - Cardinality(Old \cap New)
       /\ Cardinality(Old) \in Nat /\ Cardinality(New) \in Nat
  BY <1>3, <1>4, FS_Union, FS_CardinalityType
<1>14. Cardinality(Old \cap New) = 0 BY <1>12, FS_EmptySet
<1>15. Cardinality(Below(A, TwoTo(i))) <= Cardinality(A) BY CountType
<1>16. Cardinality(Old) <= Half(i)
  <2>1. CASE i = 0
    <3>1. Cardinality(Old) = 0 /\ Half(i) = 0 BY <1>1, <2>1, HalfIs, FS_EmptySet DEF Old
    <3> QED BY <3>1
  <2>2. CASE i # 0
    <3>1. TwoTo(i - 1) \in Nat /\ Half(i) = TwoTo(i - 1) BY <1>1, <2>2, TwoToNat, HalfIs
    <3>2. Old \in SUBSET (1 .. TwoTo(i - 1)) BY <1>6, <2>2, <3>1 DEF Old, Below
    <3>3. IsFiniteSet(1 .. TwoTo(i - 1)) /\ Cardinality(1 .. TwoTo(i - 1)) = TwoTo(i - 1)
      BY <3>1, FS_Interval
    <3>4. Cardinality(Old) <= Cardinality(1 .. TwoTo(i - 1)) BY <3>2, <3>3, FS_Subset
    <3> QED BY <3>1, <3>3, <3>4
  <2> QED BY <2>1, <2>2
<1> QED BY <1>2, <1>5, <1>11, <1>13, <1>14, <1>15, <1>16

\* The loop, as computesizes defines it.
Slice(nums, narray, i, acc) ==
  LET a == acc.a + nums[i]
  IN IF TwoTo(i) \div 2 >= narray \/ acc.a = narray THEN acc
     ELSE IF nums[i] > 0 /\ a > TwoTo(i) \div 2
          THEN [a |-> a, na |-> a, n |-> TwoTo(i)]
          ELSE [acc EXCEPT !.a = a]

\* The recursion of computesizes.
Loops(f, nums, narray, m) ==
  f = [i \in -1 .. m |-> IF i = -1 THEN [a |-> 0, na |-> 0, n |-> 0]
                         ELSE Slice(nums, narray, i, f[i - 1])]

\* The recursive function of computesizes exists.
LEMMA LoopsExists ==
  ASSUME NEW m \in Nat, NEW nums, NEW narray
  PROVE  \E f : Loops(f, nums, narray, m - 1)
<1> DEFINE T == {k \in 0 .. m : \E f : Loops(f, nums, narray, k - 1)}
<1>1. 0 \in T
  <2>1. PICK f : f = [k \in -1 .. -1 |-> [a |-> 0, na |-> 0, n |-> 0]] OBVIOUS
  <2>2. f = [k \in -1 .. (0 - 1) |-> IF k = -1 THEN [a |-> 0, na |-> 0, n |-> 0]
                                    ELSE Slice(nums, narray, k, f[k - 1])]
    BY <2>1
  <2>3. Loops(f, nums, narray, 0 - 1) BY <2>2 DEF Loops
  <2> QED BY <2>3
<1>2. ASSUME NEW k \in 1 .. m, k - 1 \in T PROVE k \in T
  <2> DEFINE d == k - 1
  <2>1. PICK p : Loops(p, nums, narray, d - 1) BY <1>2
  <2>2. PICK q : q = [i \in -1 .. d |-> IF i = d THEN Slice(nums, narray, d, p[d - 1])
                                        ELSE p[i]]
    OBVIOUS
  <2>3. d \in Nat /\ k \in 0 .. m /\ d # -1 OBVIOUS
  <2> HIDE DEF d
  <2>4. \A i \in -1 .. (d - 1) : q[i] = p[i] BY <2>2, <2>3
  <2>5. ASSUME NEW i \in -1 .. d
        PROVE  q[i] = IF i = -1 THEN [a |-> 0, na |-> 0, n |-> 0]
                      ELSE Slice(nums, narray, i, q[i - 1])
    <3>1. CASE i = d
      <4>1. q[i] = Slice(nums, narray, d, p[d - 1]) BY <2>2, <2>3, <3>1
      <4>2. q[d - 1] = p[d - 1] BY <2>3, <2>4
      <4> QED BY <2>3, <3>1, <4>1, <4>2
    <3>2. CASE i # d
      <4>1. i \in -1 .. (d - 1) /\ (i # -1 => i - 1 \in -1 .. (d - 1)) BY <2>3, <3>2
      <4>2. p[i] = IF i = -1 THEN [a |-> 0, na |-> 0, n |-> 0]
                   ELSE Slice(nums, narray, i, p[i - 1])
        BY <2>1, <4>1 DEF Loops
      <4> QED BY <2>4, <4>1, <4>2
    <3> QED BY <3>1, <3>2
  <2>6. q = [i \in -1 .. d |-> q[i]] BY <2>2
  <2>7. Loops(q, nums, narray, d) BY <2>5, <2>6 DEF Loops
  <2> QED BY <2>3, <2>7 DEF d
<1>3. T \subseteq 0 .. m OBVIOUS
<1> HIDE DEF T
<1>4. T = 0 .. m BY <1>1, <1>2, <1>3, UpTo
<1> QED BY <1>4 DEF T

\* After slice i: n is the best size so far.
BestSoFar(A, acc, i) ==
  /\ acc \in [a : Nat, na : Nat, n : Nat]
  /\ acc.n = 0 \/ \E l \in 0 .. i : acc.n = TwoTo(l) /\ 2 * Cnt(A, l) > acc.n
  /\ \A j \in 0 .. i : TwoTo(j) > acc.n => 2 * Cnt(A, j) <= TwoTo(j)
  /\ acc.na = Cardinality(Below(A, acc.n))
  /\ acc.a = Cnt(A, i) \/ (i >= 0 /\ Half(i) >= Cardinality(A))

\* One slice of the loop of computesizes keeps its invariant.
LEMMA SliceIs ==
  ASSUME NEW A, Indices(A), NEW i \in 0 .. MAXBITS, NEW acc, BestSoFar(A, acc, i - 1)
  PROVE  BestSoFar(A, Slice(Nums(A), Cardinality(A), i, acc), i)
<1> DEFINE nums == Nums(A)[i]
           c == Cnt(A, i)
           c0 == Cnt(A, i - 1)
           card == Cardinality(A)
           new == Slice(Nums(A), card, i, acc)
<1>1. /\ MAXBITS \in Nat /\ i \in Nat /\ i # -1
      /\ \A j : j \in 0 .. i <=> j \in 0 .. (i - 1) \/ j = i
  BY TableAssumption
<1>2. /\ c = c0 + nums /\ c \in Nat /\ c0 \in Nat /\ nums \in Nat /\ c <= card /\ c0 <= Half(i)
      /\ card \in Nat
  BY CountIs, CountType
<1>3. /\ TwoTo(i) \in Nat /\ Half(i) \in Nat /\ \A n \in Nat : 2 * n > TwoTo(i) <=> n > Half(i)
  BY <1>1, HalfIs
<1>4. \A j \in 0 .. i : TwoTo(j) <= TwoTo(i) BY <1>1, TwoToMono
<1>5. c = Cardinality(Below(A, TwoTo(i))) BY <1>1 DEF Cnt
<1>6. ASSUME Half(i) < card PROVE acc.a = c0
  <2>1. CASE i = 0 BY <2>1 DEF BestSoFar
  <2>2. CASE i # 0
    <3>1. Half(i - 1) <= Half(i) /\ Half(i - 1) \in Nat BY <1>1, <2>2, HalfIs
    <3> QED BY <1>2, <1>3, <1>6, <3>1 DEF BestSoFar
  <2> QED BY <2>1, <2>2
<1>7. /\ acc \in [a : Nat, na : Nat, n : Nat] /\ acc.n \in Nat
      /\ acc.n = 0 \/ \E l \in 0 .. i : acc.n = TwoTo(l) /\ 2 * Cnt(A, l) > acc.n
      /\ \A j \in 0 .. (i - 1) : TwoTo(j) > acc.n => 2 * Cnt(A, j) <= TwoTo(j)
      /\ acc.na = Cardinality(Below(A, acc.n))
  BY <1>1 DEF BestSoFar
<1>8. new = IF Half(i) >= card \/ acc.a = card THEN acc
            ELSE IF nums > 0 /\ acc.a + nums > Half(i)
                 THEN [a |-> acc.a + nums, na |-> acc.a + nums, n |-> TwoTo(i)]
                 ELSE [acc EXCEPT !.a = acc.a + nums]
  BY DEF Slice, Half
<1>9. c <= Half(i) => 2 * c <= TwoTo(i) BY <1>2, <1>3
<1> HIDE DEF nums, c, c0, card, new
<1>10. \A j \in 0 .. i : TwoTo(j) > acc.n /\ (j = i => c <= Half(i)) => 2 * Cnt(A, j) <= TwoTo(j)
  BY <1>1, <1>7, <1>9 DEF c
<1>11. CASE Half(i) >= card
  <2>1. new = acc /\ c <= Half(i) BY <1>2, <1>3, <1>8, <1>11
  <2>2. i >= 0 BY <1>1
  <2> QED BY <1>7, <1>10, <1>11, <2>1, <2>2 DEF BestSoFar, card, new
<1>12. CASE ~(Half(i) >= card)
  <2>1. Half(i) < card /\ acc.a = c0 BY <1>2, <1>3, <1>6, <1>12
  <2>2. acc.a # card BY <1>2, <1>3, <2>1
  <2>3. CASE nums > 0 /\ c > Half(i)
    <3>1. new = [a |-> c, na |-> c, n |-> TwoTo(i)] BY <1>2, <1>8, <1>12, <2>1, <2>2, <2>3
    <3>2. new.a = c /\ new.na = c /\ new.n = TwoTo(i) BY <3>1
    <3>3. new \in [a : Nat, na : Nat, n : Nat] BY <1>2, <1>3, <3>1
    <3>4. \E l \in 0 .. i : new.n = TwoTo(l) /\ 2 * Cnt(A, l) > new.n
      BY <1>1, <1>2, <1>3, <2>3, <3>2 DEF c
    <3>5. \A j \in 0 .. i : TwoTo(j) > new.n => 2 * Cnt(A, j) <= TwoTo(j)
      <4>1. \A j \in 0 .. i : TwoTo(j) \in Nat BY TwoToNat
      <4> QED BY <1>3, <1>4, <3>2, <4>1
    <3>6. new.na = Cardinality(Below(A, new.n)) BY <1>5, <3>2 
    <3>7. new.a = Cnt(A, i) BY <3>2 DEF c
    <3> HIDE DEF new
    <3>8. BestSoFar(A, new, i) BY <3>3, <3>4, <3>5, <3>6, <3>7 DEF BestSoFar
    <3> QED BY <3>8 DEF new, card
  <2>4. CASE ~(nums > 0 /\ c > Half(i))
    <3>1. new = [acc EXCEPT !.a = c] BY <1>2, <1>8, <1>12, <2>1, <2>2, <2>4
    <3>2. c <= Half(i) BY <1>2, <1>3, <2>4
    <3>3. new \in [a : Nat, na : Nat, n : Nat] /\ new.a = c /\ new.na = acc.na /\ new.n = acc.n
      BY <1>2, <1>7, <3>1
    <3>4. \A j \in 0 .. i : TwoTo(j) > new.n => 2 * Cnt(A, j) <= TwoTo(j)
      BY <1>10, <3>2, <3>3
    <3> QED BY <1>7, <3>3, <3>4 DEF BestSoFar, c, new, card
  <2> QED BY <2>3, <2>4
<1> QED BY <1>11, <1>12 DEF new, card

\* The best size of an array part for the keys A: more than half of it is used.
Best(A) == Max({0} \cup {n \in {TwoTo(i) : i \in 0 .. MAXBITS} :
                           2 * Cardinality({x \in A : x <= n}) > n})

\* computesizes returns the best size, and how many keys go there.
LEMMA ComputesizesIs ==
  ASSUME NEW A, Indices(A)
  PROVE  LET new == computesizes(Nums(A), Cardinality(A))
         IN /\ new.n = Best(A) /\ new.n \in 0 .. TwoTo(MAXBITS)
            /\ new.na = Cardinality(Below(A, new.n))
<1> DEFINE nums == Nums(A)
           card == Cardinality(A)
           new == computesizes(nums, card)
           M == MAXBITS
<1>1. M \in Nat /\ M + 1 \in Nat /\ (M + 1) - 1 = M BY TableAssumption
<1> HIDE DEF nums, card
<1>2. PICK f : Loops(f, nums, card, M) /\ new = f[M]
  <2>1. \E f : Loops(f, nums, card, (M + 1) - 1)
    <3> HIDE DEF M
    <3> QED BY <1>1, LoopsExists
  <2>2. \E f : Loops(f, nums, card, M) BY <1>1, <2>1
  <2> QED BY <2>2 DEF computesizes, Loops, Slice
<1> HIDE DEF new, M
<1> DEFINE T == {k \in 0 .. (M + 1) : BestSoFar(A, f[k - 1], k - 1)}
<1>3. 0 \in T
  <2>1. f[-1] = [a |-> 0, na |-> 0, n |-> 0] BY <1>1, <1>2 DEF Loops
  <2>b. TwoTo(MAXBITS) \in Nat BY TwoToNat, TableAssumption
  <2>c. \A x \in A : x \in 1 .. TwoTo(MAXBITS) BY DEF Indices
  <2>d. \A x \in A : ~(x <= 0) BY <2>b, <2>c
  <2>2. Below(A, 0) = {} BY <2>d DEF Below
  <2>3. Cardinality(Below(A, 0)) = 0 BY <2>2, FS_EmptySet
  <2> DEFINE zero == f[-1]
  <2>a. /\ zero \in [a : Nat, na : Nat, n : Nat] /\ zero.a = 0 /\ zero.na = 0 /\ zero.n = 0
        /\ Cnt(A, -1) = 0
    BY <2>1 DEF Cnt
  <2> HIDE DEF zero
  <2>4. BestSoFar(A, zero, -1) BY <2>3, <2>a DEF BestSoFar
  <2>5. 0 - 1 = -1 /\ 0 \in 0 .. (M + 1) BY <1>1
  <2> QED BY <2>4, <2>5 DEF zero
<1>4. ASSUME NEW k \in 1 .. (M + 1), k - 1 \in T PROVE k \in T
  <2> DEFINE i == k - 1
  <2>1. i \in 0 .. MAXBITS /\ k \in 0 .. (M + 1) /\ i # -1 /\ i \in -1 .. M BY <1>1 DEF M
  <2>2. BestSoFar(A, f[i - 1], i - 1) BY <1>4
  <2> HIDE DEF i
  <2>3. f[i] = Slice(nums, card, i, f[i - 1]) BY <1>2, <2>1 DEF Loops
  <2>4. BestSoFar(A, f[i], i) BY <2>1, <2>2, <2>3, SliceIs DEF nums, card
  <2> QED BY <2>1, <2>4 DEF i
<1>5. T \subseteq 0 .. (M + 1) OBVIOUS
<1> HIDE DEF T
<1>6. T = 0 .. (M + 1) BY <1>1, <1>3, <1>4, <1>5, UpTo
<1>7. M + 1 \in T BY <1>1, <1>6
<1>8. BestSoFar(A, new, M) BY <1>1, <1>2, <1>7 DEF T
<1> DEFINE C == {0} \cup {n \in {TwoTo(i) : i \in 0 .. MAXBITS} :
                           2 * Cardinality({x \in A : x <= n}) > n}
<1>9. TwoTo(M) \in Nat /\ \A i \in 0 .. M : TwoTo(i) \in 0 .. TwoTo(M)
  BY <1>1, TwoToNat, TwoToMono
<1>10. C \in SUBSET (0 .. TwoTo(M)) BY <1>9 DEF M
<1>11. \A i \in 0 .. M : Cnt(A, i) = Cardinality({x \in A : x <= TwoTo(i)}) /\ i # -1
  BY <1>1 DEF Cnt, Below
<1>12. new.n \in C
  <2>1. CASE new.n = 0 BY <2>1
  <2>2. CASE new.n # 0
    <3>1. PICK l \in 0 .. M : new.n = TwoTo(l) /\ 2 * Cnt(A, l) > new.n
      BY <1>8, <2>2 DEF BestSoFar
    <3> QED BY <1>11, <3>1 DEF M
  <2> QED BY <2>1, <2>2
<1>13. \A n \in C : n <= new.n
  <2> SUFFICES ASSUME NEW n \in C, ~(n <= new.n) PROVE FALSE OBVIOUS
  <2>1. new.n \in Nat /\ n \in Nat /\ n # 0 BY <1>9, <1>10, <1>12
  <2>2. PICK i \in 0 .. M : n = TwoTo(i) /\ 2 * Cardinality({x \in A : x <= n}) > n
    BY <2>1 DEF M
  <2>3. 2 * Cnt(A, i) > TwoTo(i) BY <1>11, <2>2
  <2>4. 2 * Cnt(A, i) <= TwoTo(i) BY <1>8, <2>1, <2>2 DEF BestSoFar
  <2>5. Cardinality(Below(A, TwoTo(i))) \in Nat BY CountType
  <2>6. Cnt(A, i) \in Nat BY <1>11, <2>5 DEF Below
  <2> QED BY <2>1, <2>2, <2>3, <2>4, <2>6
<1>14. Best(A) = Max(C) BY DEF Best
<1> HIDE DEF C
<1>15. C # {} BY <1>12
<1>16. Max(C) \in C /\ \A n \in C : n <= Max(C) BY <1>9, <1>10, <1>15, MaxIs
<1>17. Max(C) = new.n /\ new.n \in 0 .. TwoTo(M)
  <2>1. Max(C) \in 0 .. TwoTo(M) /\ new.n \in 0 .. TwoTo(M) BY <1>10, <1>12, <1>16
  <2>2. Max(C) <= new.n /\ new.n <= Max(C) BY <1>12, <1>13, <1>16
  <2> HIDE DEF new
  <2> DEFINE b == Max(C)
             c == new.n
  <2>3. b \in 0 .. TwoTo(M) /\ c \in 0 .. TwoTo(M) /\ b <= c /\ c <= b BY <2>1, <2>2
  <2> HIDE DEF b, c
  <2>4. b = c BY <1>9, <2>3
  <2> QED BY <2>1, <2>4 DEF b, c
<1> QED BY <1>8, <1>14, <1>17 DEF BestSoFar, new, nums, card, M

-----------------------------------------------------------------------------
(* rehash.                                                                 *)

\* The keys in use once k is added, and the integers up to n among them.
Used(tb, k) == {x \in Keys : luaH_get(tb, x) # Nil} \cup {k}
Ints(tb, k, n) == {x \in Used(tb, k) \cap IntKeys : x <= n}

\* An integer key is a positive number.
LEMMA IntKeyIs ==
  \A x \in IntKeys : x \in Keys /\ x \in Nat /\ x >= 1
<1>1. IntKeys \subseteq 1 .. MaxInt /\ MaxInt \in Nat BY TableAssumption
<1> QED BY <1>1 DEF Keys

\* The keys with a value, by part.
LEMMA InUseIs ==
  ASSUME NEW tb, NEW S, Sound(tb, S)
  PROVE  /\ InUse(tb) = {x \in Keys : InArray(tb, x) /\ luaH_get(tb, x) # Nil}
         /\ HashUse(tb) = {x \in Keys : ~InArray(tb, x) /\ luaH_get(tb, x) # Nil}
         /\ IsFiniteSet(InUse(tb)) /\ IsFiniteSet(HashUse(tb))
         /\ Cardinality(HashUse(tb)) <= S /\ (tb.dummy => HashUse(tb) = {})
<1> DEFINE N == 0 .. (S - 1)
<1>1. sizearray(tb) \in Nat /\ S \in Nat \ {0} /\ DOMAIN tb.node = N
      /\ \A i \in N : tb.node[i].key # Nil => tb.node[i].key \in Keys
  BY TypedIs, Basics DEF Sound
<1>2. \A x \in Keys : InArray(tb, x) => x \in 1 .. sizearray(tb) /\ luaH_get(tb, x) = tb.array[x]
  <2> SUFFICES ASSUME NEW x \in Keys, InArray(tb, x)
               PROVE  x \in 1 .. sizearray(tb) /\ luaH_get(tb, x) = tb.array[x]
    OBVIOUS
  <2>1. luaH_get(tb, x) = tb.array[x] BY GetIs
  <2>2. x \in Nat /\ x >= 1 /\ x <= sizearray(tb) BY IntKeyIs DEF InArray
  <2> QED BY <1>1, <2>1, <2>2
<1>3. \A x \in 1 .. sizearray(tb) : tb.array[x] # Nil => x \in Keys /\ InArray(tb, x)
  BY <1>1 DEF Sound, ArrayOK, InArray, Keys
<1>4. InUse(tb) = {x \in Keys : InArray(tb, x) /\ luaH_get(tb, x) # Nil}
  BY <1>2, <1>3 DEF InUse
<1> DEFINE J == {j \in N : tb.node[j].val # Nil}
           Op(j) == tb.node[j].key
<1>5. HashUse(tb) = {Op(i) : i \in J} BY <1>1 DEF HashUse
<1>6. \A i \in J : /\ tb.node[i].key \in Keys /\ Live(tb, i, tb.node[i].key)
                   /\ ~InArray(tb, tb.node[i].key)
                   /\ luaH_get(tb, tb.node[i].key) = tb.node[i].val
  <2> SUFFICES ASSUME NEW i \in N, tb.node[i].val # Nil
               PROVE  /\ tb.node[i].key \in Keys /\ Live(tb, i, tb.node[i].key)
                      /\ ~InArray(tb, tb.node[i].key)
                      /\ luaH_get(tb, tb.node[i].key) = tb.node[i].val
    OBVIOUS
  <2>1. tb.node[i].key # Nil BY DEF Sound, Linked
  <2>2. ~tb.node[i].dead BY DEF Sound, Single
  <2>3. Live(tb, i, tb.node[i].key) BY <2>2 DEF Live
  <2>4. ~InArray(tb, tb.node[i].key) BY <2>1 DEF Sound, Homed
  <2> QED BY <1>1, <2>1, <2>3, <2>4, GetIs
<1>7. \A x \in Keys : ~InArray(tb, x) /\ luaH_get(tb, x) # Nil => \E i \in J : x = Op(i)
  BY GetIs DEF Live
<1>8. HashUse(tb) = {x \in Keys : ~InArray(tb, x) /\ luaH_get(tb, x) # Nil}
  <2>1. \A x \in HashUse(tb) : x \in Keys /\ ~InArray(tb, x) /\ luaH_get(tb, x) # Nil
    <3> SUFFICES ASSUME NEW i \in J
                 PROVE  Op(i) \in Keys /\ ~InArray(tb, Op(i)) /\ luaH_get(tb, Op(i)) # Nil
      BY <1>5
    <3> QED BY <1>6
  <2>2. \A x \in Keys : ~InArray(tb, x) /\ luaH_get(tb, x) # Nil => x \in HashUse(tb)
    BY <1>5, <1>7
  <2> QED BY <2>1, <2>2
<1>9. IsFiniteSet(1 .. sizearray(tb)) /\ IsFiniteSet(N) /\ Cardinality(N) = S
  BY <1>1, FS_Interval
<1>10. IsFiniteSet(InUse(tb))
  <2>1. InUse(tb) \in SUBSET (1 .. sizearray(tb)) BY DEF InUse
  <2> QED BY <1>9, <2>1, FS_Subset
<1>11. IsFiniteSet(J) /\ Cardinality(J) <= S /\ Cardinality(J) \in Nat
  <2>1. J \in SUBSET N OBVIOUS
  <2> HIDE DEF J, N
  <2>2. IsFiniteSet(J) /\ Cardinality(J) <= Cardinality(N) BY <1>9, <2>1, FS_Subset
  <2> QED BY <1>9, <2>2, FS_CardinalityType
<1>12. IsFiniteSet(HashUse(tb)) /\ Cardinality(HashUse(tb)) <= Cardinality(J)
  <2>1. DEFINE f == [i \in J |-> Op(i)]
  <2>2. f \in Surjection(J, HashUse(tb))
    <3>1. f \in [J -> HashUse(tb)] BY <1>5
    <3>2. \A x \in HashUse(tb) : \E i \in J : f[i] = x BY <1>5
    <3> HIDE DEF f, J
    <3> QED BY <3>1, <3>2 DEF Surjection
  <2> HIDE DEF f, J
  <2> QED BY <1>11, <2>2, FS_Surjection
<1>13. Cardinality(HashUse(tb)) <= S
  <2>1. Cardinality(HashUse(tb)) \in Nat BY <1>12, FS_CardinalityType
  <2> HIDE DEF J
  <2> QED BY <1>1, <1>11, <1>12, <2>1
<1>14. ASSUME tb.dummy PROVE HashUse(tb) = {}
  <2>1. N = {0} /\ tb.node[0].key = Nil BY <1>14 DEF Sound, FreeBelow
  <2>2. tb.node[0].val = Nil BY <2>1 DEF Sound, Linked
  <2> QED BY <1>5, <2>1, <2>2
<1> QED BY <1>4, <1>8, <1>10, <1>12, <1>13, <1>14

\* NewSizes, with its counts named.
LEMMA NewSizesAre ==
  ASSUME NEW tb, NEW ek, NEW ints, ints = ArrayKeys(tb, ek),
         NEW c, c = computesizes(Nums(ints), Cardinality(ints)),
         NEW tot, tot = Cardinality(InUse(tb)) + Cardinality(HashUse(tb)) + 1
  PROVE  NewSizes(tb, ek) = [array |-> c.n, hash |-> tot - c.na]
BY DEF NewSizes

\* What rehash counts and chooses.
LEMMA NewSizesIs ==
  ASSUME NEW tb, NEW S, Sound(tb, S), NEW k \in Keys, luaH_get(tb, k) = Nil
  PROVE  LET new == NewSizes(tb, k)
             A == Ints(tb, k, TwoTo(MAXBITS))
         IN /\ Indices(A)
            /\ new.array = Best(A) /\ new.array \in 0 .. TwoTo(MAXBITS)
            /\ IsFiniteSet(Used(tb, k)) /\ new.hash \in Nat
            /\ new.hash = Cardinality(Used(tb, k) \ Ints(tb, k, new.array))
            /\ new = [array |-> new.array, hash |-> new.hash]
<1> DEFINE A == Ints(tb, k, TwoTo(MAXBITS))
           U == Used(tb, k)
           I == InUse(tb)
           H == HashUse(tb)
           c == computesizes(Nums(A), Cardinality(A))
           new == NewSizes(tb, k)
<1>1. TwoTo(MAXBITS) \in Nat BY TwoToNat, TableAssumption
<1>2. /\ I = {x \in Keys : InArray(tb, x) /\ luaH_get(tb, x) # Nil}
      /\ H = {x \in Keys : ~InArray(tb, x) /\ luaH_get(tb, x) # Nil}
      /\ IsFiniteSet(I) /\ IsFiniteSet(H)
  BY InUseIs
<1>3. U = (I \cup H) \cup {k} BY <1>2 DEF Used
<1>4. I \cap H = {} /\ k \notin I \cup H BY <1>2
<1>5. \A x : x \in IntKeys => x \in Nat /\ x >= 1 BY TableAssumption
<1>6. Indices(A) BY <1>1, <1>5 DEF Indices, Ints
<1>7. ArrayKeys(tb, k) = A
  <2>1. \A x \in I : ArrayIndex(x)
    <3> SUFFICES ASSUME NEW x \in I PROVE ArrayIndex(x) OBVIOUS
    <3>1. x \in IntKeys /\ x <= sizearray(tb) BY <1>2 DEF InArray
    <3>2. sizearray(tb) \in Nat /\ sizearray(tb) <= TwoTo(MAXBITS)
      BY TypedIs DEF Sound, ArrayOK
    <3> QED BY <1>1, <1>5, <3>1, <3>2 DEF ArrayIndex
  <2> HIDE DEF I, H, U
  <2>2. \A x : x \in A <=> x \in U /\ ArrayIndex(x) BY DEF Ints, ArrayIndex, U
  <2>3. \A x : x \in ArrayKeys(tb, k) <=> x \in U /\ ArrayIndex(x)
    BY <1>3, <2>1 DEF ArrayKeys, I, H
  <2> HIDE DEF A
  <2> QED BY <2>2, <2>3
<1>8. IsFiniteSet(U) /\ Cardinality(U) = Cardinality(I) + Cardinality(H) + 1
      /\ Cardinality(I) \in Nat /\ Cardinality(H) \in Nat
  <2> HIDE DEF U, I, H
  <2>1. IsFiniteSet(I \cup H) /\ Cardinality(I \cup H) = Cardinality(I) + Cardinality(H) - 0
    BY <1>2, <1>4, FS_Union, FS_EmptySet
  <2>2. IsFiniteSet(U) /\ Cardinality(U) = Cardinality(I \cup H) + 1
    BY <1>3, <1>4, <2>1, FS_AddElement
  <2>3. Cardinality(I) \in Nat /\ Cardinality(H) \in Nat BY <1>2, FS_CardinalityType
  <2> QED BY <2>1, <2>2, <2>3
<1>9. /\ c.n = Best(A) /\ c.n \in 0 .. TwoTo(MAXBITS)
      /\ c.na = Cardinality(Below(A, c.n))
  <2> HIDE DEF A
  <2> QED BY <1>6, ComputesizesIs
<1> DEFINE tot == Cardinality(I) + Cardinality(H) + 1
<1>10. /\ new.array = c.n /\ new.hash = tot - c.na
       /\ new = [array |-> new.array, hash |-> new.hash]
       /\ tot = Cardinality(U) /\ tot \in Nat
  <2> HIDE DEF A
  <2>1. A = ArrayKeys(tb, k) /\ c = computesizes(Nums(A), Cardinality(A)) BY <1>7
  <2>2. tot = Cardinality(InUse(tb)) + Cardinality(HashUse(tb)) + 1 OBVIOUS
  <2>3. tot = Cardinality(U) /\ tot \in Nat
    <3> HIDE DEF U, I, H
    <3> QED BY <1>8
  <2> HIDE DEF c, tot, U
  <2>4. NewSizes(tb, k) = [array |-> c.n, hash |-> tot - c.na] BY <2>1, <2>2, NewSizesAre
  <2>5. new = [array |-> c.n, hash |-> tot - c.na] BY <2>4
  <2> HIDE DEF new
  <2> QED BY <2>3, <2>5
<1> HIDE DEF tot
<1> HIDE DEF new, c
<1>11. Below(A, c.n) = Ints(tb, k, c.n) /\ Ints(tb, k, c.n) \in SUBSET U
  <2>1. \A x \in IntKeys : x <= c.n => x <= TwoTo(MAXBITS) BY <1>1, <1>5, <1>9
  <2> QED BY <2>1 DEF Below, Ints
<1>12. /\ Cardinality(U \ Ints(tb, k, c.n)) = Cardinality(U) - Cardinality(Ints(tb, k, c.n))
       /\ Cardinality(U \ Ints(tb, k, c.n)) \in Nat
  <2> DEFINE X == Ints(tb, k, c.n)
  <2>1. X \in SUBSET U /\ IsFiniteSet(U) BY <1>8, <1>11
  <2> HIDE DEF U, X
  <2>2. U \cap X = X BY <2>1
  <2>3. IsFiniteSet(U \ X) /\ Cardinality(U \ X) = Cardinality(U) - Cardinality(U \cap X)
    BY <2>1, FS_Difference
  <2>4. Cardinality(U \ X) \in Nat BY <2>3, FS_CardinalityType
  <2>5. Cardinality(U \ X) = Cardinality(U) - Cardinality(X) BY <2>2, <2>3
  <2> QED BY <2>4, <2>5 DEF U, X
<1>13. new.hash = Cardinality(U \ Ints(tb, k, new.array))
  <2> HIDE DEF U, I, H, A
  <2>1. c.na = Cardinality(Ints(tb, k, c.n)) /\ new.array = c.n BY <1>9, <1>10, <1>11
  <2>2. new.hash = Cardinality(U) - c.na
    <3>1. IsFiniteSet(Ints(tb, k, c.n)) BY <1>8, <1>11, FS_Subset
    <3>2. c.na \in Nat BY <2>1, <3>1, FS_CardinalityType
    <3> QED BY <1>8, <1>10, <3>2
  <2> QED BY <1>12, <2>1, <2>2
<1> QED BY <1>6, <1>8, <1>9, <1>10, <1>12, <1>13 DEF new

\* The sizes have room for the keys and the extra one.
LEMMA RehashRoom ==
  ASSUME NEW tb, NEW S, Sound(tb, S), NEW k \in Keys, luaH_get(tb, k) = Nil
  PROVE  LET new == NewSizes(tb, k)
             H == Used(tb, k) \ Ints(tb, k, new.array)
         IN /\ new.array \in 0 .. TwoTo(MAXBITS) /\ new.hash \in Nat
            /\ Room(tb, H, new.array, new.hash)
            /\ InNew(k, new.array) \/ k \in H
<1> DEFINE new == NewSizes(tb, k)
           H == Used(tb, k) \ Ints(tb, k, new.array)
<1>1. /\ new.array \in 0 .. TwoTo(MAXBITS) /\ new.hash \in Nat /\ new.hash = Cardinality(H)
      /\ IsFiniteSet(Used(tb, k))
  BY NewSizesIs
<1> HIDE DEF new
<1>2. IsFiniteSet(H) BY <1>1, FS_Difference
<1>3. \A x \in Used(tb, k) : ~InNew(x, new.array) => x \in H BY DEF Ints, InNew
<1>4. k \in Used(tb, k) /\ \A x \in Keys : luaH_get(tb, x) # Nil => x \in Used(tb, k)
  BY DEF Used
<1>5. Cardinality(H) <= new.hash BY <1>1
<1> HIDE DEF H
<1>6. Room(tb, H, new.array, new.hash) BY <1>2, <1>3, <1>4, <1>5 DEF Room
<1> QED BY <1>1, <1>3, <1>4, <1>6 DEF H, new

\* rehash keeps every field and leaves room for the new key.
LEMMA RehashIs ==
  ASSUME NEW tb, NEW S, Sound(tb, S), NEW k \in Keys, luaH_get(tb, k) = Nil
  PROVE  LET new == NewSizes(tb, k)
             tb1 == rehash(tb, k)
         IN /\ Resized(tb, tb1, new.array, new.hash)
            /\ InArray(tb1, k) \/ ~MustRehash(tb1, k)
<1> DEFINE new == NewSizes(tb, k)
           H == Used(tb, k) \ Ints(tb, k, new.array)
           tb1 == resize(tb, new.array, new.hash)
<1>1. /\ new.array \in 0 .. TwoTo(MAXBITS) /\ new.hash \in Nat
      /\ Room(tb, H, new.array, new.hash)
      /\ InNew(k, new.array) \/ k \in H
  BY RehashRoom
<1>2. rehash(tb, k) = tb1 BY DEF rehash
<1> HIDE DEF new, H
<1>3. /\ Resized(tb, tb1, new.array, new.hash)
      /\ InArray(tb1, k) \/ ~MustRehash(tb1, k)
  <2> HIDE DEF tb1
  <2>1. /\ Resized(tb, resize(tb, new.array, new.hash), new.array, new.hash)
        /\ \A x \in Keys : luaH_get(tb, x) = Nil /\ (InNew(x, new.array) \/ x \in H) =>
             \/ InArray(resize(tb, new.array, new.hash), x)
             \/ ~MustRehash(resize(tb, new.array, new.hash), x)
    BY <1>1, ResizeIs
  <2> QED BY <1>1, <2>1 DEF tb1
<1> QED BY <1>2, <1>3 DEF new

-----------------------------------------------------------------------------
(* The calls.                                                              *)

\* tb1 is tb with the value v for k.
Assigned(tb, tb1, S1, k, v) ==
  /\ Sound(tb1, S1) /\ luaH_get(tb1, k) = v
  /\ \A x \in Keys \ {k} : luaH_get(tb1, x) = luaH_get(tb, x)

\* luaH_set.
LEMMA SetIs ==
  ASSUME NEW tb, NEW S, Sound(tb, S), NEW k \in Keys, NEW v \in Values \cup {Nil}
  PROVE  /\ \E S1 : Assigned(tb, luaH_set(tb, k, v), S1, k, v)
         /\ luaH_get(tb, k) # Nil => /\ Assigned(tb, luaH_set(tb, k, v), S, k, v)
                                     /\ SameLayout(tb, luaH_set(tb, k, v), S)
<1>1. CASE Fits(tb, k)
  <2>1. luaH_set(tb, k, v) = Put(tb, k, v) BY <1>1 DEF luaH_set, Fits
  <2>2. Updated(tb, Put(tb, k, v), S, k, v)
        /\ (luaH_get(tb, k) # Nil => SameLayout(tb, Put(tb, k, v), S))
    BY <1>1, PutIs
  <2>3. Assigned(tb, Put(tb, k, v), S, k, v) BY <2>2 DEF Assigned, Updated
  <2> QED BY <2>1, <2>2, <2>3
<1>2. CASE ~Fits(tb, k)
  <2> DEFINE tb1 == rehash(tb, k)
             new == NewSizes(tb, k)
  <2>1. luaH_set(tb, k, v) = Put(tb1, k, v) BY <1>2 DEF luaH_set, Fits
  <2>2. luaH_get(tb, k) = Nil BY <1>2, LiveIs DEF Fits
  <2>3. Resized(tb, tb1, new.array, new.hash) /\ (InArray(tb1, k) \/ ~MustRehash(tb1, k))
    BY <2>2, RehashIs
  <2> HIDE DEF tb1, new
  <2>4. Sound(tb1, Nodes(new.hash)) /\ Fits(tb1, k) BY <2>3 DEF Resized, Fits
  <2>5. Updated(tb1, Put(tb1, k, v), Nodes(new.hash), k, v) BY <2>4, PutIs
  <2>6. Assigned(tb, Put(tb1, k, v), Nodes(new.hash), k, v)
    BY <2>3, <2>5 DEF Assigned, Updated, Resized
  <2> QED BY <2>1, <2>2, <2>6
<1> QED BY <1>1, <1>2

\* luaH_resizearray.
LEMMA ReserveIs ==
  ASSUME NEW tb, NEW S, Sound(tb, S), NEW n \in 0 .. TwoTo(MAXBITS), n > sizearray(tb)
  PROVE  \E nh : Resized(tb, luaH_resizearray(tb, n), n, nh)
<1> DEFINE nh == IF tb.dummy THEN 0 ELSE sizenode(tb)
<1>1. sizenode(tb) = S /\ S \in Nat BY TypedIs DEF Sound
<1>2. luaH_resizearray(tb, n) = resize(tb, n, nh) /\ nh \in Nat BY <1>1 DEF luaH_resizearray
<1>3. IsFiniteSet(HashUse(tb)) /\ Cardinality(HashUse(tb)) <= nh
  BY <1>1, InUseIs, FS_EmptySet
<1>4. \A x \in Keys : luaH_get(tb, x) # Nil /\ ~InNew(x, n) => x \in HashUse(tb)
  <2> SUFFICES ASSUME NEW x \in Keys, luaH_get(tb, x) # Nil, ~InNew(x, n)
               PROVE  x \in HashUse(tb)
    OBVIOUS
  <2>1. ~InArray(tb, x)
    <3>1. sizearray(tb) \in Nat /\ n \in Int BY TypedIs, TwoToNat, TableAssumption DEF Sound
    <3>2. x \in IntKeys => x \in Nat BY TableAssumption
    <3> QED BY <3>1, <3>2 DEF InArray, InNew
  <2> QED BY <2>1, InUseIs
<1> HIDE DEF nh
<1>5. Room(tb, HashUse(tb), n, nh) BY <1>3, <1>4 DEF Room
<1>6. Resized(tb, resize(tb, n, nh), n, nh) BY <1>2, <1>5, ResizeIs
<1> QED BY <1>2, <1>6

\* luaH_new.
LEMMA NewIs ==
  ASSUME NEW na \in 0 .. TwoTo(MAXBITS), NEW nh \in Nat
  PROVE  /\ \E S : Sound(luaH_new(na, nh), S)
         /\ \A k \in Keys : luaH_get(luaH_new(na, nh), k) = Nil
<1> DEFINE tb == [array |-> <<>>, node |-> <<>>, lastfree |-> 0, dummy |-> TRUE]
<1>1. tb.array \in Seq(Values \cup {Nil}) /\ tb.array = <<>> OBVIOUS
<1>2. sizearray(tb) = 0 BY <1>1 DEF sizearray
<1>3. \A i \in 1 .. sizearray(tb) : tb.array[i] # Nil => i \in IntKeys BY <1>2
<1>4. \A k \in Keys : ~InArray(tb, k) BY <1>2, IntKeyIs DEF InArray
<1>5. luaH_new(na, nh) = Emptied(tb, na, nh) BY DEF luaH_new
<1> HIDE DEF tb
<1>6. /\ Sound(Emptied(tb, na, nh), Nodes(nh))
      /\ \A k \in Keys : luaH_get(Emptied(tb, na, nh), k)
                         = IF InArray(tb, k) /\ k <= na THEN tb.array[k] ELSE Nil
  BY <1>1, <1>3, EmptiedIs
<1> QED BY <1>4, <1>5, <1>6

-----------------------------------------------------------------------------
(* The collector.                                                          *)

\* The table after the collector has visited it.
Swept(tb) ==
  [tb EXCEPT !.node = [i \in DOMAIN tb.node |->
     IF tb.node[i].val = Nil /\ tb.node[i].key \in Collectable
     THEN [tb.node[i] EXCEPT !.dead = TRUE] ELSE tb.node[i]]]

\* A node with a dead key.
LEMMA DeadWith ==
  ASSUME NEW S, NEW nd \in NodeType(S)
  PROVE  LET x == [nd EXCEPT !.dead = TRUE] IN
         /\ x \in NodeType(S) /\ x.key = nd.key /\ x.dead = TRUE
         /\ x.val = nd.val /\ x.next = nd.next
BY DEF NodeType

\* The collector's visit keeps the invariant and every field.
LEMMA SweptIs ==
  ASSUME NEW tb, NEW S, Sound(tb, S)
  PROVE  /\ Sound(Swept(tb), S) /\ SameLayout(tb, Swept(tb), S)
         /\ \A x \in Keys : luaH_get(Swept(tb), x) = luaH_get(tb, x)
<1> DEFINE N == 0 .. (S - 1)
           tb1 == Swept(tb)
           dies(i) == tb.node[i].val = Nil /\ tb.node[i].key \in Collectable
           nodes == [i \in N |-> IF dies(i) THEN [tb.node[i] EXCEPT !.dead = TRUE]
                                 ELSE tb.node[i]]
           R == [array : Seq(Values \cup {Nil}), node : [N -> NodeType(S)], lastfree : 0 .. S,
                 dummy : BOOLEAN]
<1>1. /\ S \in Nat \ {0} /\ tb.node \in [N -> NodeType(S)] /\ DOMAIN tb.node = N
      /\ \A i \in N : tb.node[i].next # Null => tb.node[i].next \in N
      /\ \A k \in Keys : k # Nil /\ Main(S, k) \in N
      /\ \A i \in N : tb.node[i].key # Nil => tb.node[i].key \in Keys
  BY Basics
<1>2. tb \in R BY DEF Sound, Typed
<1>3. tb1 = [tb EXCEPT !.node = nodes] BY <1>1 DEF Swept
<1>4. \A i \in N : tb.node[i] \in NodeType(S) BY <1>1
<1>5. \A i \in N : /\ nodes[i] \in NodeType(S)
                   /\ nodes[i].key = tb.node[i].key /\ nodes[i].val = tb.node[i].val
                   /\ nodes[i].next = tb.node[i].next
                   /\ dies(i) => nodes[i].dead = TRUE
                   /\ ~dies(i) => nodes[i].dead = tb.node[i].dead
  <2> SUFFICES ASSUME NEW i \in N
               PROVE  /\ nodes[i] \in NodeType(S)
                      /\ nodes[i].key = tb.node[i].key /\ nodes[i].val = tb.node[i].val
                      /\ nodes[i].next = tb.node[i].next
                      /\ dies(i) => nodes[i].dead = TRUE
                      /\ ~dies(i) => nodes[i].dead = tb.node[i].dead
    OBVIOUS
  <2>1. CASE dies(i)
    <3>1. nodes[i] = [tb.node[i] EXCEPT !.dead = TRUE] BY <2>1
    <3> HIDE DEF nodes, dies
    <3> QED BY <1>4, <2>1, <3>1, DeadWith
  <2>2. CASE ~dies(i)
    <3>1. nodes[i] = tb.node[i] BY <2>2
    <3> HIDE DEF nodes, dies
    <3> QED BY <1>4, <2>2, <3>1
  <2> QED BY <2>1, <2>2
<1>6. nodes \in [N -> NodeType(S)]
  <2>1. nodes = [i \in N |-> nodes[i]] OBVIOUS
  <2> HIDE DEF nodes
  <2> QED BY <1>5, <2>1
<1> HIDE DEF nodes
<1>7. /\ tb1 \in R /\ tb1.node = nodes /\ tb1.array = tb.array /\ tb1.dummy = tb.dummy
      /\ tb1.lastfree = tb.lastfree
  BY <1>2, <1>3, <1>6
<1> HIDE DEF tb1
<1>8. /\ Typed(tb1, S) /\ DOMAIN tb1.node = N BY <1>1, <1>6, <1>7 DEF Typed, Shaped
<1>9. \A i \in N : /\ tb1.node[i].key = tb.node[i].key /\ tb1.node[i].val = tb.node[i].val
                   /\ tb1.node[i].next = tb.node[i].next
                   /\ dies(i) => tb1.node[i].dead
                   /\ ~dies(i) => tb1.node[i].dead = tb.node[i].dead
  BY <1>5, <1>7
<1>10. /\ \A a, b : Leads(tb1.node, a, b) <=> Leads(tb.node, a, b)
       /\ \A rank : Ranks(tb1.node, rank) <=> Ranks(tb.node, rank)
  BY <1>1, <1>8, <1>9, SameLinks
<1>11. sizearray(tb1) = sizearray(tb) /\ \A x : InArray(tb1, x) <=> InArray(tb, x)
  BY <1>7 DEF InArray, sizearray
<1>12. Linked(tb1, S)
  <2>1. Linked(tb, S) BY DEF Sound
  <2>2. \A i \in N : tb.node[i].key = Nil => ~dies(i) BY <1>1 DEF Collectable, Keys
  <2>3. \A i \in N : tb1.node[i].key = Nil => ~tb1.node[i].dead
    BY <1>9, <2>1, <2>2 DEF Linked
  <2> HIDE DEF dies
  <2>4. ASSUME NEW i \in N, tb1.node[i].next # Null
        PROVE  tb1.node[tb1.node[i].next].key # Nil
    <3>1. tb1.node[i].next = tb.node[i].next /\ tb.node[i].next \in N BY <1>1, <1>9, <2>4
    <3>2. tb.node[tb.node[i].next].key # Nil BY <2>1, <2>4, <3>1 DEF Linked
    <3> QED BY <1>9, <3>1, <3>2
  <2> QED BY <1>9, <1>10, <2>1, <2>3, <2>4 DEF Linked
<1>13. Homed(tb1, S)
  <2> SUFFICES ASSUME NEW i \in N, tb1.node[i].key # Nil
               PROVE  /\ ~InArray(tb1, tb1.node[i].key)
                      /\ Leads(tb1.node, Main(S, tb1.node[i].key), i)
                      /\ tb1.node[Main(S, tb1.node[i].key)].key # Nil
                      /\ Main(S, tb1.node[Main(S, tb1.node[i].key)].key)
                         = Main(S, tb1.node[i].key)
    BY DEF Homed
  <2>1. tb1.node[i].key = tb.node[i].key BY <1>9
  <2>2. Main(S, tb.node[i].key) \in N BY <1>1, <2>1
  <2>3. /\ ~InArray(tb, tb.node[i].key)
        /\ Leads(tb.node, Main(S, tb.node[i].key), i)
        /\ tb.node[Main(S, tb.node[i].key)].key # Nil
        /\ Main(S, tb.node[Main(S, tb.node[i].key)].key) = Main(S, tb.node[i].key)
    BY <2>1 DEF Sound, Homed
  <2> QED BY <1>9, <1>10, <1>11, <2>1, <2>2, <2>3
<1>14. Single(tb1, S)
  <2>1. \A i \in N : tb1.node[i].dead => tb1.node[i].val = Nil
    <3> SUFFICES ASSUME NEW i \in N, tb1.node[i].dead PROVE tb1.node[i].val = Nil OBVIOUS
    <3>1. CASE dies(i) BY <1>9, <3>1
    <3>2. CASE ~dies(i) BY <1>9, <3>2 DEF Sound, Single
    <3> QED BY <3>1, <3>2
  <2>2. ASSUME NEW i \in N, NEW j \in N, i # j, tb1.node[i].key = tb1.node[j].key,
               tb1.node[i].key # Nil, ~tb1.node[i].dead
        PROVE  tb1.node[j].dead /\ ~Leads(tb1.node, j, i)
    <3> HIDE DEF dies
    <3>1. /\ tb.node[i].key = tb.node[j].key /\ tb.node[i].key # Nil /\ ~tb.node[i].dead
      BY <1>9, <2>2
    <3>2. tb.node[j].dead /\ ~Leads(tb.node, j, i) BY <2>2, <3>1 DEF Sound, Single
    <3>3. tb1.node[j].dead BY <1>9, <3>2
    <3> QED BY <1>10, <3>2, <3>3
  <2> QED BY <2>1, <2>2 DEF Single
<1>15. FreeBelow(tb1, S)
  <2>1. 0 \in N BY <1>1
  <2> QED BY <1>7, <1>9, <2>1 DEF Sound, FreeBelow
<1>16. ArrayOK(tb1) BY <1>7, <1>11 DEF Sound, ArrayOK
<1>17. Sound(tb1, S) BY <1>8, <1>12, <1>13, <1>14, <1>15, <1>16 DEF Sound
<1>18. ASSUME NEW x \in Keys PROVE luaH_get(tb1, x) = luaH_get(tb, x)
  <2>1. CASE InArray(tb, x)
    <3>1. luaH_get(tb1, x) = tb1.array[x] /\ luaH_get(tb, x) = tb.array[x]
      BY <1>11, <1>17, <2>1, GetIs
    <3> QED BY <1>7, <3>1
  <2>2. CASE ~InArray(tb, x)
    <3>1. ~InArray(tb1, x) BY <1>11, <2>2
    <3> HIDE DEF dies
    <3> QED BY <1>9, <1>17, <2>2, <3>1, SameGet
  <2> QED BY <2>1, <2>2
<1>19. SameLayout(tb, tb1, S) BY <1>9, <1>11 DEF SameLayout
<1> QED BY <1>17, <1>18, <1>19 DEF tb1

-----------------------------------------------------------------------------
(* The invariant.                                                          *)

\* The table is sound.
TableSound == \E S : Sound(t, S)

\* The invariant holds of a new table,
LEMMA InitSound == Init => TableSound
<1> SUFFICES ASSUME Init PROVE TableSound OBVIOUS
<1>1. PICK a \in NewArray : \E h \in NewHash : t = luaH_new(a, h) BY DEF Init
<1>2. PICK h \in NewHash : t = luaH_new(a, h) BY <1>1
<1>3. a \in 0 .. TwoTo(MAXBITS) /\ h \in Nat BY TableAssumption
<1> QED BY <1>2, <1>3, NewIs DEF TableSound

\* and every step preserves it.
LEMMA NextSound == TableSound /\ [Next]_vars => TableSound'
<1> SUFFICES ASSUME TableSound, [Next]_vars PROVE TableSound' OBVIOUS
<1>1. PICK S : Sound(t, S) BY DEF TableSound
<1>2. ASSUME NEW k \in Keys, NEW v \in Values \cup {Nil}, Set(k, v) PROVE TableSound'
  <2>1. t' = luaH_set(t, k, v) BY <1>2 DEF Set
  <2>2. \E S1 : Assigned(t, luaH_set(t, k, v), S1, k, v) BY <1>1, SetIs
  <2>3. \E S1 : Sound(t', S1) BY <2>1, <2>2 DEF Assigned
  <2> QED BY <2>3 DEF TableSound
<1>3. ASSUME NEW n \in NewArray, Reserve(n) PROVE TableSound'
  <2>1. n > sizearray(t) /\ t' = luaH_resizearray(t, n) BY <1>3 DEF Reserve
  <2>2. n \in 0 .. TwoTo(MAXBITS) BY TableAssumption
  <2>3. \E nh : Resized(t, luaH_resizearray(t, n), n, nh) BY <1>1, <2>1, <2>2, ReserveIs
  <2>4. \E S1 : Sound(t', S1) BY <2>1, <2>3 DEF Resized
  <2> QED BY <2>4 DEF TableSound
<1>4. CASE TraverseTable
  <2>1. t' = Swept(t) BY <1>4 DEF TraverseTable, Swept
  <2>2. Sound(t', S) BY <1>1, <2>1, SweptIs
  <2> QED BY <2>2 DEF TableSound
<1>5. CASE StartLoop BY <1>5, <1>1 DEF StartLoop, TableSound
<1>6. CASE NextKey BY <1>6, <1>1 DEF NextKey, TableSound
<1>7. CASE UNCHANGED vars BY <1>7, <1>1 DEF vars, TableSound
<1> QED BY <1>2, <1>3, <1>4, <1>5, <1>6, <1>7 DEF Next

\* Every table that the actions reach is sound: its chains end and never join,
\* each key is found from its main position, no integer key of the array part
\* is in the hash part and no node above lastfree is free.
THEOREM AlwaysSound == Spec => []TableSound
<1> QED BY InitSound, NextSound, PTL DEF Spec

\* A key that is nowhere has no value.
LEMMA AbsentNil ==
  ASSUME NEW k, Absent(k)
  PROVE  luaH_get(t, k) = Nil
BY DEF Absent, luaH_get

\* On a sound table SizesAreBest holds.
LEMMA SoundSizes == TableSound => SizesAreBest
<1> SUFFICES ASSUME TableSound, NEW k \in Keys, Absent(k)
             PROVE  LET used == {x \in Keys : luaH_get(t, x) # Nil} \cup {k}
                        ints(n) == {x \in used \cap IntKeys : x <= n}
                        best == Max({0} \cup {n \in {TwoTo(i) : i \in 0..MAXBITS} :
                                                 2 * Cardinality(ints(n)) > n})
                    IN NewSizes(t, k) = [array |-> best,
                                         hash |-> Cardinality(used \ ints(best))]
  BY DEF SizesAreBest
<1> DEFINE new == NewSizes(t, k)
           A == Ints(t, k, TwoTo(MAXBITS))
           P == {TwoTo(i) : i \in 0 .. MAXBITS}
           best == Max({0} \cup {n \in P : 2 * Cardinality(Ints(t, k, n)) > n})
<1>1. PICK S : Sound(t, S) BY DEF TableSound
<1>2. luaH_get(t, k) = Nil BY AbsentNil
<1>3. /\ new.array = Best(A)
      /\ new.hash = Cardinality(Used(t, k) \ Ints(t, k, new.array))
      /\ new = [array |-> new.array, hash |-> new.hash]
  BY <1>1, <1>2, NewSizesIs
<1>4. \A n \in P : {x \in A : x <= n} = Ints(t, k, n)
  <2> SUFFICES ASSUME NEW i \in 0 .. MAXBITS
               PROVE  {x \in A : x <= TwoTo(i)} = Ints(t, k, TwoTo(i))
    OBVIOUS
  <2>1. /\ TwoTo(i) <= TwoTo(MAXBITS) /\ TwoTo(i) \in Nat /\ TwoTo(MAXBITS) \in Nat
    BY TwoToMono, TwoToNat, TableAssumption
  <2>2. \A x \in IntKeys : x <= TwoTo(i) => x <= TwoTo(MAXBITS) BY <2>1, IntKeyIs
  <2> QED BY <2>2 DEF Ints
<1>5. Best(A) = best
  <2>1. {n \in P : 2 * Cardinality({x \in A : x <= n}) > n}
        = {n \in P : 2 * Cardinality(Ints(t, k, n)) > n}
    <3> HIDE DEF P, A
    <3> QED BY <1>4
  <2> QED BY <2>1 DEF Best
<1> HIDE DEF new, A
<1>6. new = [array |-> best, hash |-> Cardinality(Used(t, k) \ Ints(t, k, best))]
  <2> HIDE DEF best
  <2> QED BY <1>3, <1>5
<1> QED BY <1>6 DEF new, Used, Ints

\* Whatever was assigned, deleted and collected before, a rehash gives the array
\* part the largest size of which more than half is used, and the hash part
\* exactly room for the other keys, the new one included (SizesAreBest).
THEOREM BestSizes == Spec => []SizesAreBest
<1> QED BY AlwaysSound, SoundSizes, PTL

\* On a sound table ReinsertionFits holds.
LEMMA SoundFits == TableSound => ReinsertionFits
<1> SUFFICES ASSUME TableSound, NEW k \in Keys, Absent(k)
             PROVE  LET new == NewSizes(t, k)
                        es == Reinserted(t, new.array)
                        tb == Filled(Emptied(t, new.array, new.hash), es)
                        fits(tb1, x) == InArray(tb1, x) \/ ~MustRehash(tb1, x)
                    IN /\ \A i \in 1..Len(es) : es[i][2] # Nil => fits(tb[i - 1], es[i][1])
                       /\ fits(tb[Len(es)], k)
  BY DEF ReinsertionFits
<1> DEFINE new == NewSizes(t, k)
           es == Reinserted(t, new.array)
           tb == Filled(Emptied(t, new.array, new.hash), es)
           H == Used(t, k) \ Ints(t, k, new.array)
           fits(tb1, x) == InArray(tb1, x) \/ ~MustRehash(tb1, x)
<1>1. PICK S : Sound(t, S) BY DEF TableSound
<1>2. luaH_get(t, k) = Nil BY AbsentNil
<1>3. /\ new.array \in 0 .. TwoTo(MAXBITS) /\ new.hash \in Nat
      /\ Room(t, H, new.array, new.hash)
      /\ InNew(k, new.array) \/ k \in H
  BY <1>1, <1>2, RehashRoom
<1>4. tb[Len(es)] = rehash(t, k) BY DEF rehash, resize
<1>5. InArray(rehash(t, k), k) \/ ~MustRehash(rehash(t, k), k) BY <1>1, <1>2, RehashIs
<1> HIDE DEF H, new
<1>6. /\ Len(es) \in Nat /\ Lists(t, es, new.array)
      /\ \A i \in 0 .. Len(es) : During(t, tb[i], es, i, new.array, new.hash)
  BY <1>1, <1>3, FillingIs
<1>7. new.array \in Nat BY <1>3, TwoToNat, TableAssumption
<1> HIDE DEF es, tb
<1>8. ASSUME NEW i \in 1 .. Len(es), es[i][2] # Nil PROVE fits(tb[i - 1], es[i][1])
  <2>1. i - 1 \in 0 .. Len(es) BY <1>6
  <2>2. During(t, tb[i - 1], es, i - 1, new.array, new.hash) BY <1>6, <2>1
  <2> QED BY <1>1, <1>3, <1>6, <1>7, <1>8, <2>2, NextFits
<1>9. fits(tb[Len(es)], k) BY <1>4, <1>5
<1> QED BY <1>8, <1>9 DEF es, tb, new

\* When resize inserts the elements again, and then the new key, each finds a
\* slot or a free node: luaH_set never rehashes inside a rehash (ReinsertionFits).
THEOREM RehashFits == Spec => []ReinsertionFits
<1> QED BY AlwaysSound, SoundFits, PTL

-----------------------------------------------------------------------------
(* The border.                                                             *)

\* n is a border of the numbers in P.
Border(P, n) == n \in Nat /\ (n = 0 \/ n \in P) /\ n + 1 \notin P

\* One step of the binary search, and its recursion.
Halve(f, P, d, a) ==
  IF d <= 1 THEN a
  ELSE LET m == a + d \div 2
       IN IF m \in P THEN f[d - d \div 2][m] ELSE f[d \div 2][a]

Halves(f, P, j, n) == f = [d \in 0 .. n |-> [a \in 0 .. j |-> Halve(f, P, d, a)]]

\* Both halves of an interval are shorter than it, and not empty.
LEMMA HalfOf ==
  ASSUME NEW d \in Nat, ~(d <= 1)
  PROVE  /\ d \div 2 \in 1 .. (d - 1) /\ d - d \div 2 \in 1 .. (d - 1)
OBVIOUS

\* The recursive function of Bisect exists.
LEMMA HalvesExists ==
  ASSUME NEW P, NEW j \in Nat, NEW n \in Nat
  PROVE  \E f : Halves(f, P, j, n)
<1> DEFINE T == {k \in 0 .. n : \E f : Halves(f, P, j, k)}
<1>1. 0 \in T
  <2>1. PICK f : f = [d \in 0 .. 0 |-> [a \in 0 .. j |-> a]] OBVIOUS
  <2>2. [d \in 0 .. 0 |-> [a \in 0 .. j |-> Halve(f, P, d, a)]]
        = [d \in 0 .. 0 |-> [a \in 0 .. j |-> a]]
    <3>1. \A d \in 0 .. 0 : \A a \in 0 .. j : Halve(f, P, d, a) = a BY DEF Halve
    <3>2. \A d \in 0 .. 0 : [a \in 0 .. j |-> Halve(f, P, d, a)] = [a \in 0 .. j |-> a]
      BY <3>1
    <3> QED BY <3>2
  <2>3. Halves(f, P, j, 0) BY <2>1, <2>2 DEF Halves
  <2> QED BY <2>3
<1>2. ASSUME NEW k \in 1 .. n, k - 1 \in T PROVE k \in T
  <2>1. PICK p : Halves(p, P, j, k - 1) BY <1>2
  <2>2. PICK q : q = [d \in 0 .. k |-> IF d = k THEN [a \in 0 .. j |-> Halve(p, P, k, a)]
                                       ELSE p[d]]
    OBVIOUS
  <2>3. k \in Nat /\ k - 1 \in Nat /\ k \in 0 .. n OBVIOUS
  <2>4. \A d \in 0 .. (k - 1) : q[d] = p[d] BY <2>2, <2>3
  <2>5. ASSUME NEW d \in 0 .. k, NEW a \in 0 .. j PROVE Halve(q, P, d, a) = Halve(p, P, d, a)
    <3>1. CASE d <= 1 BY <3>1 DEF Halve
    <3>2. CASE ~(d <= 1)
      <4>1. d \div 2 \in 0 .. (k - 1) /\ d - d \div 2 \in 0 .. (k - 1) BY <2>3, <3>2, HalfOf
      <4>2. q[d \div 2] = p[d \div 2] /\ q[d - d \div 2] = p[d - d \div 2] BY <2>4, <4>1
      <4> QED BY <4>2 DEF Halve
    <3> QED BY <3>1, <3>2
  <2>6. ASSUME NEW d \in 0 .. k PROVE q[d] = [a \in 0 .. j |-> Halve(q, P, d, a)]
    <3>1. [a \in 0 .. j |-> Halve(q, P, d, a)] = [a \in 0 .. j |-> Halve(p, P, d, a)]
      BY <2>5
    <3>2. CASE d = k BY <2>2, <3>1, <3>2
    <3>3. CASE d # k
      <4>1. d \in 0 .. (k - 1) BY <2>3, <3>3
      <4>2. p[d] = [a \in 0 .. j |-> Halve(p, P, d, a)] BY <2>1, <4>1 DEF Halves
      <4> QED BY <2>4, <3>1, <4>1, <4>2
    <3> QED BY <3>2, <3>3
  <2>7. q = [d \in 0 .. k |-> q[d]] BY <2>2
  <2>8. q = [d \in 0 .. k |-> [a \in 0 .. j |-> Halve(q, P, d, a)]]
    <3> DEFINE Row(d) == [a \in 0 .. j |-> Halve(q, P, d, a)]
    <3>1. \A d \in 0 .. k : q[d] = Row(d) BY <2>6
    <3> HIDE DEF Row
    <3>2. q = [d \in 0 .. k |-> Row(d)] BY <2>7, <3>1
    <3> QED BY <3>2 DEF Row
  <2>9. Halves(q, P, j, k) BY <2>8 DEF Halves
  <2> QED BY <2>3, <2>9
<1>3. T \subseteq 0 .. n OBVIOUS
<1> HIDE DEF T
<1>4. T = 0 .. n BY <1>1, <1>2, <1>3, UpTo
<1> QED BY <1>4 DEF T

\* The binary search ends at a border.
LEMMA BisectIs ==
  ASSUME NEW P, NEW j \in Nat, NEW i \in 0 .. j, i < j, i = 0 \/ i \in P, j \notin P
  PROVE  Border(P, Bisect(P, i, j)) /\ Bisect(P, i, j) < j
<1> DEFINE N == 0 .. j
<1>1. PICK f : Halves(f, P, j, j) /\ Bisect(P, i, j) = f[j - i][i]
  <2>1. \E f : Halves(f, P, j, j) BY HalvesExists
  <2> QED BY <2>1 DEF Bisect, Halves, Halve
<1>2. \A d \in N : \A a \in N : f[d][a] = Halve(f, P, d, a)
  <2> SUFFICES ASSUME NEW d \in N, NEW a \in N PROVE f[d][a] = Halve(f, P, d, a) OBVIOUS
  <2>1. f[d] = [x \in 0 .. j |-> Halve(f, P, d, x)] BY <1>1 DEF Halves
  <2> QED BY <2>1
<1> DEFINE Good(a, d) == d >= 1 /\ a + d <= j /\ (a = 0 \/ a \in P) /\ a + d \notin P
           Ends(r) == Border(P, r) /\ r < j
           T == {k \in 0 .. j : \A d \in 0 .. k : \A a \in N : Good(a, d) => Ends(f[d][a])}
<1>3. 0 \in T OBVIOUS
<1>4. ASSUME NEW k \in 1 .. j, k - 1 \in T PROVE k \in T
  <2> SUFFICES ASSUME NEW d \in 0 .. k, NEW a \in N, Good(a, d) PROVE Ends(f[d][a])
    OBVIOUS
  <2>a. d \in N OBVIOUS
  <2>1. CASE d <= 1
    <3>1. f[d][a] = a /\ d = 1 BY <1>2, <2>a, <2>1 DEF Halve
    <3>2. a \in Nat /\ a < j /\ Border(P, a) BY <3>1 DEF Border
    <3> QED BY <3>1, <3>2
  <2>2. CASE ~(d <= 1)
    <3> DEFINE h == d \div 2
               e == d - h
    <3>1. /\ h \in 1 .. (d - 1) /\ e \in 1 .. (d - 1) /\ h + e = d
      BY <2>2, HalfOf
    <3>2. f[d][a] = IF a + h \in P THEN f[e][a + h] ELSE f[h][a]
      BY <1>2, <2>a, <2>2 DEF Halve
    <3> HIDE DEF h, e, Ends
    <3>3. h \in 0 .. (k - 1) /\ e \in 0 .. (k - 1) /\ a + h \in N BY <3>1
    <3>4. CASE a + h \in P
      <4>1. Good(a + h, e) BY <3>1, <3>4
      <4>2. Ends(f[e][a + h]) BY <1>4, <3>3, <4>1
      <4> QED BY <3>2, <3>4, <4>2
    <3>5. CASE a + h \notin P
      <4>1. Good(a, h) BY <3>1, <3>5
      <4>2. Ends(f[h][a]) BY <1>4, <3>3, <4>1
      <4> QED BY <3>2, <3>5, <4>2
    <3> QED BY <3>4, <3>5
  <2> QED BY <2>1, <2>2
<1>5. T \subseteq 0 .. j /\ j \in 0 .. j OBVIOUS
<1> HIDE DEF T
<1>6. T = 0 .. j BY <1>3, <1>4, <1>5, UpTo
<1>7. j \in T BY <1>5, <1>6
<1>8. j - i \in 0 .. j /\ Good(i, j - i) OBVIOUS
<1>9. Ends(f[j - i][i]) BY <1>5, <1>7, <1>8 DEF T
<1> QED BY <1>1, <1>9

-----------------------------------------------------------------------------
\* One step of the doubling search, and its recursion.
Linear(P) ==
  (CHOOSE n \in 1..(MaxInt + 1) : n \notin P /\ \A m \in 1..(n - 1) : m \in P) - 1

Double(f, P, i, j) ==
  IF j \notin P THEN Bisect(P, i, j)
  ELSE IF 2 * j > MaxInt THEN Linear(P) ELSE f[2 * j][j]

Doubles(f, P, c) ==
  f = [j \in c .. (2 * MaxInt) |-> [i \in 0 .. MaxInt |-> Double(f, P, i, j)]]

\* The recursive function of unbound_search exists.
LEMMA DoublesExists ==
  ASSUME NEW P, MaxInt # 0
  PROVE  \E f : Doubles(f, P, 1)
<1> DEFINE M == 2 * MaxInt
           T == {k \in 0 .. (M - 1) : \E f : Doubles(f, P, M - k)}
<1>0. MaxInt \in Nat /\ M \in Nat /\ M - 1 \in Nat /\ M > MaxInt BY TableAssumption
<1>1. 0 \in T
  <2> DEFINE Row(g) == [i \in 0 .. MaxInt |-> Double(g, P, i, M)]
             Base == [i \in 0 .. MaxInt |-> IF M \notin P THEN Bisect(P, i, M) ELSE Linear(P)]
  <2>1. PICK f : f = [j \in M .. M |-> Base] OBVIOUS
  <2>2. 2 * M > MaxInt BY <1>0
  <2>3. Row(f) = Base BY <2>2 DEF Double
  <2> HIDE DEF Base, Row
  <2>4. f = [j \in M .. M |-> Row(f)] BY <2>1, <2>3
  <2>5. \A j \in M .. M : j = M BY <1>0
  <2>6. [j \in M .. M |-> [i \in 0 .. MaxInt |-> Double(f, P, i, j)]] = [j \in M .. M |-> Row(f)]
    BY <2>5 DEF Row
  <2>7. Doubles(f, P, M) BY <2>4, <2>6 DEF Doubles
  <2>8. M - 0 = M /\ 0 \in 0 .. (M - 1) BY <1>0
  <2> QED BY <2>7, <2>8
<1>2. ASSUME NEW k \in 1 .. (M - 1), k - 1 \in T PROVE k \in T
  <2> DEFINE c == M - k
  <2>1. c \in Nat /\ c >= 1 /\ c + 1 = M - (k - 1) /\ c + 1 <= M /\ k \in 0 .. (M - 1) BY <1>0
  <2>2. PICK p : Doubles(p, P, c + 1) BY <1>2, <2>1
  <2> HIDE DEF c
  <2>3. PICK q : q = [j \in c .. M |-> IF j = c THEN [i \in 0 .. MaxInt |-> Double(p, P, i, c)]
                                       ELSE p[j]]
    OBVIOUS
  <2>4. \A j \in (c + 1) .. M : q[j] = p[j] BY <1>0, <2>1, <2>3
  <2>5. ASSUME NEW j \in c .. M, NEW i \in 0 .. MaxInt PROVE Double(q, P, i, j) = Double(p, P, i, j)
    <3>1. CASE 2 * j > MaxInt BY <3>1 DEF Double
    <3>2. CASE ~(2 * j > MaxInt)
      <4>1. 2 * j \in (c + 1) .. M BY <1>0, <2>1, <3>2
      <4>2. q[2 * j] = p[2 * j] BY <2>4, <4>1
      <4> QED BY <4>2 DEF Double
    <3> QED BY <3>1, <3>2
  <2> DEFINE Row(j) == [i \in 0 .. MaxInt |-> Double(q, P, i, j)]
  <2>6. ASSUME NEW j \in c .. M PROVE q[j] = Row(j)
    <3>1. Row(j) = [i \in 0 .. MaxInt |-> Double(p, P, i, j)] BY <2>5
    <3>2. CASE j = c BY <2>3, <3>1, <3>2
    <3>3. CASE j # c
      <4>1. j \in (c + 1) .. M BY <1>0, <2>1, <3>3
      <4>2. p[j] = [i \in 0 .. MaxInt |-> Double(p, P, i, j)] BY <2>2, <4>1 DEF Doubles
      <4> QED BY <2>4, <3>1, <4>1, <4>2
    <3> QED BY <3>2, <3>3
  <2>7. q = [j \in c .. M |-> q[j]] BY <2>3
  <2>8. q = [j \in c .. M |-> Row(j)]
    <3> HIDE DEF Row
    <3> QED BY <2>6, <2>7
  <2>9. Doubles(q, P, c) BY <2>8 DEF Doubles
  <2> QED BY <2>1, <2>9 DEF c
<1>3. T \subseteq 0 .. (M - 1) OBVIOUS
<1> HIDE DEF T, M
<1>4. T = 0 .. (M - 1) BY <1>0, <1>1, <1>2, <1>3, UpTo
<1>5. M - 1 \in T /\ M - (M - 1) = 1 BY <1>0, <1>4
<1> QED BY <1>5 DEF T

\* Counting from 1 ends at a border.
LEMMA LinearIs ==
  ASSUME NEW P, P \subseteq 1 .. MaxInt
  PROVE  Border(P, Linear(P)) /\ Linear(P) <= MaxInt
<1> DEFINE Rest == (1 .. (MaxInt + 1)) \ P
<1>1. MaxInt \in Nat BY TableAssumption
<1>2. MaxInt + 1 \in Rest BY <1>1
<1>3. Rest \in SUBSET Nat /\ Rest # {} BY <1>1, <1>2
<1> HIDE DEF Rest
<1>4. Min(Rest) \in Rest /\ \A x \in Rest : Min(Rest) <= x BY <1>3, MinIs
<1> DEFINE c == Min(Rest)
<1>5. c \in 1 .. (MaxInt + 1) /\ c \notin P /\ \A m \in 1 .. (c - 1) : m \in P
  BY <1>1, <1>3, <1>4 DEF Rest
<1> HIDE DEF c
<1>6. PICK n \in 1 .. (MaxInt + 1) : /\ n \notin P /\ \A m \in 1 .. (n - 1) : m \in P
                                     /\ Linear(P) = n - 1
  BY <1>5 DEF Linear
<1>7. n - 1 = 0 \/ n - 1 \in 1 .. (n - 1) BY <1>1
<1>8. n - 1 \in Nat /\ n - 1 <= MaxInt /\ (n - 1) + 1 = n BY <1>1
<1> QED BY <1>6, <1>7, <1>8 DEF Border

\* The numbers with a value, as far as the search looks.
Present(tb) == {x \in 1 .. (2 * MaxInt) : luaH_getnum(tb, x) # Nil}

\* unbound_search is its value at the start.
LEMMA UnboundRuns ==
  ASSUME NEW tb, NEW start, MaxInt # 0
  PROVE  \E f : Doubles(f, Present(tb), 1) /\ unbound_search(tb, start) = f[start + 1][start]
<1>1. \E f : Doubles(f, Present(tb), 1) BY DoublesExists
<1> QED BY <1>1 DEF unbound_search, Doubles, Double, Linear, Present

\* The doubling search ends at a border.
LEMMA UnboundIs ==
  ASSUME NEW tb, NEW start \in 0 .. MaxInt, MaxInt # 0,
         NEW P, P = Present(tb), P \subseteq 1 .. MaxInt, start = 0 \/ start \in P
  PROVE  Border(P, unbound_search(tb, start)) /\ unbound_search(tb, start) < 2 * MaxInt
<1> DEFINE M == 2 * MaxInt
<1>0. MaxInt \in Nat /\ M \in Nat /\ M - 1 \in Nat /\ M > MaxInt BY TableAssumption
<1>1. PICK f : Doubles(f, P, 1) /\ unbound_search(tb, start) = f[start + 1][start]
  BY UnboundRuns
<1>2. \A j \in 1 .. M : \A i \in 0 .. MaxInt : f[j][i] = Double(f, P, i, j)
  <2> SUFFICES ASSUME NEW j \in 1 .. M, NEW i \in 0 .. MaxInt PROVE f[j][i] = Double(f, P, i, j)
    OBVIOUS
  <2>1. f[j] = [x \in 0 .. MaxInt |-> Double(f, P, x, j)] BY <1>1 DEF Doubles
  <2> QED BY <2>1
<1> DEFINE Ends(r) == Border(P, r) /\ r < M
           T == {k \in 0 .. (M - 1) : \A j \in (M - k) .. M : \A i \in 0 .. MaxInt :
                   i < j /\ (i = 0 \/ i \in P) => Ends(f[j][i])}
<1>3. ASSUME NEW j \in 1 .. M, NEW i \in 0 .. MaxInt, i < j, i = 0 \/ i \in P,
             j \notin P \/ 2 * j > MaxInt
      PROVE  Ends(f[j][i])
  <2>1. CASE j \notin P
    <3>1. f[j][i] = Bisect(P, i, j) BY <1>2, <2>1 DEF Double
    <3>2. Border(P, Bisect(P, i, j)) /\ Bisect(P, i, j) < j
      <4>1. j \in Nat /\ i \in 0 .. j BY <1>0, <1>3
      <4> QED BY <1>3, <2>1, <4>1, BisectIs
    <3>3. j \in Nat /\ j <= M /\ Bisect(P, i, j) \in Nat BY <1>0, <3>2 DEF Border
    <3>4. Bisect(P, i, j) < M BY <1>0, <3>2, <3>3
    <3> QED BY <3>1, <3>2, <3>4
  <2>2. CASE j \in P
    <3>1. f[j][i] = Linear(P) BY <1>2, <1>3, <2>2 DEF Double
    <3>2. Border(P, Linear(P)) /\ Linear(P) <= MaxInt BY LinearIs
    <3>3. Linear(P) \in Nat BY <3>2 DEF Border
    <3> QED BY <1>0, <3>1, <3>2, <3>3
  <2> QED BY <2>1, <2>2
<1> HIDE DEF Ends
<1>4. 0 \in T
  <2>1. \A j \in (M - 0) .. M : j \in 1 .. M /\ 2 * j > MaxInt BY <1>0
  <2>2. \A j \in (M - 0) .. M : \A i \in 0 .. MaxInt :
          i < j /\ (i = 0 \/ i \in P) => Ends(f[j][i])
    <3> HIDE DEF M
    <3> QED BY <1>3, <2>1
  <2> QED BY <1>0, <2>2
<1>5. ASSUME NEW k \in 1 .. (M - 1), k - 1 \in T PROVE k \in T
  <2>1. k \in 0 .. (M - 1) BY <1>0
  <2> SUFFICES ASSUME NEW j \in (M - k) .. M, NEW i \in 0 .. MaxInt, i < j, i = 0 \/ i \in P
               PROVE  Ends(f[j][i])
    BY <2>1
  <2>2. j \in 1 .. M BY <1>0
  <2>3. CASE j \notin P \/ 2 * j > MaxInt BY <1>3, <2>2, <2>3
  <2>4. CASE ~(j \notin P \/ 2 * j > MaxInt)
    <3>1. f[j][i] = f[2 * j][j] BY <1>2, <2>2, <2>4 DEF Double
    <3>2. 2 * j \in (M - (k - 1)) .. M /\ j < 2 * j /\ j \in 0 .. MaxInt BY <1>0, <2>2, <2>4
    <3>3. Ends(f[2 * j][j]) BY <1>5, <2>4, <3>2
    <3> QED BY <3>1, <3>3
  <2> QED BY <2>3, <2>4
<1>6. T \subseteq 0 .. (M - 1) OBVIOUS
<1> HIDE DEF T
<1>7. T = 0 .. (M - 1)
  <2> HIDE DEF M
  <2> QED BY <1>0, <1>4, <1>5, <1>6, UpTo
<1>8. M - 1 \in T /\ start + 1 \in (M - (M - 1)) .. M /\ start < start + 1 BY <1>0, <1>7
<1>9. Ends(f[start + 1][start]) BY <1>8 DEF T
<1> QED BY <1>1, <1>9 DEF Ends

\* luaH_getn.
LEMMA GetnIs ==
  ASSUME NEW tb, NEW S, Sound(tb, S)
  PROVE  LET n == luaH_getn(tb)
         IN (n = 0 \/ luaH_getnum(tb, n) # Nil) /\ luaH_getnum(tb, n + 1) = Nil
<1> DEFINE j == sizearray(tb)
           n == luaH_getn(tb)
           Q == {m \in 1 .. j : tb.array[m] # Nil}
           P == Present(tb)
<1>1. j \in Nat /\ \A i \in 1 .. j : tb.array[i] # Nil => i \in IntKeys
  BY TypedIs DEF Sound, ArrayOK
<1>2. \A x \in IntKeys : x \in Keys /\ x \in Nat /\ x >= 1 /\ x <= MaxInt
  BY IntKeyIs, TableAssumption
<1>3. TwoTo(MAXBITS) \in Nat /\ TwoTo(MAXBITS) >= 1 /\ MaxInt \in Nat /\ MaxInt # 0
      /\ TwoTo(MAXBITS) <= MaxInt
  BY TwoToNat, TableAssumption
<1>4. j <= MaxInt BY <1>1, <1>3 DEF Sound, ArrayOK
<1>5. \A i \in 1 .. j : luaH_getnum(tb, i) = tb.array[i]
  <2> SUFFICES ASSUME NEW i \in 1 .. j PROVE luaH_getnum(tb, i) = tb.array[i] OBVIOUS
  <2>1. CASE i \in IntKeys
    <3>1. InArray(tb, i) BY <1>1, <2>1 DEF InArray
    <3>2. luaH_get(tb, i) = tb.array[i] BY <1>2, <2>1, <3>1, GetIs
    <3> QED BY <2>1, <3>2 DEF luaH_getnum
  <2>2. CASE i \notin IntKeys BY <1>1, <2>2 DEF luaH_getnum
  <2> QED BY <2>1, <2>2
<1> HIDE DEF j, n
<1>6. CASE j > 0 /\ tb.array[j] = Nil
  <2>1. n = Bisect(Q, 0, j) BY <1>6 DEF luaH_getn, n, j
  <2>2. j \notin Q BY <1>1, <1>6
  <2> HIDE DEF Q
  <2>3. Border(Q, n) /\ n < j BY <1>1, <1>6, <2>1, <2>2, BisectIs
  <2>4. n \in Nat /\ (n = 0 \/ n \in Q) /\ n + 1 \in 1 .. j /\ n + 1 \notin Q
    BY <1>1, <2>3 DEF Border
  <2>a. n \in Q => n \in 1 .. j /\ tb.array[n] # Nil BY DEF Q
  <2>b. \A m \in 1 .. j : m \notin Q => tb.array[m] = Nil BY DEF Q
  <2>c. tb.array[n + 1] = Nil BY <2>4, <2>b
  <2>5. tb.array[n + 1] = Nil /\ (n = 0 \/ (n \in 1 .. j /\ tb.array[n] # Nil))
    BY <2>4, <2>a, <2>c
  <2>6. luaH_getnum(tb, n + 1) = Nil /\ (n = 0 \/ luaH_getnum(tb, n) # Nil)
    BY <1>5, <2>4, <2>5
  <2> QED BY <2>6 DEF n
<1>7. CASE ~(j > 0 /\ tb.array[j] = Nil)
  <2>1. n = IF tb.dummy THEN j ELSE unbound_search(tb, j) BY <1>7 DEF luaH_getn, n, j
  <2>2. j = 0 \/ luaH_getnum(tb, j) # Nil
    <3>1. CASE j = 0 BY <3>1
    <3>2. CASE j # 0
      <4>1. j \in 1 .. j /\ j > 0 BY <1>1, <3>2
      <4> QED BY <1>5, <1>7, <4>1
    <3> QED BY <3>1, <3>2
  <2>3. CASE tb.dummy
    <3>1. S = 1 /\ tb.node[0].key = Nil BY <2>3 DEF Sound, FreeBelow
    <3>2. luaH_getnum(tb, j + 1) = Nil
      <4>1. CASE j + 1 \in IntKeys
        <5>1. ~InArray(tb, j + 1) BY <1>1 DEF InArray, j
        <5>2. j + 1 \in Keys /\ j + 1 # Nil BY <1>2, <4>1, Basics
        <5>3. \A i \in 0 .. (S - 1) : ~Live(tb, i, j + 1) BY <3>1, <5>2 DEF Live
        <5>4. luaH_get(tb, j + 1) = Nil BY <5>1, <5>2, <5>3, GetIs
        <5> QED BY <4>1, <5>4 DEF luaH_getnum
      <4>2. CASE j + 1 \notin IntKeys BY <4>2 DEF luaH_getnum
      <4> QED BY <4>1, <4>2
    <3> QED BY <2>1, <2>2, <2>3, <3>2 DEF n
  <2>4. CASE ~tb.dummy
    <3>1. P \subseteq 1 .. MaxInt
      <4> SUFFICES ASSUME NEW x \in P PROVE x \in 1 .. MaxInt OBVIOUS
      <4>1. luaH_getnum(tb, x) # Nil BY DEF Present
      <4>2. x \in IntKeys BY <4>1 DEF luaH_getnum
      <4> QED BY <1>2, <1>3, <4>2
    <3>2. j = 0 \/ j \in P BY <1>1, <1>3, <1>4, <2>2 DEF Present
    <3>3. j \in 0 .. MaxInt BY <1>1, <1>3, <1>4
    <3> DEFINE PP == P
    <3>4. PP = Present(tb) OBVIOUS
    <3>5. PP \subseteq 1 .. MaxInt /\ (j = 0 \/ j \in PP) BY <3>1, <3>2
    <3> HIDE DEF PP
    <3>6. Border(PP, n) /\ n < 2 * MaxInt BY <1>3, <2>1, <2>4, <3>3, <3>4, <3>5, UnboundIs
    <3>7. n \in Nat /\ (n = 0 \/ n \in PP) /\ n + 1 \in 1 .. (2 * MaxInt) /\ n + 1 \notin PP
      BY <1>3, <3>6 DEF Border
    <3>8. (n = 0 \/ luaH_getnum(tb, n) # Nil) /\ luaH_getnum(tb, n + 1) = Nil
      BY <3>4, <3>7 DEF Present
    <3> QED BY <3>8 DEF n
  <2> QED BY <2>3, <2>4
<1> QED BY <1>6, <1>7

\* On a sound table BorderFound holds.
LEMMA SoundBorder == TableSound => BorderFound
<1> SUFFICES ASSUME TableSound PROVE BorderFound OBVIOUS
<1>1. PICK S : Sound(t, S) BY DEF TableSound
<1> QED BY <1>1, GetnIs DEF BorderFound

\* The length operator always answers a border: it is 0 or has a value, and the
\* number after it has none; also where doubling exceeds MAX_INT (BorderFound).
THEOREM Borders == Spec => []BorderFound
<1> QED BY AlwaysSound, SoundBorder, PTL

-----------------------------------------------------------------------------
(* Traversal.                                                              *)

\* Where the values are, in the order of luaH_next.
Held(tb, i) ==
  IF i < sizearray(tb) THEN tb.array[i + 1] ELSE tb.node[i - sizearray(tb)].val
KeyAt(tb, i) == IF i < sizearray(tb) THEN i + 1 ELSE tb.node[i - sizearray(tb)].key
Slots(tb, S) == 0 .. (sizearray(tb) + S - 1)

\* The nodes of a chain do not change while the links stay.
LEMMA SameChain ==
  ASSUME NEW tb, NEW tb1, NEW S, Shaped(tb, S), Shaped(tb1, S), SameLayout(tb, tb1, S),
         NEW n \in 0 .. (S - 1)
  PROVE  Chain(tb1, n) = Chain(tb, n)
<1> DEFINE N == 0 .. (S - 1)
           at == Chain(tb, n)
           at1 == Chain(tb1, n)
<1>1. /\ S \in Nat \ {0} /\ at \in [N -> N \cup {Null}] /\ at[0] = n
      /\ \A i \in 1 .. (S - 1) :
           at[i] = IF at[i - 1] = Null THEN Null ELSE tb.node[at[i - 1]].next
  <2>1. S \in Nat \ {0} BY DEF Shaped
  <2> QED BY <2>1, ChainIs
<1>2. /\ at1 \in [N -> N \cup {Null}] /\ at1[0] = n
      /\ \A i \in 1 .. (S - 1) :
           at1[i] = IF at1[i - 1] = Null THEN Null ELSE tb1.node[at1[i - 1]].next
  BY ChainIs
<1> HIDE DEF at, at1
<1> DEFINE T == {i \in N : at1[i] = at[i]}
<1>3. 0 \in T BY <1>1, <1>2
<1>4. ASSUME NEW i \in 1 .. (S - 1), i - 1 \in T PROVE i \in T
  <2>1. i \in N /\ i - 1 \in N /\ at1[i - 1] = at[i - 1] BY <1>1, <1>4
  <2>2. CASE at[i - 1] = Null BY <1>1, <1>2, <2>1, <2>2
  <2>3. CASE at[i - 1] # Null
    <3>1. at[i - 1] \in N BY <1>1, <2>1, <2>3
    <3>2. tb1.node[at[i - 1]].next = tb.node[at[i - 1]].next BY <3>1 DEF SameLayout
    <3> QED BY <1>1, <1>2, <2>1, <2>3, <3>2
  <2> QED BY <2>2, <2>3
<1>5. T \subseteq N /\ S - 1 \in Nat BY <1>1
<1> HIDE DEF T
<1>6. T = N BY <1>3, <1>4, <1>5, UpTo
<1>7. \A i \in N : at1[i] = at[i] BY <1>6 DEF T
<1>8. at1 = at BY <1>1, <1>2, <1>7
<1> QED BY <1>8 DEF at, at1

\* The place of a key does not change while the layout stays.
LEMMA SameIndex ==
  ASSUME NEW tb, NEW tb1, NEW S, Sound(tb, S), Sound(tb1, S), SameLayout(tb, tb1, S),
         NEW k \in Keys
  PROVE  findindex(tb1, k) = findindex(tb, k)
<1> DEFINE N == 0 .. (S - 1)
           m == Main(S, k)
           at == Chain(tb, m)
<1>1. Shaped(tb, S) /\ Shaped(tb1, S) /\ m \in N BY Basics
<1>2. mainposition(tb, k) = m /\ mainposition(tb1, k) = m BY <1>1, MainIs
<1>3. Chain(tb1, m) = at
  <2> HIDE DEF m
  <2> QED BY <1>1, SameChain
<1>4. at \in [N -> N \cup {Null}]
  <2> HIDE DEF m
  <2> QED BY <1>1, ChainIs
<1>5. Keyed(tb1, at, k) = Keyed(tb, at, k)
  <2>1. \A i \in N : at[i] # Null => tb1.node[at[i]].key = tb.node[at[i]].key
    BY <1>4 DEF SameLayout
  <2>2. DOMAIN at = N BY <1>4
  <2> HIDE DEF at
  <2> QED BY <2>1, <2>2 DEF Keyed
<1>6. sizearray(tb1) = sizearray(tb) /\ (InArray(tb1, k) <=> InArray(tb, k))
  BY DEF SameLayout, InArray
<1> DEFINE n == First(at, Keyed(tb, at, k))
<1>7. findindex(tb, k) = IF k = Nil THEN -1 ELSE IF InArray(tb, k) THEN k - 1
                         ELSE IF n = Null THEN Error ELSE n + sizearray(tb)
  BY <1>2 DEF findindex
<1>8. First(Chain(tb1, mainposition(tb1, k)),
            Keyed(tb1, Chain(tb1, mainposition(tb1, k)), k)) = n
  BY <1>2, <1>3, <1>5
<1>9. findindex(tb1, k) = IF k = Nil THEN -1 ELSE IF InArray(tb1, k) THEN k - 1
                          ELSE IF n = Null THEN Error ELSE n + sizearray(tb1)
  BY <1>8 DEF findindex
<1> HIDE DEF n
<1> QED BY <1>6, <1>7, <1>9

\* findindex.
LEMMA FindexIs ==
  ASSUME NEW tb, NEW S, Sound(tb, S), NEW k \in Keys
  PROVE  /\ InArray(tb, k) => findindex(tb, k) = k - 1
         /\ ~InArray(tb, k) =>
              /\ \A i \in 0 .. (S - 1) : Live(tb, i, k) => findindex(tb, k) = i + sizearray(tb)
              /\ \/ findindex(tb, k) = Error
                 \/ findindex(tb, k) - sizearray(tb) \in 0 .. (S - 1)
                    /\ findindex(tb, k) \in Int
<1> DEFINE N == 0 .. (S - 1)
           at == Chain(tb, Main(S, k))
           n == First(at, Keyed(tb, at, k))
<1>1. k # Nil /\ -1 \notin N /\ S \in Nat /\ sizearray(tb) \in Nat BY Basics, TypedIs DEF Sound, Null
<1>2. mainposition(tb, k) = Main(S, k) BY MainIs DEF Sound, Typed
<1>3. findindex(tb, k) = IF InArray(tb, k) THEN k - 1
                         ELSE IF n = Null THEN Error ELSE n + sizearray(tb)
  BY <1>1, <1>2 DEF findindex
<1>4. /\ \A i \in N : Live(tb, i, k) => n = i
      /\ n # Null => n \in N
  BY SearchIs
<1> HIDE DEF n
<1>5. \A i \in N : Live(tb, i, k) => n = i /\ n # Null BY <1>1, <1>4 DEF Null
<1>6. n # Null => n + sizearray(tb) \in Int /\ (n + sizearray(tb)) - sizearray(tb) \in N
  BY <1>1, <1>4
<1>7. CASE InArray(tb, k) BY <1>3, <1>7
<1>8. CASE ~InArray(tb, k) BY <1>3, <1>5, <1>6, <1>8
<1> QED BY <1>7, <1>8

\* Each slot with a value holds the key that findindex finds there.
LEMMA SlotIs ==
  ASSUME NEW tb, NEW S, Sound(tb, S), NEW i \in Slots(tb, S), Held(tb, i) # Nil
  PROVE  /\ KeyAt(tb, i) \in Keys /\ luaH_get(tb, KeyAt(tb, i)) # Nil
         /\ findindex(tb, KeyAt(tb, i)) = i
<1>1. S \in Nat \ {0} /\ sizearray(tb) \in Nat BY Basics, TypedIs DEF Sound
<1>2. CASE i < sizearray(tb)
  <2> DEFINE k == i + 1
  <2>1. k \in 1 .. sizearray(tb) /\ KeyAt(tb, i) = k /\ Held(tb, i) = tb.array[k] /\ k - 1 = i
    BY <1>1, <1>2 DEF KeyAt, Held, Slots
  <2> HIDE DEF k
  <2>2. k \in IntKeys BY <2>1 DEF Sound, ArrayOK
  <2>3. k \in Keys /\ InArray(tb, k) BY <2>1, <2>2 DEF Keys, InArray
  <2>4. luaH_get(tb, k) = tb.array[k] /\ findindex(tb, k) = k - 1 BY <2>3, GetIs, FindexIs
  <2> QED BY <2>1, <2>3, <2>4
<1>3. CASE ~(i < sizearray(tb))
  <2> DEFINE j == i - sizearray(tb)
             k == tb.node[j].key
  <2>1. j \in 0 .. (S - 1) /\ KeyAt(tb, i) = k /\ Held(tb, i) = tb.node[j].val
        /\ j + sizearray(tb) = i
    BY <1>1, <1>3 DEF KeyAt, Held, Slots
  <2> HIDE DEF j
  <2>2. k # Nil BY <2>1 DEF Sound, Linked
  <2>3. ~tb.node[j].dead BY <2>1 DEF Sound, Single
  <2>4. k \in Keys /\ ~InArray(tb, k) /\ Live(tb, j, k)
    BY <2>1, <2>2, <2>3, Basics DEF Sound, Homed, Live
  <2> HIDE DEF k
  <2>5. luaH_get(tb, k) = tb.node[j].val /\ findindex(tb, k) = j + sizearray(tb)
    BY <2>1, <2>4, GetIs, FindexIs
  <2> QED BY <2>1, <2>4, <2>5
<1> QED BY <1>2, <1>3

\* Each key with a value has its slot.
LEMMA KeySlot ==
  ASSUME NEW tb, NEW S, Sound(tb, S), NEW k \in Keys, luaH_get(tb, k) # Nil
  PROVE  LET i == findindex(tb, k)
         IN i \in Slots(tb, S) /\ Held(tb, i) # Nil /\ KeyAt(tb, i) = k
<1>1. S \in Nat \ {0} /\ sizearray(tb) \in Nat BY Basics, TypedIs DEF Sound
<1>2. CASE InArray(tb, k)
  <2>1. k \in Nat /\ k >= 1 /\ k <= sizearray(tb) BY <1>2, IntKeyIs DEF InArray
  <2>2. findindex(tb, k) = k - 1 /\ luaH_get(tb, k) = tb.array[k] BY <1>2, GetIs, FindexIs
  <2>3. k - 1 \in Slots(tb, S) /\ k - 1 < sizearray(tb) /\ (k - 1) + 1 = k
    BY <1>1, <2>1 DEF Slots
  <2> QED BY <2>2, <2>3 DEF Held, KeyAt
<1>3. CASE ~InArray(tb, k)
  <2>1. PICK j \in 0 .. (S - 1) : Live(tb, j, k) BY <1>3, GetIs
  <2>2. luaH_get(tb, k) = tb.node[j].val /\ findindex(tb, k) = j + sizearray(tb)
    BY <1>3, <2>1, GetIs, FindexIs
  <2> DEFINE i == j + sizearray(tb)
  <2>3. i \in Slots(tb, S) /\ ~(i < sizearray(tb)) /\ i - sizearray(tb) = j
    BY <1>1 DEF Slots
  <2> HIDE DEF i
  <2>4. Held(tb, i) = tb.node[j].val /\ KeyAt(tb, i) = tb.node[j].key
    BY <2>3 DEF Held, KeyAt
  <2> QED BY <2>1, <2>2, <2>3, <2>4 DEF Live, i
<1> QED BY <1>2, <1>3

\* luaH_next.
LEMMA NextIs ==
  ASSUME NEW tb, NEW S, Sound(tb, S), NEW from \in -1 .. (sizearray(tb) + S - 1),
         NEW k, findindex(tb, k) = from, from # Error
  PROVE  \/ /\ luaH_next(tb, k) = Nil
            /\ \A i \in Slots(tb, S) : Held(tb, i) # Nil => i <= from
         \/ \E i \in Slots(tb, S) :
              /\ i > from /\ Held(tb, i) # Nil /\ luaH_next(tb, k) = KeyAt(tb, i)
              /\ \A j \in Slots(tb, S) : Held(tb, j) # Nil /\ j < i => j <= from
<1> DEFINE A == sizearray(tb)
           later == {i \in (from + 1) .. (A + S - 1) : Held(tb, i) # Nil}
<1>1. S \in Nat \ {0} /\ A \in Nat /\ sizenode(tb) = S BY Basics, TypedIs DEF Sound
<1>2. luaH_next(tb, k) = IF later = {} THEN Nil ELSE KeyAt(tb, Min(later))
  BY <1>1 DEF luaH_next, Held, KeyAt
<1> HIDE DEF A
<1>3. later \in SUBSET Nat BY <1>1 DEF A
<1>4. \A i \in Slots(tb, S) : Held(tb, i) # Nil => i \in later \/ i <= from
  BY <1>1 DEF Slots, A
<1>5. CASE later = {} BY <1>2, <1>4, <1>5
<1>6. CASE later # {}
  <2> DEFINE i == Min(later)
  <2>1. i \in later /\ \A x \in later : i <= x
    <3> HIDE DEF later
    <3> QED BY <1>3, <1>6, MinIs
  <2>2. luaH_next(tb, k) = KeyAt(tb, i) BY <1>2, <1>6
  <2> HIDE DEF i
  <2>3. i \in Slots(tb, S) /\ i > from /\ Held(tb, i) # Nil BY <1>1, <2>1 DEF Slots, A
  <2>4. \A j \in Slots(tb, S) : Held(tb, j) # Nil /\ j < i => j <= from
    <3> SUFFICES ASSUME NEW j \in Slots(tb, S), Held(tb, j) # Nil, j < i PROVE j <= from
      OBVIOUS
    <3>1. j \in Int /\ i \in Int BY <1>1, <2>3 DEF Slots, A
    <3>2. j \notin later BY <2>1, <3>1
    <3> QED BY <1>4, <3>2
  <2> QED BY <2>2, <2>3, <2>4
<1> QED BY <1>5, <1>6

-----------------------------------------------------------------------------
(* The table is a map, and its traversal is exact.                         *)

\* The traversal has been at the keys up to the place of cur.
WalkOK ==
  cur # Off =>
    /\ cur \in Keys \cup {Nil} /\ findindex(t, cur) # Error
    /\ \A k \in Keys : luaH_get(t, k) # Nil =>
         (k \in seen <=> findindex(t, k) <= findindex(t, cur))

\* The inductive invariant.
IInv == TableSound /\ WalkOK

\* The place of cur is -1 or a slot.
LEMMA FromIs ==
  ASSUME NEW S, Sound(t, S), cur \in Keys \cup {Nil}, findindex(t, cur) # Error
  PROVE  findindex(t, cur) \in -1 .. (sizearray(t) + S - 1)
<1>1. S \in Nat \ {0} /\ sizearray(t) \in Nat BY Basics, TypedIs DEF Sound
<1>2. CASE cur = Nil
  <2>1. findindex(t, cur) = -1 BY <1>2 DEF findindex
  <2> QED BY <1>1, <2>1
<1>3. CASE cur # Nil
  <2>1. cur \in Keys BY <1>3
  <2>2. CASE InArray(t, cur)
    <3>1. findindex(t, cur) = cur - 1 BY <2>1, <2>2, FindexIs
    <3>2. cur \in Nat /\ cur >= 1 /\ cur <= sizearray(t) BY <2>2, IntKeyIs DEF InArray
    <3> QED BY <1>1, <3>1, <3>2
  <2>3. CASE ~InArray(t, cur)
    <3> DEFINE f == findindex(t, cur)
    <3>1. f - sizearray(t) \in 0 .. (S - 1) /\ f \in Int BY <2>1, <2>3, FindexIs
    <3> HIDE DEF f
    <3>2. f \in -1 .. (sizearray(t) + S - 1) BY <1>1, <3>1
    <3> QED BY <3>2 DEF f
  <2> QED BY <2>2, <2>3
<1> QED BY <1>2, <1>3

\* What a call of next finds.
Visits(k) ==
  /\ k \in Keys /\ luaH_get(t, k) # Nil /\ findindex(t, k) # Error
  /\ k \notin seen
  /\ \A x \in Keys : luaH_get(t, x) # Nil =>
       (x \in seen \cup {k} <=> findindex(t, x) <= findindex(t, k))

\* A call of next ends the loop when every key was seen, or finds a new one.
LEMMA VisitIs ==
  ASSUME TableSound, WalkOK, cur # Off
  PROVE  \/ /\ luaH_next(t, cur) = Nil
            /\ \A k \in Keys : luaH_get(t, k) # Nil => k \in seen
         \/ luaH_next(t, cur) # Nil /\ Visits(luaH_next(t, cur))
<1> DEFINE from == findindex(t, cur)
           next == luaH_next(t, cur)
<1>1. PICK S : Sound(t, S) BY DEF TableSound
<1>2. S \in Nat \ {0} /\ sizearray(t) \in Nat BY <1>1, Basics, TypedIs DEF Sound
<1>3. /\ cur \in Keys \cup {Nil} /\ from # Error
      /\ \A k \in Keys : luaH_get(t, k) # Nil => (k \in seen <=> findindex(t, k) <= from)
  BY DEF WalkOK
<1>4. from \in -1 .. (sizearray(t) + S - 1) BY <1>1, <1>3, FromIs
<1>5. \A k \in Keys : luaH_get(t, k) # Nil =>
        /\ findindex(t, k) \in Slots(t, S) /\ Held(t, findindex(t, k)) # Nil
        /\ KeyAt(t, findindex(t, k)) = k
  BY <1>1, KeySlot
<1> DEFINE f == from
<1>6. \/ next = Nil /\ \A i \in Slots(t, S) : Held(t, i) # Nil => i <= f
      \/ \E i \in Slots(t, S) :
           /\ i > f /\ Held(t, i) # Nil /\ next = KeyAt(t, i)
           /\ \A j \in Slots(t, S) : Held(t, j) # Nil /\ j < i => j <= f
  <2>1. findindex(t, cur) = f OBVIOUS
  <2> HIDE DEF f
  <2>2. f \in -1 .. (sizearray(t) + S - 1) /\ f # Error BY <1>3, <1>4, <2>1
  <2> QED BY <1>1, <2>1, <2>2, NextIs
<1> HIDE DEF f, next
<1>7. CASE next = Nil /\ \A i \in Slots(t, S) : Held(t, i) # Nil => i <= f
  <2>1. \A k \in Keys : luaH_get(t, k) # Nil => k \in seen BY <1>3, <1>5, <1>7 DEF f
  <2> QED BY <1>7, <2>1 DEF next
<1>8. CASE \E i \in Slots(t, S) :
             /\ i > f /\ Held(t, i) # Nil /\ next = KeyAt(t, i)
             /\ \A j \in Slots(t, S) : Held(t, j) # Nil /\ j < i => j <= f
  <2>1. PICK i \in Slots(t, S) :
             /\ i > f /\ Held(t, i) # Nil /\ next = KeyAt(t, i)
             /\ \A j \in Slots(t, S) : Held(t, j) # Nil /\ j < i => j <= f
    BY <1>8
  <2>2. next \in Keys /\ luaH_get(t, next) # Nil /\ findindex(t, next) = i
    BY <1>1, <2>1, SlotIs
  <2>3. i \in Int /\ f \in Int BY <1>2, <1>4 DEF Slots, f
  <2>4. i # Error /\ next # Nil BY <2>2, <2>3, TableAssumption
  <2>5. next \notin seen BY <1>3, <2>1, <2>2, <2>3 DEF f
  <2>6. ASSUME NEW x \in Keys, luaH_get(t, x) # Nil
        PROVE  x \in seen \cup {next} <=> findindex(t, x) <= i
    <3> DEFINE p == findindex(t, x)
    <3>1. p \in Slots(t, S) /\ Held(t, p) # Nil /\ KeyAt(t, p) = x BY <1>5, <2>6
    <3>2. x \in seen <=> p <= f BY <1>3, <2>6 DEF f
    <3> HIDE DEF p
    <3>3. p \in Int BY <1>2, <3>1 DEF Slots
    <3>4. p < i => p <= f BY <2>1, <3>1
    <3>5. p = i => x = next BY <2>1, <3>1
    <3>6. x = next => p = i BY <2>2 DEF p
    <3>7. x \in seen \cup {next} <=> p <= i BY <2>1, <2>3, <3>2, <3>3, <3>4, <3>5, <3>6
    <3> QED BY <3>7 DEF p
  <2>7. Visits(next) BY <2>2, <2>4, <2>5, <2>6 DEF Visits
  <2> QED BY <2>4, <2>7 DEF next
<1> QED BY <1>6, <1>7, <1>8

\* A step that leaves layout and traversal alone, and gives no key a value.
LEMMA WalkStays ==
  ASSUME WalkOK, NEW S, Sound(t, S), Sound(t', S), SameLayout(t, t', S),
         \A k \in Keys : luaH_get(t', k) # Nil => luaH_get(t, k) # Nil,
         cur' = cur, seen' = seen
  PROVE  WalkOK'
<1> SUFFICES ASSUME cur # Off
             PROVE  /\ cur \in Keys \cup {Nil} /\ findindex(t', cur) # Error
                    /\ \A k \in Keys : luaH_get(t', k) # Nil =>
                         (k \in seen <=> findindex(t', k) <= findindex(t', cur))
  BY DEF WalkOK
<1>1. \A k \in Keys : findindex(t', k) = findindex(t, k) BY SameIndex
<1>2. findindex(t', Nil) = findindex(t, Nil) BY DEF findindex
<1>3. findindex(t', cur) = findindex(t, cur) BY <1>1, <1>2 DEF WalkOK
<1> QED BY <1>1, <1>3 DEF WalkOK

\* No loop is under way in a new table.
LEMMA InitInv == Init => IInv
<1>1. Init => WalkOK BY DEF Init, WalkOK
<1> QED BY <1>1, InitSound DEF IInv

\* Every step keeps the traversal exact: assignments to fields that exist, the
\* collector and next itself.
LEMMA NextWalk == IInv /\ [Next]_vars => WalkOK'
<1> SUFFICES ASSUME TableSound, WalkOK, [Next]_vars PROVE WalkOK' BY DEF IInv
<1>1. PICK S : Sound(t, S) BY DEF TableSound
<1>2. ASSUME NEW k \in Keys, NEW v \in Values \cup {Nil}, Set(k, v) PROVE WalkOK'
  <2>1. t' = luaH_set(t, k, v) /\ cur' = cur /\ seen' = seen BY <1>2 DEF Set
  <2>2. CASE cur = Off BY <2>1, <2>2 DEF WalkOK
  <2>3. CASE cur # Off
    <3>1. luaH_get(t, k) # Nil BY <1>2, <2>3 DEF Set
    <3>2. Assigned(t, luaH_set(t, k, v), S, k, v) /\ SameLayout(t, luaH_set(t, k, v), S)
      BY <1>1, <3>1, SetIs
    <3>3. Sound(t', S) /\ SameLayout(t, t', S)
          /\ \A x \in Keys : luaH_get(t', x) # Nil => luaH_get(t, x) # Nil
      BY <2>1, <3>1, <3>2 DEF Assigned
    <3> QED BY <1>1, <2>1, <3>3, WalkStays
  <2> QED BY <2>2, <2>3
<1>3. ASSUME NEW n \in NewArray, Reserve(n) PROVE WalkOK' BY <1>3 DEF Reserve, WalkOK
<1>4. CASE TraverseTable
  <2>1. t' = Swept(t) /\ cur' = cur /\ seen' = seen BY <1>4 DEF TraverseTable, Swept
  <2>2. Sound(t', S) /\ SameLayout(t, t', S)
        /\ \A x \in Keys : luaH_get(t', x) # Nil => luaH_get(t, x) # Nil
    BY <1>1, <2>1, SweptIs
  <2> QED BY <1>1, <2>1, <2>2, WalkStays
<1>5. CASE StartLoop
  <2>1. t' = t /\ cur' = Nil /\ seen' = {} BY <1>5 DEF StartLoop
  <2>2. findindex(t, Nil) = -1 BY DEF findindex
  <2>3. -1 # Error BY TableAssumption
  <2>4. \A k \in Keys : luaH_get(t, k) # Nil => ~(findindex(t, k) <= -1)
    <3>1. S \in Nat \ {0} /\ sizearray(t) \in Nat BY <1>1, Basics, TypedIs DEF Sound
    <3>2. \A i \in Slots(t, S) : ~(i <= -1) BY <3>1 DEF Slots
    <3> QED BY <1>1, <3>2, KeySlot
  <2> QED BY <2>1, <2>2, <2>3, <2>4 DEF WalkOK
<1>6. CASE NextKey
  <2> DEFINE k == luaH_next(t, cur)
  <2>1. cur # Off /\ t' = t /\ cur' = (IF k = Nil THEN Off ELSE k)
        /\ seen' = (IF k = Nil THEN {} ELSE seen \cup {k})
    BY <1>6 DEF NextKey
  <2>2. k = Nil \/ Visits(k) BY <2>1, VisitIs
  <2> HIDE DEF k
  <2>3. CASE k = Nil BY <2>1, <2>3 DEF WalkOK
  <2>4. CASE k # Nil /\ Visits(k)
    <3>1. cur' = k /\ seen' = seen \cup {k} BY <2>1, <2>4
    <3> QED BY <2>1, <2>4, <3>1 DEF WalkOK, Visits
  <2> QED BY <2>2, <2>3, <2>4
<1>7. CASE UNCHANGED vars BY <1>7 DEF vars, WalkOK
<1> QED BY <1>2, <1>3, <1>4, <1>5, <1>6, <1>7 DEF Next

\* The place of a loop is never lost, and the keys that next has returned are
\* those up to that place.
THEOREM AlwaysWalks == Spec => []IInv
<1>1. IInv /\ [Next]_vars => IInv' BY NextSound, NextWalk DEF IInv
<1> QED BY <1>1, InitInv, PTL DEF Spec

-----------------------------------------------------------------------------
(* The refinement of TableMap.                                             *)

\* A new table is the empty map.
LEMMA InitMaps == Init => Abstract!MInit
<1> SUFFICES ASSUME Init PROVE Abstract!MInit OBVIOUS
<1>1. PICK a \in NewArray : \E h \in NewHash : t = luaH_new(a, h) BY DEF Init
<1>2. PICK h \in NewHash : t = luaH_new(a, h) BY <1>1
<1>3. a \in 0 .. TwoTo(MAXBITS) /\ h \in Nat BY TableAssumption
<1>4. \A k \in Keys : luaH_get(t, k) = Nil BY <1>2, <1>3, NewIs
<1>5. cur = Off /\ seen = {} /\ Off # Error BY TableAssumption DEF Init
<1>6. [k \in Keys |-> luaH_get(t, k)] = [k \in Keys |-> Nil] BY <1>4
<1> QED BY <1>5, <1>6 DEF Abstract!MInit

\* No key of the table has another value than before.
SameMap == \A k \in Keys : luaH_get(t', k) = luaH_get(t, k)

\* When no field changes, the map does not.
LEMMA SameMapIs ==
  ASSUME SameMap
  PROVE  /\ [k \in Keys |-> luaH_get(t, k)]' = [k \in Keys |-> luaH_get(t, k)]
         /\ Abstract!Changed = {}
<1>1. [k \in Keys |-> luaH_get(t', k)] = [k \in Keys |-> luaH_get(t, k)]
  BY DEF SameMap
<1> QED BY <1>1 DEF Abstract!Changed

\* The changed keys of the map are the changed fields of the table.
LEMMA ChangedIs == Abstract!Changed = {k \in Keys : luaH_get(t', k) # luaH_get(t, k)}
BY DEF Abstract!Changed

\* Every step of the table is a step of the map, or leaves it alone.
LEMMA StepMaps == IInv /\ [Next]_vars => [Abstract!MNext]_(Abstract!mvars)
<1> SUFFICES ASSUME IInv, [Next]_vars PROVE [Abstract!MNext]_(Abstract!mvars) OBVIOUS
<1>1. PICK S : Sound(t, S) BY DEF IInv, TableSound
<1>2. WalkOK BY DEF IInv
<1>3. cur # Error /\ Off # Error /\ Nil # Off /\ Nil # Error
      /\ \A k \in Keys : k # Error /\ k # Off /\ k # Nil
  BY <1>2, TableAssumption DEF WalkOK
<1>4. ASSUME SameMap, cur' = cur, seen' = seen PROVE UNCHANGED Abstract!mvars
  <2>1. [k \in Keys |-> luaH_get(t, k)]' = [k \in Keys |-> luaH_get(t, k)] BY <1>4, SameMapIs
  <2> QED BY <1>4, <2>1 DEF Abstract!mvars
<1>5. ASSUME NEW k \in Keys, NEW v \in Values \cup {Nil}, Set(k, v)
      PROVE  [Abstract!MNext]_(Abstract!mvars)
  <2>1. t' = luaH_set(t, k, v) /\ cur' = cur /\ seen' = seen
        /\ (cur # Off => luaH_get(t, k) # Nil)
    BY <1>5 DEF Set
  <2>2. luaH_get(t', k) = v /\ \A x \in Keys \ {k} : luaH_get(t', x) = luaH_get(t, x)
    BY <1>1, <2>1, SetIs DEF Assigned
  <2>3. CASE luaH_get(t, k) = v
    <3>1. SameMap BY <2>2, <2>3 DEF SameMap
    <3> QED BY <1>4, <2>1, <3>1
  <2>4. CASE luaH_get(t, k) # v
    <3>1. Abstract!Changed = {k}
      <4>1. {x \in Keys : luaH_get(t', x) # luaH_get(t, x)} = {k} BY <2>2, <2>4
      <4> QED BY <4>1, ChangedIs
    <3>2. [y \in Keys |-> luaH_get(t, y)]'[k] \in Values \cup {Nil} BY <2>2
    <3>3. Abstract!Assign BY <1>3, <2>1, <3>1, <3>2 DEF Abstract!Assign
    <3> QED BY <3>3 DEF Abstract!MNext
  <2> QED BY <2>3, <2>4
<1>6. ASSUME NEW n \in NewArray, Reserve(n) PROVE UNCHANGED Abstract!mvars
  <2>1. n > sizearray(t) /\ t' = luaH_resizearray(t, n) /\ cur' = cur /\ seen' = seen
    BY <1>6 DEF Reserve
  <2>2. n \in 0 .. TwoTo(MAXBITS) BY TableAssumption
  <2>3. \E nh : Resized(t, luaH_resizearray(t, n), n, nh) BY <1>1, <2>1, <2>2, ReserveIs
  <2>4. SameMap BY <2>1, <2>3 DEF Resized, SameMap
  <2> QED BY <1>4, <2>1, <2>4
<1>7. CASE TraverseTable
  <2>1. t' = Swept(t) /\ cur' = cur /\ seen' = seen BY <1>7 DEF TraverseTable, Swept
  <2>2. SameMap BY <1>1, <2>1, SweptIs DEF SameMap
  <2> QED BY <1>4, <2>1, <2>2
<1>8. CASE StartLoop
  <2>1. t' = t /\ cur = Off /\ cur' = Nil /\ seen' = {} BY <1>8 DEF StartLoop
  <2>2. Abstract!Changed = {} BY <2>1, ChangedIs
  <2>3. Abstract!StartWalk BY <1>3, <2>1, <2>2 DEF Abstract!StartWalk
  <2> QED BY <2>3 DEF Abstract!MNext
<1>9. CASE NextKey
  <2> DEFINE k == luaH_next(t, cur)
  <2>1. cur # Off /\ t' = t /\ cur' = (IF k = Nil THEN Off ELSE k)
        /\ seen' = (IF k = Nil THEN {} ELSE seen \cup {k})
    BY <1>9 DEF NextKey
  <2>2. Abstract!Changed = {} BY <2>1, ChangedIs
  <2>3. \/ k = Nil /\ \A x \in Keys : luaH_get(t, x) # Nil => x \in seen
        \/ k # Nil /\ Visits(k)
    BY <1>2, <2>1, VisitIs DEF IInv
  <2> HIDE DEF k
  <2>4. Abstract!Present = {x \in Keys : luaH_get(t, x) # Nil} BY DEF Abstract!Present
  <2>5. CASE k = Nil /\ \A x \in Keys : luaH_get(t, x) # Nil => x \in seen
    <3>1. Abstract!EndWalk BY <1>3, <2>1, <2>2, <2>4, <2>5 DEF Abstract!EndWalk
    <3> QED BY <3>1 DEF Abstract!MNext
  <2>6. CASE k # Nil /\ Visits(k)
    <3>1. k \in Keys /\ k \notin seen /\ luaH_get(t, k) # Nil BY <2>6 DEF Visits
    <3>2. cur' = k /\ seen' = seen \cup {k} BY <2>1, <2>6
    <3>3. Abstract!Visit(k) BY <1>3, <2>1, <2>2, <2>4, <3>1, <3>2 DEF Abstract!Visit
    <3> QED BY <3>1, <3>3 DEF Abstract!MNext
  <2> QED BY <2>3, <2>5, <2>6
<1>10. CASE UNCHANGED vars
  <2>1. SameMap /\ cur' = cur /\ seen' = seen BY <1>10 DEF vars, SameMap
  <2> QED BY <1>4, <2>1
<1> QED BY <1>5, <1>6, <1>7, <1>8, <1>9, <1>10 DEF Next

\* The table implements a finite map with an exact traversal: an assignment
\* changes one key, rehash and collection change none, and a loop with next
\* returns every key once before it ends (ImplementsMap).
THEOREM RefinesMap == Spec => ImplementsMap
<1> QED BY InitMaps, StepMaps, AlwaysWalks, PTL DEF Spec, ImplementsMap, Abstract!MSpec
=============================================================================
