------------------------------ MODULE LuaTable ------------------------------
(***************************************************************************)
(* The table of Lua (ltable.c): an array part for the keys 1..sizearray    *)
(* and a hash part, a vector of nodes in which the keys that collide are   *)
(* chained (Brent's variation of a chained scatter table).  A key that     *)
(* finds no free node makes the table count its integer keys, choose new   *)
(* sizes for both parts and insert every element again.                    *)
(*                                                                         *)
(* A table is a record; the functions of ltable.c are operators on it and  *)
(* the actions are the calls the rest of the program makes.                *)
(***************************************************************************)
EXTENDS Integers, FiniteSets, Sequences, FiniteSetsExt, Functions

CONSTANTS IntKeys,   \* number keys (all of them are integers)
          StrKeys,   \* strings: hashed by a power of two
          PtrKeys,   \* other collectable objects: hashed by pointer
          Hash,      \* the hash of each key, before the reduction to a node
          Values, Nil, Off, Error,
          MAXBITS,   \* the array part has at most 2^MAXBITS slots
          MaxInt,    \* MAX_INT, where the border search gives up doubling
          NewArray, NewHash  \* the sizes lua_createtable asks for

\* twoto of lobject.h, and the variables that are doubled along with a loop
TwoTo(n) == LET p[i \in 0..n] == IF i = 0 THEN 1 ELSE 2 * p[i - 1] IN p[n]

Null == -1
Keys == IntKeys \cup StrKeys \cup PtrKeys
Collectable == StrKeys \cup PtrKeys

ASSUME TableAssumption ==
    /\ MaxInt \in Nat /\ IntKeys \subseteq 1..MaxInt
    /\ \A k \in Keys : Hash[k] \in Nat
    /\ Nil \notin Keys \cup Values /\ {Off, Error} \cap (Keys \cup {Nil}) = {}
    /\ Off # Error /\ Error \notin Int
    /\ MAXBITS \in Nat /\ TwoTo(MAXBITS) <= MaxInt
    \* "max size of array part is 2^MAXBITS" (ltable.c): 2^26, more than the
    \* items of any constructor
    /\ NewArray \subseteq 0..TwoTo(MAXBITS) /\ NewHash \subseteq Nat

VARIABLES t,      \* the table: array, node, lastfree, dummy
          cur,    \* the key the loop passes to next; Nil at the start, Off
          seen    \* (history) the keys next has returned since the start
vars == <<t, cur, seen>>

\* ceillog2 of lobject.h: the least lg with x <= 2^lg
CeilLog2(x) == CHOOSE lg \in 0..x : x <= TwoTo(lg) /\ (lg = 0 \/ TwoTo(lg - 1) < x)

EmptyNode == [key |-> Nil, dead |-> FALSE, val |-> Nil, next |-> Null]
sizearray(tb) == Len(tb.array)
sizenode(tb) == Cardinality(DOMAIN tb.node)

-----------------------------------------------------------------------------
(* Where a key is.                                                         *)

\* hashpow2 for the strings, hashmod ((size-1)|1) for the others
mainposition(tb, k) ==
    LET size == sizenode(tb) IN
    IF k \in StrKeys THEN Hash[k] % size
    ELSE Hash[k] % (IF size = 1 THEN 1 ELSE size - 1)

\* The nodes of the chain that starts at node n, in order, and then Null
Chain(tb, n) ==
    LET at[i \in 0..(sizenode(tb) - 1)] ==
            IF i = 0 THEN n
            ELSE LET p == at[i - 1] IN IF p = Null THEN Null ELSE tb.node[p].next
    IN at

\* The first node of chain at whose place is in hits, or Null
First(at, hits) == IF hits = {} THEN Null ELSE at[Min(hits)]

\* The places of key k in chain at: the test findindex makes.
Keyed(tb, at, k) == {i \in DOMAIN at : at[i] # Null /\ tb.node[at[i]].key = k}

\* The node that holds k, or Null: the search loop of the get functions
FindNode(tb, k) ==
    LET at == Chain(tb, mainposition(tb, k))
    IN First(at, {i \in Keyed(tb, at, k) : ~tb.node[at[i]].dead})

InArray(tb, k) == k \in IntKeys /\ k <= sizearray(tb)

luaH_get(tb, k) ==
    IF InArray(tb, k) THEN tb.array[k]
    ELSE LET n == FindNode(tb, k) IN IF n = Null THEN Nil ELSE tb.node[n].val

\* luaH_getnum for any int, also one that is no key of the model
luaH_getnum(tb, i) == IF i \in IntKeys THEN luaH_get(tb, i) ELSE Nil

-----------------------------------------------------------------------------
(* Inserting a key that the table does not have.                           *)

\* getfreepos: the last node below lastfree that never had a key
FreePos(tb) ==
    LET free == {i \in 0..(tb.lastfree - 1) : tb.node[i].key = Nil}
    IN IF tb.dummy \/ free = {} THEN Null ELSE Max(free)

\* luaH_set needs a node for k and newkey finds none
MustRehash(tb, k) == /\ tb.node[mainposition(tb, k)].val # Nil \/ tb.dummy
                     /\ FreePos(tb) = Null

\* the node before mp in the chain of the key that mp holds
Previous(tb, mp) ==
    LET chain == Chain(tb, mainposition(tb, tb.node[mp].key))
    IN chain[CHOOSE i \in DOMAIN chain : chain[i] # Null /\ tb.node[chain[i]].next = mp]

\* newkey, when it needs no rehash: the table in which k has a node with a
\* nil value.
PlaceKey(tb, k) ==
    LET mp == mainposition(tb, k)
        n == FreePos(tb)
        keyed(nd) == [nd EXCEPT !.key = k, !.dead = FALSE]
    IN IF tb.node[mp].val = Nil
       THEN [tb EXCEPT !.node[mp] = keyed(@)]
       ELSE IF mainposition(tb, tb.node[mp].key) # mp
       THEN [tb EXCEPT !.lastfree = n,
                       !.node[Previous(tb, mp)].next = n,
                       !.node[n] = tb.node[mp],
                       !.node[mp] = [keyed(@) EXCEPT !.next = Null, !.val = Nil]]
       ELSE [tb EXCEPT !.lastfree = n,
                       !.node[n] = [keyed(@) EXCEPT !.next = tb.node[mp].next],
                       !.node[mp].next = n]

-----------------------------------------------------------------------------
(* Rehash: new sizes, and every element inserted again.                    *)

ArrayIndex(k) == k \in IntKeys /\ k <= TwoTo(MAXBITS)
InUse(tb) == {k \in 1..sizearray(tb) : tb.array[k] # Nil}
HashUse(tb) == {tb.node[i].key : i \in {j \in DOMAIN tb.node : tb.node[j].val # Nil}}

\* The integer keys of the table and the extra key ek that could go to the
\* array part: numusearray, numusehash and countint count them.
ArrayKeys(tb, ek) == InUse(tb) \cup {k \in HashUse(tb) \cup {ek} : ArrayIndex(k)}

\* nums[lg] is the number of those in (2^(lg-1), 2^lg]
Nums(ints) == [lg \in 0..MAXBITS |-> Cardinality({k \in ints : CeilLog2(k) = lg})]

\* (Mutant: an array half used is enough, >= for >.)
computesizesHalf(nums, narray) ==
    LET sum(i) == FoldFunctionOnSet(LAMBDA x, y : x + y, 0, nums, 0..i)
        best == {i \in 0..MAXBITS : nums[i] > 0 /\ sum(i) >= TwoTo(i) \div 2}
    IN IF best = {} THEN [a |-> narray, na |-> 0, n |-> 0]
       ELSE [a |-> narray, na |-> sum(Max(best)), n |-> TwoTo(Max(best))]

\* The loop of computesizes, one slice at a time; a is the number of keys so
\* far, na how many go to the array part, n its size.
computesizes(nums, narray) ==
    LET slice(i, acc) ==
            LET a == acc.a + nums[i]
            IN IF TwoTo(i) \div 2 >= narray \/ acc.a = narray THEN acc
               ELSE IF nums[i] > 0 /\ a > TwoTo(i) \div 2
                    THEN [a |-> a, na |-> a, n |-> TwoTo(i)]
                    ELSE [acc EXCEPT !.a = a]
        \* a slice before the first one that stops the loop
        upto[i \in -1..MAXBITS] ==
            IF i = -1 THEN [a |-> 0, na |-> 0, n |-> 0] ELSE slice(i, upto[i - 1])
    IN upto[MAXBITS]

\* (Mutant: rehash forgets to count the extra key.)
NewSizesNoExtra(tb, ek) ==
    LET ints == ArrayKeys(tb, ek)
        new == computesizes(Nums(ints), Cardinality(ints))
    IN [array |-> new.n,
        hash |-> Cardinality(InUse(tb)) + Cardinality(HashUse(tb)) - new.na]

NewSizes(tb, ek) ==
    LET ints == ArrayKeys(tb, ek)
        new == computesizes(Nums(ints), Cardinality(ints))
        totaluse == Cardinality(InUse(tb)) + Cardinality(HashUse(tb)) + 1
    IN [array |-> new.n, hash |-> totaluse - new.na]

\* setnodevector; the table overflow of more than 2^MAXBITS nodes is a fault
NodeVector(size) == [i \in 0..(TwoTo(CeilLog2(size)) - 1) |-> EmptyNode]
EmptyHash(size) ==
    IF size = 0 THEN [node |-> NodeVector(1), lastfree |-> 0, dummy |-> TRUE]
    ELSE [node |-> NodeVector(size), lastfree |-> TwoTo(CeilLog2(size)), dummy |-> FALSE]

\* luaH_set or luaH_setnum, and the assignment to the slot it returns, for a
\* key that needs no rehash
Put(tb, k, v) ==
    IF InArray(tb, k) THEN [tb EXCEPT !.array[k] = v]
    ELSE LET tb1 == IF FindNode(tb, k) = Null THEN PlaceKey(tb, k) ELSE tb
         IN [tb1 EXCEPT !.node[FindNode(tb1, k)].val = v]

\* What resize goes through to insert again, in its order: the vanishing slice
\* of the array upwards, then the nodes of the old hash part downwards.
Reinserted(tb, nasize) ==
    LET slice == IF nasize < sizearray(tb) THEN sizearray(tb) - nasize ELSE 0
        size == sizenode(tb)
    IN [i \in 1..(slice + size) |->
            IF i <= slice THEN <<nasize + i, tb.array[nasize + i]>>
            ELSE LET nd == tb.node[slice + size - i] IN <<nd.key, nd.val>>]

\* The table with the new, empty parts: what a grown or shrunk array keeps.
Emptied(tb, nasize, nhsize) ==
    LET h == EmptyHash(nhsize)
    IN [array |-> [i \in 1..nasize |-> IF i <= sizearray(tb) THEN tb.array[i] ELSE Nil],
        node |-> h.node, lastfree |-> h.lastfree, dummy |-> h.dummy]

\* The tables that come of inserting the first elements of es that have a value.
Filled(tb0, es) ==
    LET tb[i \in 0..Len(es)] ==
            IF i = 0 THEN tb0
            ELSE IF es[i][2] = Nil THEN tb[i - 1] ELSE Put(tb[i - 1], es[i][1], es[i][2])
    IN tb

resize(tb, nasize, nhsize) ==
    LET es == Reinserted(tb, nasize)
    IN Filled(Emptied(tb, nasize, nhsize), es)[Len(es)]

rehash(tb, ek) == LET new == NewSizes(tb, ek) IN resize(tb, new.array, new.hash)

luaH_resizearray(tb, nasize) ==
    resize(tb, nasize, IF tb.dummy THEN 0 ELSE sizenode(tb))

\* luaH_set: the slot of k, created when the table has none (also for nil)
luaH_set(tb, k, v) ==
    IF ~InArray(tb, k) /\ FindNode(tb, k) = Null /\ MustRehash(tb, k)
    THEN Put(rehash(tb, k), k, v)
    ELSE Put(tb, k, v)

luaH_new(narray, nhash) ==
    Emptied([array |-> <<>>, node |-> <<>>, lastfree |-> 0, dummy |-> TRUE], narray, nhash)

-----------------------------------------------------------------------------
(* Traversal.                                                              *)

\* (Mutant: a key that the collector marked dead has no place.)
findindexAlive(tb, k) ==
    IF k = Nil THEN -1
    ELSE IF InArray(tb, k) THEN k - 1
    ELSE LET n == FindNode(tb, k) IN IF n = Null THEN Error ELSE n + sizearray(tb)

\* findindex: the place of key k, -1 for nil.  A dead key still has a place.
findindex(tb, k) ==
    IF k = Nil THEN -1
    ELSE IF InArray(tb, k) THEN k - 1
    ELSE LET at == Chain(tb, mainposition(tb, k))
             n == First(at, Keyed(tb, at, k))
         IN IF n = Null THEN Error ELSE n + sizearray(tb)

\* luaH_next: the first key with a value after the place of k
luaH_next(tb, k) ==
    LET from == findindex(tb, k)
        asize == sizearray(tb)
        held(i) == IF i < asize THEN tb.array[i + 1] ELSE tb.node[i - asize].val
        later == {i \in (from + 1)..(asize + sizenode(tb) - 1) : held(i) # Nil}
    IN IF from = Error THEN Error
       ELSE IF later = {} THEN Nil
       ELSE LET i == Min(later)
            IN IF i < asize THEN i + 1 ELSE tb.node[i - asize].key

-----------------------------------------------------------------------------
(* The border of the table, the value of #t.                               *)

\* The binary search of luaH_getn and unbound_search: i is present, j is not;
\* f[d][a] goes on with a and a + d.
Bisect(present, i, j) ==
    LET f[d \in 0..j] == [a \in 0..j |->
            IF d <= 1 THEN a
            ELSE LET m == a + d \div 2
                 IN IF m \in present THEN f[d - d \div 2][m] ELSE f[d \div 2][a]]
    IN f[j - i][i]

unbound_search(tb, start) ==
    LET present == {x \in 1..(2 * MaxInt) : luaH_getnum(tb, x) # Nil}
        \* the pairs (i, j) of the doubling loop
        f[j \in 1..(2 * MaxInt)] == [i \in 0..MaxInt |->
            IF j \notin present THEN Bisect(present, i, j)
            ELSE IF 2 * j > MaxInt
            THEN (CHOOSE n \in 1..(MaxInt + 1) :
                     n \notin present /\ \A m \in 1..(n - 1) : m \in present) - 1
            ELSE f[2 * j][j]]
    IN f[start + 1][start]

\* (Mutant: the last slot of the array part is taken to be present.)
luaH_getnNoCheck(tb) ==
    IF tb.dummy THEN sizearray(tb) ELSE unbound_search(tb, sizearray(tb))

luaH_getn(tb) ==
    LET j == sizearray(tb)
    IN IF j > 0 /\ tb.array[j] = Nil
       THEN Bisect({m \in 1..j : tb.array[m] # Nil}, 0, j)
       ELSE IF tb.dummy THEN j ELSE unbound_search(tb, j)

-----------------------------------------------------------------------------
Init == /\ \E a \in NewArray, h \in NewHash : t = luaH_new(a, h)
        /\ cur = Off /\ seen = {}

\* An assignment t[k] = v.  While a traversal is under way the program
\* assigns only to fields that have a value (the contract of next).
Set(k, v) == /\ cur # Off => luaH_get(t, k) # Nil
             /\ t' = luaH_set(t, k, v)
             /\ UNCHANGED <<cur, seen>>

\* OP_SETLIST makes room for the items of a constructor
Reserve(n) == /\ cur = Off /\ n > sizearray(t)
              /\ t' = luaH_resizearray(t, n)
              /\ UNCHANGED <<cur, seen>>

\* The collector traverses the table: removeentry marks the collectable key
\* of every node without a value as dead.
TraverseTable ==
    /\ t' = [t EXCEPT !.node = [i \in DOMAIN t.node |->
                IF t.node[i].val = Nil /\ t.node[i].key \in Collectable
                THEN [t.node[i] EXCEPT !.dead = TRUE] ELSE t.node[i]]]
    /\ UNCHANGED <<cur, seen>>

StartLoop == cur = Off /\ cur' = Nil /\ seen' = {} /\ UNCHANGED t

NextKey == /\ cur \notin {Off, Error}
           /\ LET k == luaH_next(t, cur) IN
              /\ cur' = IF k = Nil THEN Off ELSE k
              /\ seen' = IF k = Nil THEN {} ELSE seen \cup {k}
           /\ UNCHANGED t

Next == \/ \E k \in Keys, v \in Values \cup {Nil} : Set(k, v)
        \/ \E n \in NewArray : Reserve(n)
        \/ TraverseTable \/ StartLoop \/ NextKey

Spec == Init /\ [][Next]_vars
-----------------------------------------------------------------------------

(* The table is a map and its traversal is exact: whatever collides, moves,  *)
(* dies or is inserted again, an assignment changes the value of its key and *)
(* of no other, no collector step changes any, and a loop over the table     *)
(* that assigns to existing fields (also nil, with the collector running in  *)
(* between) gets each key with a value once and misses none; next never      *)
(* finds its key invalid (luaH_set, newkey, resize, luaH_next).              *)
Abstract == INSTANCE TableMap WITH
    map <- [k \in Keys |-> luaH_get(t, k)],
    walking <- IF cur = Error THEN Error ELSE cur # Off
ImplementsMap == Abstract!MSpec

(* The value of #t is a border: t[n] is not nil unless n is 0, and t[n + 1]  *)
(* is nil, wherever the two parts meet and also when the doubling search     *)
(* would overflow an int (luaH_getn, unbound_search).                        *)
BorderFound ==
    LET n == luaH_getn(t)
    IN (n = 0 \/ luaH_getnum(t, n) # Nil) /\ luaH_getnum(t, n + 1) = Nil

Absent(k) == ~InArray(t, k) /\ FindNode(t, k) = Null

(* A rehash for key k gives the array part the largest power of two n with   *)
(* more than n/2 of its slots in use, k counted, and the hash part room for  *)
(* exactly the rest (computesizes, rehash).                                  *)
SizesAreBest ==
    \A k \in {x \in Keys : Absent(x) /\ MustRehash(t, x)} :
        LET used == {x \in Keys : luaH_get(t, x) # Nil} \cup {k}
            ints(n) == {x \in used \cap IntKeys : x <= n}
            best == Max({0} \cup {n \in {TwoTo(i) : i \in 0..MAXBITS} :
                                     2 * Cardinality(ints(n)) > n})
        IN NewSizes(t, k) = [array |-> best,
                             hash |-> Cardinality(used \ ints(best))]

(* Inserting the elements again after a rehash, and then the new key, never  *)
(* needs another rehash: luaH_set in resize finds a node for each of them,   *)
(* so newkey does not run the resize it is called from again.                *)
ReinsertionFits ==
    \A k \in {x \in Keys : Absent(x) /\ MustRehash(t, x)} :
        LET new == NewSizes(t, k)
            es == Reinserted(t, new.array)
            tb == Filled(Emptied(t, new.array, new.hash), es)
            fits(tb1, x) == InArray(tb1, x) \/ ~MustRehash(tb1, x)
        IN /\ \A i \in 1..Len(es) : es[i][2] # Nil => fits(tb[i - 1], es[i][1])
           /\ fits(tb[Len(es)], k)
=============================================================================
