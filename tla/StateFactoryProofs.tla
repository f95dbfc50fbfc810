------------------------- MODULE StateFactoryProofs -------------------------
(***************************************************************************)
(* Proofs about StateFactory, for any number of LuaStates, addresses and   *)
(* coroutines.  The types hold however many VMs are open at a time; that   *)
(* the index in a registry leads to a LuaState of the VM needs that the    *)
(* application opens the next VM only after it closed the last, as         *)
(* LuaEngine does: with two the list shifts under an index in use.         *)
(***************************************************************************)
EXTENDS StateFactory, FiniteSetTheorems, SequenceTheorems, TLAPS

OneVM == Together = 1

\* A LuaState that was given an index got one that the list has.
Indexed == \A s \in LuaState :
  phase[s] \in {"open", "ready", "closing"} => stateId[s] \in Positions

\* Which VM a LuaState works on, and that it exists: while the constructor of
\* a LuaState runs, nobody closes its VM, and nobody closes it twice.
Working ==
  /\ \A v, w \in alive : v = w
  /\ \A s \in LuaState : phase[s] \in {"insert", "open", "ready", "closing"} =>
       peer[s] \in Address /\ Home(peer[s]) \in alive
  /\ \A s \in LuaState : phase[s] \in {"insert", "open"} => InUse(Home(peer[s]))
  /\ \A s, o \in LuaState : phase[s] = "closing" /\ phase[o] = "closing" => s = o

\* The list has no LuaState that was not constructed, and what the constructor
\* of s was given is the index of a LuaState with its address.
Listing ==
  /\ \A i \in Positions : At(i) # Null => phase[At(i)] # "none"
  /\ \A s \in LuaState : phase[s] = "open" =>
       At(stateId[s]) # Null /\ peer[At(stateId[s])] = peer[s]

Typed == TypeOK /\ Indexed
IInv == Typed /\ Working /\ Listing /\ FindsItsState /\ NeverForgotten
-----------------------------------------------------------------------------
\* getNextStateIndex finds the first hole of the list, or its end.
LEMMA NextStateIndexFound ==
  ASSUME TypeOK
  PROVE  /\ NextStateIndex \in 0 .. Len(states)
         /\ NextStateIndex = Len(states) \/ At(NextStateIndex) = Null
<1> DEFINE Fits == {i \in 0 .. Len(states) : i = Len(states) \/ At(i) = Null}
           Less == OpToRel(<, Nat)
<1>1. Len(states) \in Fits /\ Fits \subseteq Nat BY DEF TypeOK
<1>2. IsWellFoundedOn(Less, Nat) BY NatLessThanWellFounded
<1> HIDE DEF Less
<1>3. PICK i \in Fits : \A j \in Fits : <<j, i>> \notin Less
  BY <1>1, <1>2, WFMin
<1>4. ASSUME NEW j \in Fits PROVE ~(j < i)
  BY <1>1, <1>3 DEF Less, OpToRel
<1>5. \A j \in 0 .. i - 1 : At(j) # Null
  <2> SUFFICES ASSUME NEW j \in 0 .. i - 1, At(j) = Null PROVE FALSE OBVIOUS
  <2>1. j \in Fits /\ j < i BY <1>1 DEF TypeOK
  <2> QED BY <1>4, <2>1
<1>6. i \in 0 .. Len(states) /\ (i = Len(states) \/ At(i) = Null) OBVIOUS
<1> HIDE DEF Fits
<1> QED BY <1>5, <1>6 DEF NextStateIndex

\* What List.add does to a list: nothing before k changes, what was at k or
\* after it is one further.
LEMMA InsertAtShifts ==
  ASSUME NEW A, NEW s \in Seq(A), NEW k \in 1 .. Len(s) + 1, NEW e \in A
  PROVE  /\ InsertAt(s, k, e) \in Seq(A)
         /\ Len(InsertAt(s, k, e)) = Len(s) + 1
         /\ \A j \in 1 .. Len(s) + 1 :
              InsertAt(s, k, e)[j] = IF j < k THEN s[j] ELSE IF j = k THEN e ELSE s[j - 1]
<1> DEFINE below == SubSeq(s, 1, k - 1)
           above == SubSeq(s, k, Len(s))
           front == below \o <<e>>
<1>1. Len(s) \in Nat /\ k \in Nat OBVIOUS
<1>2. /\ below \in Seq(A) /\ Len(below) = k - 1 /\ \A j \in 1 .. k - 1 : below[j] = s[j]
      /\ above \in Seq(A) /\ Len(above) = Len(s) + 1 - k
      /\ \A j \in 1 .. Len(above) : above[j] = s[k + j - 1]
  BY <1>1
<1>3. InsertAt(s, k, e) = front \o above BY Zenon DEF InsertAt
<1> HIDE DEF below, above
<1>4. front \in Seq(A) /\ Len(front) = k
      /\ \A j \in 1 .. k : front[j] = IF j < k THEN s[j] ELSE e
  BY <1>1, <1>2
<1> HIDE DEF front
<1>5. /\ front \o above \in Seq(A) /\ Len(front \o above) = Len(s) + 1
      /\ \A j \in 1 .. Len(s) + 1 : (front \o above)[j] =
           IF j <= k THEN front[j] ELSE above[j - k]
  <2>1. front \in Seq(A) /\ above \in Seq(A) BY <1>2, <1>4
  <2>2. /\ front \o above \in Seq(A) /\ Len(front \o above) = Len(front) + Len(above)
        /\ \A j \in 1 .. Len(front) + Len(above) : (front \o above)[j] =
             IF j <= Len(front) THEN front[j] ELSE above[j - Len(front)]
    BY <2>1, ConcatProperties, Zenon
  <2>3. Len(front) = k /\ Len(front) + Len(above) = Len(s) + 1 BY <1>1, <1>2, <1>4
  <2> QED BY <2>2, <2>3
<1>6. ASSUME NEW j \in 1 .. Len(s) + 1, ~(j <= k) PROVE above[j - k] = s[j - 1]
  <2>1. j - k \in 1 .. Len(above) /\ k + (j - k) - 1 = j - 1 BY <1>1, <1>2, <1>6
  <2> QED BY <1>2, <2>1
<1> QED BY <1>1, <1>3, <1>4, <1>5, <1>6

\* The same for the list of the factory, whose elements count from 0.
LEMMA AddShifts ==
  ASSUME TypeOK, NEW i \in 0 .. Len(states), NEW s \in LuaState \cup {Null}
  PROVE  /\ Add(i, s) \in Seq(LuaState \cup {Null})
         /\ Len(Add(i, s)) = Len(states) + 1
         /\ \A j \in 0 .. Len(states) :
              Add(i, s)[j + 1] = IF j < i THEN At(j) ELSE IF j = i THEN s ELSE At(j - 1)
<1> DEFINE A == LuaState \cup {Null}
<1>1. states \in Seq(A) /\ Len(states) \in Nat /\ i + 1 \in 1 .. Len(states) + 1 /\ s \in A
  BY DEF TypeOK
<1> HIDE DEF A
<1>2. /\ Add(i, s) \in Seq(A) /\ Len(Add(i, s)) = Len(states) + 1
      /\ \A j \in 1 .. Len(states) + 1 :
           Add(i, s)[j] = IF j < i + 1 THEN states[j] ELSE IF j = i + 1 THEN s ELSE states[j - 1]
  <2> DEFINE k == i + 1
  <2>1. k \in 1 .. Len(states) + 1 /\ Add(i, s) = InsertAt(states, k, s) BY <1>1 DEF Add
  <2> HIDE DEF k
  <2>2. /\ InsertAt(states, k, s) \in Seq(A) /\ Len(InsertAt(states, k, s)) = Len(states) + 1
        /\ \A j \in 1 .. Len(states) + 1 :
             InsertAt(states, k, s)[j] =
               IF j < k THEN states[j] ELSE IF j = k THEN s ELSE states[j - 1]
    <3>1. states \in Seq(A) /\ s \in A /\ k \in 1 .. Len(states) + 1 BY <1>1, <2>1
    <3> QED BY ONLY <3>1, InsertAtShifts
  <2> QED BY <2>1, <2>2 DEF k
<1>3. ASSUME NEW j \in 0 .. Len(states)
      PROVE  Add(i, s)[j + 1] = IF j < i THEN At(j) ELSE IF j = i THEN s ELSE At(j - 1)
  <2>1. j + 1 \in 1 .. Len(states) + 1 /\ j + 1 - 1 = j /\ j - 1 + 1 = j BY <1>1
  <2> QED BY <1>1, <1>2, <2>1 DEF At
<1> QED BY <1>2, <1>3 DEF A
USE VMAssumption, NullAssumption
-----------------------------------------------------------------------------
(* Types, however many VMs are open.                                       *)

\* Nothing is listed before the first LuaState.
LEMMA InitTyped == Init => Typed
BY DEF Init, Typed, TypeOK, Indexed

\* Every step keeps the types, and the index a LuaState has within the list.
LEMMA NextTyped == Typed /\ [Next]_vars => Typed'
<1> SUFFICES ASSUME Typed, [Next]_vars PROVE Typed' OBVIOUS
<1> USE DEF Typed
<1>1. ASSUME NEW s \in LuaState, NEW v \in VM, NewLuaState(s, v) PROVE Typed'
  <2> DEFINE i == NextStateIndex
  <2>1. i \in 0 .. Len(states) BY NextStateIndexFound
  <2>2. states' = Add(i, s) /\ index' = [index EXCEPT ![v] = i]
        /\ stateId' = [stateId EXCEPT ![s] = i]
    BY <1>1 DEF NewLuaState
  <2>3. states' \in Seq(LuaState \cup {Null}) /\ Len(states') = Len(states) + 1
    BY <2>1, <2>2, AddShifts
  <2>4. Len(states) \in Nat /\ i \in Nat BY <2>1 DEF TypeOK
  <2> HIDE DEF i
  <2>5. TypeOK' BY <1>1, <2>2, <2>3, <2>4 DEF NewLuaState, TypeOK, Address
  <2>6. Indexed' BY <1>1, <2>1, <2>2, <2>3, <2>4 DEF NewLuaState, TypeOK, Indexed, Positions
  <2> QED BY <2>5, <2>6
<1>2. ASSUME NEW s \in LuaState, NEW p \in Address \cup {Null}, Wrap(s, p) PROVE Typed'
  BY <1>2 DEF Wrap, TypeOK, Indexed, Positions
<1>3. ASSUME NEW s \in LuaState, InsertLuaState(s) PROVE Typed'
  <2>1. CASE \E i \in Positions :
               /\ stateId' = [stateId EXCEPT ![s] = i]
               /\ phase' = [phase EXCEPT ![s] = "open"]
               /\ UNCHANGED states
    BY <1>3, <2>1 DEF InsertLuaState, TypeOK, Indexed, Positions
  <2>2. CASE /\ NextStateIndex < Len(states)
             /\ states' = Set(NextStateIndex, s)
             /\ stateId' = [stateId EXCEPT ![s] = NextStateIndex]
             /\ phase' = [phase EXCEPT ![s] = "open"]
    <3> DEFINE i == NextStateIndex
    <3>1. i \in 0 .. Len(states) - 1 BY <2>2, NextStateIndexFound DEF TypeOK
    <3> HIDE DEF i
    <3>2. states' = [states EXCEPT ![i + 1] = s] BY <2>2 DEF i, Set
    <3>3. states' \in Seq(LuaState \cup {Null}) /\ Len(states') = Len(states)
      BY <3>1, <3>2 DEF TypeOK
    <3>4. stateId' = [stateId EXCEPT ![s] = i] BY <2>2 DEF i
    <3> QED BY <1>3, <2>2, <3>1, <3>3, <3>4 DEF InsertLuaState, TypeOK, Indexed, Positions
  <2>3. CASE phase' = [phase EXCEPT ![s] = "failed"] /\ UNCHANGED <<states, stateId>>
    BY <1>3, <2>3 DEF InsertLuaState, TypeOK, Indexed, Positions
  <2> QED BY <1>3, <2>1, <2>2, <2>3 DEF InsertLuaState
<1>4. ASSUME NEW s \in LuaState, LuajavaOpen(s) PROVE Typed'
  BY <1>4 DEF LuajavaOpen, TypeOK, Indexed, Positions
<1>5. ASSUME NEW s \in LuaState, RemoveLuaState(s) PROVE Typed'
  <2>1. stateId[s] \in Positions BY <1>5 DEF RemoveLuaState, Usable, Indexed
  <2>2. Len(states) \in Nat BY DEF TypeOK
  <2>3. stateId[s] \in 0 .. Len(states) /\ Null \in LuaState \cup {Null}
    BY <2>1, <2>2 DEF Positions
  <2>4. states' \in Seq(LuaState \cup {Null}) /\ Len(states') = Len(states) + 1
    BY <1>5, <2>3, AddShifts DEF RemoveLuaState
  <2> QED BY <1>5, <2>1, <2>2, <2>4 DEF RemoveLuaState, Usable, TypeOK, Indexed, Positions
<1>6. ASSUME NEW s \in LuaState, CloseVM(s) PROVE Typed'
  BY <1>6 DEF CloseVM, TypeOK, Indexed, Positions
<1>7. CASE UNCHANGED vars
  BY <1>7 DEF vars, TypeOK, Indexed, Positions
<1>8. ASSUME NEW s \in LuaState, NEW parent \in LuaState,
             NewThread(s, parent) \/ ToThread(s, parent)
      PROVE  Typed'
  <2>1. PICK p \in Address \cup {Null} : Wrap(s, p)
    BY <1>8 DEF NewThread, ToThread, TypeOK, Address
  <2> QED BY <1>2, <2>1
<1> QED BY <1>1, <1>3, <1>4, <1>5, <1>6, <1>7, <1>8 DEF Next

\* The list has LuaStates and holes, and indices are positions in it, with any
\* number of VMs open (LuaStateFactory.states, LuaState.stateId).
THEOREM TypeCorrect == Spec => []TypeOK
<1>1. Typed => TypeOK BY DEF Typed
<1> QED BY <1>1, InitTyped, NextTyped, PTL DEF Spec
-----------------------------------------------------------------------------
(* The index in the registry, with one VM at a time.                       *)

\* The coroutines of a VM and the VM itself are of that VM.
LEMMA HomeType == \A p \in Address : Home(p) \in VM
BY DEF Address, Home

\* Constructing the first LuaState of a VM: no other VM exists.
LEMMA NewLuaStateInv ==
  ASSUME IInv, OneVM, NEW s \in LuaState, NEW v \in VM, NewLuaState(s, v), Typed'
  PROVE  IInv'
<1> USE DEF IInv, Typed
<1>1. alive = {}
  <2>1. CASE \E w \in VM : alive = {w}
    <3>1. Cardinality(alive) = 1 BY <2>1, FS_Singleton
    <3> QED BY <3>1 DEF NewLuaState, OneVM
  <2>2. alive = {} \/ \E w \in VM : alive = {w} BY DEF Working, TypeOK
  <2> QED BY <2>1, <2>2
<1>2. PICK i \in 0 .. Len(states) : i = NextStateIndex BY NextStateIndexFound
<1>3. /\ phase[s] = "none"
      /\ index' = [index EXCEPT ![v] = i]
      /\ stateId' = [stateId EXCEPT ![s] = i]
      /\ states' = Add(i, s) /\ alive' = {v}
      /\ peer' = [peer EXCEPT ![s] = v]
      /\ phase' = [phase EXCEPT ![s] = "ready"]
  BY <1>1, <1>2 DEF NewLuaState
<1>4. /\ Len(states') = Len(states) + 1
      /\ \A j \in 0 .. Len(states) :
           states'[j + 1] = IF j < i THEN At(j) ELSE IF j = i THEN s ELSE At(j - 1)
  BY <1>2, <1>3, AddShifts
<1>5. Len(states) \in Nat /\ i \in Nat BY <1>2 DEF TypeOK
<1>6. \A o \in LuaState : phase[o] \notin {"insert", "open", "ready", "closing"}
  BY <1>1 DEF Working
<1>7. /\ phase'[s] = "ready" /\ peer'[s] = v
      /\ \A o \in LuaState \ {s} : phase'[o] = phase[o] /\ peer'[o] = peer[o]
  BY <1>3 DEF TypeOK
<1>8. Home(v) = v /\ v \in Address BY DEF Home, Address
<1>9. Working'
  <2>1. \A o \in LuaState : phase'[o] \in {"insert", "open", "ready", "closing"} =>
          o = s /\ phase'[o] = "ready"
    BY <1>6, <1>7
  <2> QED BY <1>3, <1>7, <1>8, <2>1 DEF Working
<1>10. i \in Positions' /\ At(i)' = s BY <1>2, <1>4, <1>5 DEF Positions, At
<1>11. Listing'
  <2>1. ASSUME NEW j \in Positions', At(j)' # Null, At(j)' # s PROVE phase'[At(j)'] # "none"
    <3>1. j \in 0 .. Len(states) BY <1>4, <1>5 DEF Positions
    <3>2. PICK k \in Positions : At(j)' = At(k)
      <4>1. CASE j < i
        <5>1. j \in Positions BY <1>2, <1>5, <3>1, <4>1 DEF Positions
        <5> QED BY <1>4, <3>1, <4>1, <5>1 DEF At
      <4>2. CASE j > i
        <5>1. j - 1 \in Positions BY <1>5, <3>1, <4>2 DEF Positions
        <5>2. At(j)' = At(j - 1) BY <1>4, <1>5, <3>1, <4>2 DEF At
        <5> QED BY <5>1, <5>2 DEF At
      <4>3. j # i BY <1>10, <2>1
      <4> QED BY <1>5, <3>1, <4>1, <4>2, <4>3
    <3>3. At(k) \in LuaState BY <2>1, <3>2 DEF TypeOK, Positions, At
    <3> QED BY <1>7, <2>1, <3>2, <3>3 DEF Listing
  <2>2. \A o \in LuaState : phase'[o] # "open" BY <1>6, <1>7
  <2> QED BY <1>7, <2>1, <2>2 DEF Listing
<1>12. FindsItsState'
  <2>1. index'[v] = i BY <1>3 DEF TypeOK
  <2>2. \A w \in VM : InUse(w)' => w = v BY <1>3 DEF InUse
  <2> QED BY <1>7, <1>8, <1>10, <2>1, <2>2 DEF FindsItsState, At, Positions
<1>13. NeverForgotten'
  <2>1. \A o \in LuaState : phase'[o] = "ready" => o = s BY <1>6, <1>7
  <2> QED BY <1>7, <1>10, <2>1 DEF NeverForgotten, GetCPtrPeer, At, Positions
<1> QED BY <1>9, <1>11, <1>12, <1>13

\* newThread and toThread begin with a pointer of the VM they are called on.
LEMMA WrapInv ==
  ASSUME IInv, NEW s \in LuaState, NEW p \in Address, InUse(Home(p)), Wrap(s, p), Typed'
  PROVE  IInv'
<1> USE DEF IInv, Typed
<1>1. /\ phase[s] = "none" /\ phase'[s] = "insert" /\ peer'[s] = p
      /\ \A o \in LuaState \ {s} : phase'[o] = phase[o] /\ peer'[o] = peer[o]
      /\ UNCHANGED <<states, alive, index, stateId>>
  BY DEF Wrap, TypeOK
<1>2. \A v : InUse(v)' <=> InUse(v) BY <1>1 DEF InUse
<1>3. Working' BY <1>1, <1>2 DEF Working, InUse
<1>4. \A i \in Positions : At(i)' = At(i) /\ (At(i) # Null => At(i) \in LuaState \ {s})
  BY <1>1 DEF Listing, TypeOK, Positions, At
<1>5. Positions' = Positions BY <1>1 DEF Positions
<1>6. \A o \in LuaState : phase[o] = "open" => stateId[o] \in Positions /\ At(stateId[o]) # Null
  BY DEF Listing, Indexed
<1>7. Listing' BY <1>1, <1>4, <1>5, <1>6 DEF Listing
<1>8. FindsItsState' BY <1>1, <1>2, <1>4, <1>5 DEF FindsItsState
<1>9. NeverForgotten'
  <2> SUFFICES ASSUME NEW o \in LuaState, phase'[o] = "ready", InUse(Home(peer[o]))'
               PROVE  \E i \in Positions' : GetCPtrPeer(At(i))' = peer'[o]
    BY DEF NeverForgotten
  <2>1. o # s /\ peer'[o] = peer[o] /\ phase[o] = "ready" BY <1>1
  <2>2. peer[o] \in Address BY <2>1 DEF Working
  <2>3. PICK i \in Positions : GetCPtrPeer(At(i)) = peer[o]
    BY <1>1, <2>1 DEF NeverForgotten, InUse
  <2>4. At(i) # Null BY <2>2, <2>3 DEF GetCPtrPeer
  <2> QED BY <1>1, <1>4, <1>5, <2>1, <2>3, <2>4 DEF GetCPtrPeer
<1> QED BY <1>3, <1>7, <1>8, <1>9

\* newThread and toThread keep the invariant.
LEMMA ThreadInv ==
  ASSUME IInv, NEW s \in LuaState, NEW parent \in LuaState,
         NewThread(s, parent) \/ ToThread(s, parent), Typed'
  PROVE  IInv'
<1>1. peer[parent] \in Address /\ InUse(Home(peer[parent]))
  BY DEF IInv, Working, NewThread, ToThread, Usable
<1>2. CASE NewThread(s, parent)
  BY <1>1, <1>2, WrapInv DEF NewThread
<1>3. CASE ToThread(s, parent)
  <2>1. PICK c \in Coroutine : VMOf[c] = Home(peer[parent]) /\ Wrap(s, c)
    BY <1>3 DEF ToThread
  <2>2. c \in Address /\ Home(c) = VMOf[c] BY DEF Address, Home
  <2> QED BY <1>1, <2>1, <2>2, WrapInv
<1> QED BY <1>2, <1>3

\* insertLuaState keeps it: a hole takes the LuaState, or another LuaState
\* with its address answers for it.
LEMMA InsertLuaStateInv ==
  ASSUME IInv, NEW s \in LuaState, InsertLuaState(s), Typed'
  PROVE  IInv'
<1> USE DEF IInv, Typed
<1>1. phase[s] = "insert" /\ UNCHANGED <<alive, index, peer>> BY DEF InsertLuaState
<1>2. peer[s] \in Address /\ Home(peer[s]) \in alive /\ InUse(Home(peer[s]))
  BY <1>1 DEF Working
<1>3. PICK ph \in {"open", "failed"} : phase' = [phase EXCEPT ![s] = ph]
  BY DEF InsertLuaState
<1>4. phase'[s] = ph /\ \A o \in LuaState \ {s} : phase'[o] = phase[o]
  BY <1>3 DEF TypeOK
<1>5. \A v : InUse(v)' <=> InUse(v) BY <1>1, <1>4 DEF InUse
<1>6. Working' BY <1>1, <1>2, <1>4, <1>5 DEF Working, InUse
<1>7. /\ Positions' = Positions
      /\ \A j \in Positions : At(j)' = At(j) \/ (At(j) = Null /\ At(j)' = s)
  <2>1. CASE UNCHANGED states BY <2>1 DEF Positions, At
  <2>2. CASE NextStateIndex < Len(states) /\ states' = Set(NextStateIndex, s)
    <3>1. PICK i \in 0 .. Len(states) - 1 :
            At(i) = Null /\ states' = [states EXCEPT ![i + 1] = s]
      <4>1. NextStateIndex \in 0 .. Len(states) - 1 /\ At(NextStateIndex) = Null
        BY <2>2, NextStateIndexFound DEF TypeOK
      <4> QED BY <2>2, <4>1 DEF Set
    <3> QED BY <3>1 DEF Positions, At, TypeOK
  <2> QED BY <2>1, <2>2 DEF InsertLuaState
<1>8. ph = "open" => \E i \in Positions :
        stateId'[s] = i /\ At(i)' # Null /\ peer[At(i)'] = peer[s]
  <2>1. CASE \E i \in Positions : /\ GetCPtrPeer(At(i)) = peer[s]
                                  /\ stateId' = [stateId EXCEPT ![s] = i]
                                  /\ UNCHANGED states
    <3>1. PICK i \in Positions : /\ GetCPtrPeer(At(i)) = peer[s]
                                 /\ stateId' = [stateId EXCEPT ![s] = i]
                                 /\ UNCHANGED states
      BY <2>1
    <3>2. At(i)' = At(i) BY <3>1 DEF At
    <3>3. At(i) # Null /\ peer[At(i)] = peer[s] BY <1>2, <3>1 DEF GetCPtrPeer
    <3>4. stateId'[s] = i BY <3>1 DEF TypeOK
    <3> QED BY <3>2, <3>3, <3>4
  <2>2. CASE /\ NextStateIndex < Len(states)
             /\ states' = Set(NextStateIndex, s)
             /\ stateId' = [stateId EXCEPT ![s] = NextStateIndex]
    <3>1. PICK i \in 0 .. Len(states) - 1 :
            /\ states' = [states EXCEPT ![i + 1] = s]
            /\ stateId' = [stateId EXCEPT ![s] = i]
      <4>1. NextStateIndex \in 0 .. Len(states) - 1 BY <2>2, NextStateIndexFound DEF TypeOK
      <4> QED BY <2>2, <4>1 DEF Set
    <3>2. At(i)' = s /\ stateId'[s] = i /\ i \in Positions BY <3>1 DEF At, TypeOK, Positions
    <3> QED BY <3>2
  <2>3. CASE phase' = [phase EXCEPT ![s] = "failed"]
    BY <1>3, <1>4, <2>3 DEF TypeOK
  <2> QED BY <2>1, <2>2, <2>3 DEF InsertLuaState
<1>9. \A o \in LuaState \ {s} : stateId'[o] = stateId[o]
  BY DEF InsertLuaState, TypeOK
<1>10. Listing'
  <2>1. ASSUME NEW j \in Positions', At(j)' # Null PROVE (phase[At(j)])' # "none"
    <3>1. CASE At(j)' = s BY <1>4, <3>1
    <3>2. CASE At(j)' = At(j) /\ At(j) # s
      <4>1. At(j) \in LuaState /\ phase[At(j)] # "none"
        BY <1>7, <2>1, <3>2 DEF Listing, TypeOK, Positions, At
      <4> QED BY <1>4, <3>2, <4>1
    <3> QED BY <1>1, <1>7, <2>1, <3>1, <3>2
  <2>2. ASSUME NEW o \in LuaState, phase'[o] = "open"
        PROVE  (At(stateId[o]) # Null /\ peer[At(stateId[o])] = peer[o])'
    <3>1. CASE o = s BY <1>1, <1>4, <1>8, <2>2, <3>1 DEF At
    <3>2. CASE o # s
      <4>1. PICK i \in Positions : stateId[o] = i /\ At(i) # Null /\ peer[At(i)] = peer[o]
        BY <1>4, <2>2, <3>2 DEF Listing, Indexed
      <4>2. At(i)' = At(i) BY <1>7, <4>1
      <4> QED BY <1>1, <1>9, <3>2, <4>1, <4>2 DEF At
    <3> QED BY <3>1, <3>2
  <2> QED BY <2>1, <2>2 DEF Listing
<1>11. FindsItsState'
  <2> SUFFICES ASSUME NEW v \in VM, InUse(v)'
               PROVE  (/\ index[v] \in Positions /\ At(index[v]) # Null
                       /\ peer[At(index[v])] # Null /\ Home(peer[At(index[v])]) = v)'
    BY DEF FindsItsState
  <2>1. PICK i \in Positions : /\ index[v] = i /\ At(i) # Null
                               /\ peer[At(i)] # Null /\ Home(peer[At(i)]) = v
    BY <1>5 DEF FindsItsState
  <2>2. At(i)' = At(i) BY <1>7, <2>1
  <2> QED BY <1>1, <1>7, <2>1, <2>2 DEF At
<1>12. NeverForgotten'
  <2> SUFFICES ASSUME NEW o \in LuaState, phase'[o] = "ready", InUse(Home(peer[o]))'
               PROVE  \E i \in Positions' : GetCPtrPeer(At(i))' = peer'[o]
    BY DEF NeverForgotten
  <2>1. o # s /\ phase[o] = "ready" BY <1>3, <1>4
  <2>2. InUse(Home(peer[o])) BY <1>1, <1>4 DEF InUse
  <2>3. PICK i \in Positions : GetCPtrPeer(At(i)) = peer[o] BY <2>1, <2>2 DEF NeverForgotten
  <2>4. At(i) # Null BY <2>1, <2>3 DEF Working, Address, GetCPtrPeer
  <2>5. At(i)' = At(i) BY <1>7, <2>4
  <2> QED BY <1>1, <1>7, <2>3, <2>5 DEF GetCPtrPeer
<1> QED BY <1>6, <1>10, <1>11, <1>12

\* luajava_open keeps it: the index it writes leads to a LuaState that works on
\* the same lua_State.
LEMMA LuajavaOpenInv ==
  ASSUME IInv, NEW s \in LuaState, LuajavaOpen(s), Typed'
  PROVE  IInv'
<1> USE DEF IInv, Typed
<1>1. /\ phase[s] = "open" /\ UNCHANGED <<states, alive, peer, stateId>>
      /\ phase'[s] = "ready" /\ \A o \in LuaState \ {s} : phase'[o] = phase[o]
      /\ index' = [index EXCEPT ![Home(peer[s])] = stateId[s]]
  BY DEF LuajavaOpen, TypeOK
<1>2. PICK i \in Positions : stateId[s] = i /\ At(i) # Null /\ peer[At(i)] = peer[s]
  BY <1>1 DEF Listing, Indexed
<1>3. PICK p \in Address : p = peer[s] /\ Home(p) \in alive /\ InUse(Home(p))
  BY <1>1 DEF Working
<1>4. \A v : InUse(v)' <=> InUse(v) BY <1>1 DEF InUse
<1>5. Positions' = Positions /\ \A j : At(j)' = At(j) BY <1>1 DEF Positions, At
<1>6. Working' BY <1>1, <1>4 DEF Working, InUse
<1>7. Listing'
  <2>1. \A j \in Positions : At(j) # Null => At(j) \in LuaState
    BY DEF TypeOK, Positions, At
  <2> QED BY <1>1, <1>5, <2>1 DEF Listing, At
<1>8. FindsItsState'
  <2> SUFFICES ASSUME NEW v \in VM, InUse(v)'
               PROVE  (/\ index[v] \in Positions /\ At(index[v]) # Null
                       /\ peer[At(index[v])] # Null /\ Home(peer[At(index[v])]) = v)'
    BY DEF FindsItsState
  <2>1. CASE v = Home(p)
    <3>1. index'[v] = i BY <1>1, <1>2, <1>3, <2>1 DEF TypeOK
    <3>2. peer[At(i)] = p /\ p # Null BY <1>2, <1>3 DEF Address
    <3> QED BY <1>1, <1>2, <1>5, <2>1, <3>1, <3>2 DEF At
  <2>2. CASE v # Home(p)
    <3>1. index'[v] = index[v] BY <1>1, <1>3, <2>2 DEF TypeOK
    <3> QED BY <1>1, <1>4, <1>5, <3>1 DEF FindsItsState, At
  <2> QED BY <2>1, <2>2
<1>9. NeverForgotten'
  <2> SUFFICES ASSUME NEW o \in LuaState, phase'[o] = "ready", InUse(Home(peer[o]))'
               PROVE  \E j \in Positions' : GetCPtrPeer(At(j))' = peer'[o]
    BY DEF NeverForgotten
  <2>1. CASE o = s BY <1>1, <1>2, <1>5, <2>1 DEF GetCPtrPeer
  <2>2. CASE o # s
    <3>1. phase[o] = "ready" /\ InUse(Home(peer[o])) BY <1>1, <2>2 DEF InUse
    <3> QED BY <1>1, <1>5, <3>1 DEF NeverForgotten, GetCPtrPeer
  <2> QED BY <2>1, <2>2
<1> QED BY <1>6, <1>7, <1>8, <1>9

\* removeLuaState keeps it, though it moves what the index leads to: from then
\* on nobody works on the VM, and no constructor is under way.
LEMMA RemoveLuaStateInv ==
  ASSUME IInv, NEW s \in LuaState, RemoveLuaState(s), Typed'
  PROVE  IInv'
<1> USE DEF IInv, Typed
<1>1. /\ phase[s] = "ready" /\ UNCHANGED <<alive, index, peer, stateId>>
      /\ phase'[s] = "closing" /\ \A o \in LuaState \ {s} : phase'[o] = phase[o]
      /\ states' = Add(stateId[s], Null)
  BY DEF RemoveLuaState, Usable, TypeOK
<1>2. PICK p \in Address : p = peer[s] /\ alive = {Home(p)}
  BY <1>1 DEF Working
<1>3. \A v \in VM : ~InUse(v)'
  BY <1>1, <1>2 DEF InUse
<1>4. \A o \in LuaState : phase[o] \notin {"insert", "open"}
  <2> SUFFICES ASSUME NEW o \in LuaState, phase[o] \in {"insert", "open"} PROVE FALSE OBVIOUS
  <2>1. peer[o] \in Address /\ Home(peer[o]) = Home(p) BY <1>2 DEF Working
  <2>2. SameVM(o, s) BY <1>2, <2>1 DEF SameVM, Address
  <2> QED BY <2>2 DEF RemoveLuaState
<1>5. Working'
  <2>1. \A o \in LuaState : phase'[o] \notin {"insert", "open"} BY <1>1, <1>4
  <2>2. ASSUME NEW o \in LuaState, phase[o] = "closing" PROVE FALSE
    <3>1. Home(peer[o]) = Home(p) BY <1>2, <2>2 DEF Working
    <3> QED BY <1>2, <2>2, <3>1 DEF RemoveLuaState, Usable, InUse
  <2> QED BY <1>1, <1>2, <2>1, <2>2 DEF Working
<1>6. Listing'
  <2>1. PICK i \in Positions : i = stateId[s] BY <1>1 DEF Indexed
  <2>2. i \in 0 .. Len(states) /\ Len(states) \in Nat /\ Null \in LuaState \cup {Null}
    BY <2>1 DEF Positions, TypeOK
  <2>3. /\ Len(states') = Len(states) + 1
        /\ \A j \in 0 .. Len(states) :
             states'[j + 1] = IF j < i THEN At(j) ELSE IF j = i THEN Null ELSE At(j - 1)
    BY <1>1, <2>1, <2>2, AddShifts
  <2>4. ASSUME NEW j \in Positions', At(j)' # Null PROVE (phase[At(j)])' # "none"
    <3>1. j \in 0 .. Len(states) /\ j # i BY <2>2, <2>3, <2>4 DEF Positions, At
    <3>2. PICK k \in Positions : At(j)' = At(k)
      <4>1. CASE j < i
        <5>1. j \in Positions BY <2>2, <3>1, <4>1 DEF Positions
        <5> QED BY <2>3, <3>1, <4>1, <5>1 DEF At
      <4>2. CASE j > i
        <5>1. j - 1 \in Positions BY <2>2, <3>1, <4>2 DEF Positions
        <5>2. At(j)' = At(j - 1) BY <2>2, <2>3, <3>1, <4>2 DEF At
        <5> QED BY <5>1, <5>2 DEF At
      <4> QED BY <2>2, <3>1, <4>1, <4>2
    <3>3. At(k) \in LuaState /\ phase[At(k)] # "none"
      BY <2>4, <3>2 DEF Listing, TypeOK, Positions, At
    <3> QED BY <1>1, <3>2, <3>3
  <2>5. \A o \in LuaState : phase'[o] # "open" BY <1>1, <1>4
  <2> QED BY <2>4, <2>5 DEF Listing
<1>7. FindsItsState' BY <1>3 DEF FindsItsState
<1>8. NeverForgotten'
  <2> SUFFICES ASSUME NEW o \in LuaState, phase'[o] = "ready", InUse(Home(peer[o]))'
               PROVE  FALSE
    BY DEF NeverForgotten
  <2>1. phase[o] = "ready" BY <1>1
  <2>2. Home(peer[o]) \in VM BY <2>1, HomeType DEF Working
  <2> QED BY <1>1, <1>3, <2>2
<1> QED BY <1>5, <1>6, <1>7, <1>8

\* lua_close keeps it: no VM is left.
LEMMA CloseVMInv ==
  ASSUME IInv, NEW s \in LuaState, CloseVM(s), Typed'
  PROVE  IInv'
<1> USE DEF IInv, Typed
<1>1. /\ phase[s] = "closing" /\ UNCHANGED <<states, stateId>>
      /\ alive' = alive \ {Home(peer[s])}
      /\ phase' = [o \in LuaState |->
                     IF o = s THEN "closed"
                     ELSE IF phase[o] = "ready" /\ SameVM(o, s) THEN "stale" ELSE phase[o]]
  BY DEF CloseVM
<1>2. PICK p \in Address : p = peer[s] /\ alive = {Home(p)}
  BY <1>1 DEF Working
<1>3. alive' = {} BY <1>1, <1>2
<1>4. \A o \in LuaState : phase[o] \in {"insert", "open", "ready", "closing"} =>
        peer[o] \in Address /\ Home(peer[o]) = Home(p)
  BY <1>2 DEF Working
<1>5. ASSUME NEW o \in LuaState
      PROVE  phase'[o] \notin {"insert", "open", "ready", "closing"}
  <2>1. phase[o] \notin {"insert", "open"}
    BY <1>1, <1>2, <1>4 DEF Working, InUse
  <2>2. phase[o] = "ready" => SameVM(o, s) BY <1>2, <1>4 DEF SameVM, Address
  <2>3. phase[o] = "closing" => o = s BY <1>1 DEF Working
  <2> QED BY <1>1, <2>1, <2>2, <2>3
<1>6. \A v \in VM : ~InUse(v)' BY <1>3 DEF InUse
<1>7. Working' BY <1>3, <1>5 DEF Working
<1>8. Listing'
  <2>1. ASSUME NEW j \in Positions', At(j)' # Null PROVE (phase[At(j)])' # "none"
    <3>1. j \in Positions /\ At(j)' = At(j) BY <1>1 DEF Positions, At
    <3>2. At(j) \in LuaState /\ phase[At(j)] # "none"
      BY <2>1, <3>1 DEF Listing, TypeOK, Positions, At
    <3> QED BY <1>1, <3>1, <3>2
  <2> QED BY <1>5, <2>1 DEF Listing
<1>9. FindsItsState' BY <1>6 DEF FindsItsState
<1>10. NeverForgotten' BY <1>5 DEF NeverForgotten
<1> QED BY <1>7, <1>8, <1>9, <1>10

\* The invariant holds before the first LuaState.
LEMMA InitInv == Init => IInv
BY InitTyped DEF Init, IInv, Working, Listing, FindsItsState, NeverForgotten, InUse, Positions

\* Every step keeps the invariant.
LEMMA NextInv == OneVM /\ IInv /\ [Next]_vars => IInv'
<1> SUFFICES ASSUME OneVM, IInv, [Next]_vars PROVE IInv' OBVIOUS
<1>1. Typed' BY NextTyped DEF IInv
<1>2. ASSUME NEW s \in LuaState, NEW v \in VM, NewLuaState(s, v) PROVE IInv'
  BY <1>1, <1>2, NewLuaStateInv
<1>3. ASSUME NEW s \in LuaState, NEW parent \in LuaState,
             NewThread(s, parent) \/ ToThread(s, parent)
      PROVE  IInv'
  BY <1>1, <1>3, ThreadInv
<1>4. ASSUME NEW s \in LuaState,
             InsertLuaState(s) \/ LuajavaOpen(s) \/ RemoveLuaState(s) \/ CloseVM(s)
      PROVE  IInv'
  BY <1>1, <1>4, InsertLuaStateInv, LuajavaOpenInv, RemoveLuaStateInv, CloseVMInv
<1>5. CASE UNCHANGED vars
  <2>1. Working' BY <1>5 DEF vars, IInv, Working, InUse
  <2>2. Listing' /\ FindsItsState' /\ NeverForgotten'
    BY <1>5 DEF vars, IInv, Listing, FindsItsState, NeverForgotten, InUse, Positions, At, GetCPtrPeer
  <2> QED BY <1>1, <2>1, <2>2 DEF IInv
<1> QED BY <1>2, <1>3, <1>4, <1>5 DEF Next

\* With one VM at a time the invariant always holds.
THEOREM Invariance == OneVM => (Spec => []IInv)
<1> SUFFICES ASSUME OneVM PROVE Spec => []IInv OBVIOUS
<1>1. IInv /\ [Next]_vars => IInv' BY NextInv
<1> QED BY <1>1, InitInv, PTL DEF Spec

\* A call from Lua into Java finds, by the index in the registry of the VM
\* that calls, a LuaState of this VM (getExistingState), whatever holes and
\* closed LuaStates the list has and however addresses are used again.
THEOREM FindsItsStateCorrect == OneVM => (Spec => []FindsItsState)
<1> SUFFICES ASSUME OneVM PROVE Spec => []FindsItsState OBVIOUS
<1>1. IInv => FindsItsState BY DEF IInv
<1> QED BY <1>1, Invariance, PTL

\* A LuaState that the application can use is in the list, or one with its
\* address is (insertLuaState, removeLuaState).
THEOREM NeverForgottenCorrect == OneVM => (Spec => []NeverForgotten)
<1> SUFFICES ASSUME OneVM PROVE Spec => []NeverForgotten OBVIOUS
<1>1. IInv => NeverForgotten BY DEF IInv
<1> QED BY <1>1, Invariance, PTL
=============================================================================
