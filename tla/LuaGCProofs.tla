---------------------------- MODULE LuaGCProofs ----------------------------
(***************************************************************************)
(* Proofs about the collector of LuaGC, for every heap.                    *)
(***************************************************************************)
EXTENDS LuaGC, TLAPS

\* The objects that are neither freed nor condemned by the last mark phase.
ND == {o \in Obj : marked[o] \notin {"free", "dead"}}

\* What the fields of each kind of object hold.
Shape ==
  /\ \A o \in Obj, i \in Slots :
       /\ (marked[o] = "free" \/ o \in Strings) => slot[o][i] = Nil
       /\ o \in Udata => slot[o][i] \in Tables \cup {Nil}
       /\ o \notin Closures => slot[o][i] \notin Upvals
  /\ \A u \in Upvals : openat[u] # Nil =>
       /\ marked[u] \notin {"free", "black"} /\ marked[openat[u][1]] # "free"
       /\ \A i \in Slots : slot[u][i] = Nil

\* No reference leads out of ND, and the roots are in it.
Closed ==
  /\ gcstate # "closed" => {Main, Registry, L} \subseteq ND
  /\ tmudata \cup finalizing \subseteq ND
  /\ \A o \in ND, i \in Slots : slot[o][i] \in ND \cup {Nil}
  /\ \A u \in Upvals : u \in ND /\ openat[u] # Nil =>
       slot[openat[u][1]][openat[u][2]] \in ND \cup {Nil}

\* What the phase says of the colours.
Phase ==
  /\ gcstate \in {"pause", "propagate", "finalize"} => \A o \in Obj : marked[o] # "dead"
  /\ gcstate \in {"pause", "propagate"} => tmudata = {}
  /\ gcstate \in {"pause", "finalize"} =>
       \A o \in Obj : marked[o] \in {"free", "white"} \/ o \in tmudata
  /\ \A u \in Udata : marked[u] = "dead" => u \in finalized

\* The mark phase.
Marking ==
  gcstate = "propagate" =>
    /\ marked[Main] = "gray" /\ marked[Registry] \in {"gray", "black"}
    /\ \A o \in Obj : marked[o] = "black" =>
         /\ o \notin Threads \cup Weak
         /\ \A i \in Slots : slot[o][i] \notin White
    /\ \A o \in Obj : marked[o] = "gray" =>
         \/ o \in gray \cup grayagain \cup weak
         \/ o \in Strings
         \/ o \in Upvals /\ openat[o] # Nil
    /\ \A o \in gray \cup grayagain \cup weak : marked[o] = "gray"
    /\ gray \cap grayagain = {} /\ gray \cap weak = {} /\ grayagain \cap weak = {}

\* The sweep has still to visit whatever is not of the current white.
SweepLeft ==
  gcstate \in {"sweepstring", "sweep"} =>
    /\ unswept \subseteq Alloc
    /\ \A u \in Upvals : openat[u] # Nil => u \notin unswept
    /\ \A o \in Obj : \/ marked[o] \in {"free", "white"}
                      \/ o \in unswept \cup tmudata
                      \/ o \in Upvals /\ openat[o] # Nil /\ openat[o][1] \in unswept

IInv == TypeOK /\ Shape /\ Closed /\ Phase /\ Marking /\ SweepLeft
-----------------------------------------------------------------------------
\* Reach is closed, and is the least such set.
LEMMA ReachClosed ==
  ASSUME NEW R \in SUBSET Obj, NEW E \in SUBSET (Obj \X Obj)
  PROVE  /\ R \subseteq Reach(R, E) /\ Reach(R, E) \subseteq Obj
         /\ \A p, q \in Obj : p \in Reach(R, E) /\ <<p, q>> \in E => q \in Reach(R, E)
<1> DEFINE Extends(X) == \A e \in E : e[1] \in R \cup X => e[2] \in R \cup X
           Cl == {R \cup X : X \in {Y \in SUBSET (Obj \ R) : Extends(Y)}}
<1>1. Reach(R, E) = {o \in Obj : \A C \in Cl : o \in C} BY DEF Reach
<1>2. R \subseteq Reach(R, E) /\ Reach(R, E) \subseteq Obj BY <1>1
<1>3. ASSUME NEW p \in Obj, NEW q \in Obj, p \in Reach(R, E), <<p, q>> \in E
      PROVE  q \in Reach(R, E)
  <2>1. SUFFICES ASSUME NEW C \in Cl PROVE q \in C BY <1>1
  <2>2. p \in C BY <1>1, <1>3
  <2>3. PICK X \in SUBSET (Obj \ R) : Extends(X) /\ C = R \cup X OBVIOUS
  <2> QED BY <1>3, <2>2, <2>3
<1> QED BY <1>2, <1>3

\* Reach lies in every set that includes R and is closed under the edges.
LEMMA ReachLeast ==
  ASSUME NEW R \in SUBSET Obj, NEW E \in SUBSET (Obj \X Obj),
         NEW X \in SUBSET Obj, R \subseteq X,
         \A p, q \in Obj : p \in X /\ <<p, q>> \in E => q \in X
  PROVE  Reach(R, E) \subseteq X
<1> DEFINE Extends(Y) == \A e \in E : e[1] \in R \cup Y => e[2] \in R \cup Y
           Cl == {R \cup Z : Z \in {Y \in SUBSET (Obj \ R) : Extends(Y)}}
           Y0 == X \ R
<1>1. Reach(R, E) = {o \in Obj : \A C \in Cl : o \in C} BY DEF Reach
<1>2. Y0 \in SUBSET (Obj \ R) /\ R \cup Y0 = X OBVIOUS
<1>3. Extends(Y0)
  <2>1. TAKE e \in E
  <2>2. e[1] \in Obj /\ e[2] \in Obj /\ e = <<e[1], e[2]>> OBVIOUS
  <2> QED BY <1>2, <2>2
<1>4. R \cup Y0 \in Cl BY <1>2, <1>3
<1> QED BY <1>1, <1>2, <1>4
-----------------------------------------------------------------------------
(* Everything the program can reach is in ND.                              *)

USE DEF lists, fin, heap

\* What a live object refers to is live, too, when the invariant holds.
LEMMA ValuesInND ==
  ASSUME TypeOK, Shape, Closed, NEW o \in ND
  PROVE  Values(o) \subseteq ND
<1>1. CASE IsOpen(o)
  BY <1>1, NilAssumption DEF Values, IsOpen, Closed, TypeOK
<1>2. CASE ~IsOpen(o)
  BY <1>2 DEF Values, Held, Closed, TypeOK
<1> QED BY <1>1, <1>2

\* What any object refers to is an object.
LEMMA ValuesInObj ==
  ASSUME TypeOK
  PROVE  \A o \in Obj : Values(o) \subseteq Obj
<1> SUFFICES ASSUME NEW o \in Obj PROVE Values(o) \subseteq Obj OBVIOUS
<1>1. CASE IsOpen(o)
  BY <1>1, NilAssumption DEF Values, IsOpen, TypeOK, Threads
<1>2. CASE ~IsOpen(o)
  BY <1>2 DEF Values, Held, TypeOK, HasGC
<1> QED BY <1>1, <1>2

\* The program reaches live objects only: the heart of LiveKept.
LEMMA AccessibleInND ==
  ASSUME TypeOK, Shape, Closed
  PROVE  Accessible \subseteq ND
<1> DEFINE E == UNION {{o} \X Values(o) : o \in Obj}
<1>1. ND \in SUBSET Obj BY DEF ND
<1>2. Roots \in SUBSET Obj /\ Roots \subseteq ND
  BY <1>1 DEF Roots, Closed, ND
<1>3. \A o \in Obj : Values(o) \subseteq Obj BY ValuesInObj
<1>4. E \in SUBSET (Obj \X Obj) BY <1>3
<1>5. \A p, q \in Obj : p \in ND /\ <<p, q>> \in E => q \in ND
  <2> SUFFICES ASSUME NEW p \in ND, NEW q \in Obj, <<p, q>> \in E PROVE q \in ND
    OBVIOUS
  <2>1. q \in Values(p) OBVIOUS
  <2> QED BY <2>1, ValuesInND
<1>6. Reach(Roots, E) \subseteq ND BY <1>1, <1>2, <1>4, <1>5, ReachLeast
<1> QED BY <1>6 DEF Accessible

\* The inductive invariant implies LiveKept: lgc.c frees nothing in use.
THEOREM InvLiveKept == IInv => LiveKept
BY AccessibleInND DEF IInv, LiveKept, ND, IsDead

\* lua_newstate establishes the invariant.
LEMMA InitInv == Init => IInv
<1> SUFFICES ASSUME Init PROVE IInv OBVIOUS
<1> USE RootAssumption DEF Init
<1>1. TypeOK BY DEF TypeOK, Empty, Threads
<1>2. Shape BY NilAssumption DEF Shape, Empty, Upvals
<1>3. Closed BY DEF Closed, ND, Empty
<1>4. Phase BY DEF Phase, Udata
<1>5. Marking BY DEF Marking
<1>6. SweepLeft BY DEF SweepLeft
<1> QED BY <1>1, <1>2, <1>3, <1>4, <1>5, <1>6 DEF IInv
-----------------------------------------------------------------------------
(* The program's steps.                                                    *)

\* luaC_link and the other allocators keep the invariant.
LEMMA NewInv ==
  ASSUME IInv, gcstate # "closed", NEW o \in Obj, NEW i \in Slots, New(o, i)
  PROVE  IInv'
<1> USE RootAssumption, NilAssumption DEF IInv, New
<1>0. L \in Obj /\ L \notin Upvals \cup Strings \cup Udata
  BY DEF TypeOK, Threads, Upvals, Strings, Udata
<1>1. TypeOK' BY DEF TypeOK
<1>2. Shape' BY <1>0, <1>1 DEF Shape, TypeOK, Closed, ND
<1>3. Closed' BY <1>0, <1>1 DEF Shape, Closed, TypeOK, ND
<1>4. Phase' BY DEF Phase, TypeOK
<1>5. Marking' BY <1>0 DEF Marking, TypeOK, Shape, White, Closed, ND
<1>6. SweepLeft' BY DEF SweepLeft, TypeOK, Alloc
<1> QED BY <1>1, <1>2, <1>3, <1>4, <1>5, <1>6

\* luaS_newlstr, bringing a dead string back, keeps the invariant.
LEMMA InternInv ==
  ASSUME IInv, gcstate # "closed", NEW o \in Obj, NEW i \in Slots, Intern(o, i)
  PROVE  IInv'
<1> USE RootAssumption, NilAssumption DEF IInv, Intern
<1>0. L \in Obj /\ L \notin Upvals \cup Strings \cup Udata /\ o \notin Upvals \cup Udata
  BY DEF TypeOK, Threads, Upvals, Strings, Udata
<1>1. TypeOK' BY DEF TypeOK
<1>2. Shape' BY <1>0, <1>1 DEF Shape, TypeOK, Closed, ND
<1>3. Closed' BY <1>0, <1>1 DEF Shape, Closed, TypeOK, ND, IsDead
<1>4. Phase' BY <1>0 DEF Phase, TypeOK, IsDead
<1>5. Marking' BY <1>0 DEF Marking, TypeOK, Shape, White, IsDead
<1>6. SweepLeft' BY DEF SweepLeft, TypeOK, Alloc, IsDead
<1> QED BY <1>1, <1>2, <1>3, <1>4, <1>5, <1>6

\* Changing the running thread keeps the invariant.
LEMMA SwitchInv ==
  ASSUME IInv, NEW th \in Accessible \cap Threads, Switch(th)
  PROVE  IInv'
<1> USE DEF IInv, Switch
<1>0. th \in ND BY AccessibleInND
<1>1. TypeOK' BY DEF TypeOK
<1>2. Shape' BY DEF Shape
<1>3. Closed' BY <1>0 DEF Closed, ND
<1>4. Phase' BY DEF Phase
<1>5. Marking' BY DEF Marking, White
<1>6. SweepLeft' BY DEF SweepLeft, Alloc
<1> QED BY <1>1, <1>2, <1>3, <1>4, <1>5, <1>6

\* The return of a __gc metamethod keeps the invariant.
LEMMA FinalizerReturnsInv ==
  ASSUME IInv, NEW u \in Udata, FinalizerReturns(u)
  PROVE  IInv'
<1> USE DEF IInv, FinalizerReturns
<1>1. TypeOK' BY DEF TypeOK
<1>2. Shape' BY DEF Shape
<1>3. Closed' BY DEF Closed, ND
<1>4. Phase' BY DEF Phase
<1>5. Marking' BY DEF Marking, White
<1>6. SweepLeft' BY DEF SweepLeft, Alloc
<1> QED BY <1>1, <1>2, <1>3, <1>4, <1>5, <1>6
-----------------------------------------------------------------------------
(* What marking leaves behind.                                             *)

\* The kinds are disjoint.
LEMMA KindsDisjoint ==
  \A o \in Obj :
    /\ o \in Udata => o \notin Upvals \cup Weak \cup Threads \cup Strings \cup Tables \cup Closures
    /\ o \in Upvals => o \notin Weak \cup Threads \cup Strings \cup Tables \cup Closures
    /\ o \in Threads => o \notin Weak \cup Strings \cup Tables \cup Closures
    /\ o \in Strings => o \notin Weak \cup Tables \cup Closures
    /\ o \in Closures => o \notin Weak \cup Tables
    /\ o \in Weak => o \in Tables
    /\ o \in Tables \cup Udata \cup Upvals \cup Threads \cup Strings \cup Closures
BY KindAssumption DEF Udata, Upvals, Weak, Threads, Strings, Tables, Closures, Kinds

\* What Newly contains: white objects only, every white member of S, and
\* with a closed upvalue or a userdata what that leads to.
LEMMA NewlyFacts ==
  ASSUME TypeOK, Shape, NEW S
  PROVE  /\ Newly(S) \subseteq White /\ S \cap White \subseteq Newly(S)
         /\ \A u \in Newly(S), i \in Slots :
              u \in Udata \/ (u \in Upvals /\ openat[u] = Nil) =>
                slot[u][i] \notin White \/ slot[u][i] \in Newly(S)
<1> DEFINE direct == S \cap White
           values == direct \cup (White \cap UNION {Children(u) : u \in direct \cap Upvals})
           third  == White \cap UNION {Children(u) : u \in values \cap Udata}
<1>1. Newly(S) = values \cup third BY DEF Newly
<1>2. \A u \in Udata : Children(u) \subseteq Tables
  <2> SUFFICES ASSUME NEW u \in Udata PROVE Children(u) \subseteq Tables OBVIOUS
  <2>1. u \in Obj /\ u # Main /\ u \notin Weak /\ ~IsOpen(u)
    BY KindsDisjoint, RootAssumption DEF Udata, IsOpen, Threads
  <2> QED BY <2>1 DEF Children, Values, Held, Shape
<1>3. \A u \in Upvals : Children(u) \cap Upvals = {}
  <2> SUFFICES ASSUME NEW u \in Upvals PROVE Children(u) \cap Upvals = {} OBVIOUS
  <2>1. u \in Obj /\ u # Main /\ u \notin Weak /\ u \notin Closures
    BY KindsDisjoint, RootAssumption DEF Upvals, Threads
  <2>2. CASE ~IsOpen(u)
    BY <2>1, <2>2 DEF Children, Values, Held, Shape
  <2>3. CASE IsOpen(u)
    <3>1. openat[u][1] \in Threads /\ openat[u][2] \in Slots
      BY <2>3, NilAssumption DEF IsOpen, TypeOK
    <3>2. openat[u][1] \in Obj \ Closures BY <3>1, KindsDisjoint DEF Threads
    <3> QED BY <2>1, <2>3, <3>1, <3>2 DEF Children, Values, Shape
  <2> QED BY <2>2, <2>3
<1>4. ASSUME NEW u \in Newly(S), NEW i \in Slots, u \in Udata, slot[u][i] \in White
      PROVE  slot[u][i] \in Newly(S)
  <2>1. u \in values BY <1>1, <1>2, <1>4, KindsDisjoint DEF Tables
  <2>2. u # Main /\ u \notin Weak /\ ~IsOpen(u)
    BY <1>4, KindsDisjoint, RootAssumption DEF Udata, IsOpen, Threads
  <2>3. slot[u][i] \in Children(u)
    BY <1>4, <2>2, NilAssumption DEF Children, Values, Held, White
  <2> QED BY <1>1, <1>4, <2>1, <2>3
<1>5. ASSUME NEW u \in Newly(S), NEW i \in Slots, u \in Upvals, openat[u] = Nil,
             slot[u][i] \in White
      PROVE  slot[u][i] \in Newly(S)
  <2>1. u \in direct
    BY <1>1, <1>2, <1>3, <1>5, KindsDisjoint DEF Tables
  <2>2. u # Main /\ u \notin Weak /\ ~IsOpen(u)
    BY <1>5, KindsDisjoint, RootAssumption DEF Upvals, IsOpen, Threads
  <2>3. slot[u][i] \in Children(u)
    BY <1>5, <2>2, NilAssumption DEF Children, Values, Held, White
  <2> QED BY <1>1, <1>5, <2>1, <2>3
<1>6. Newly(S) \subseteq White /\ S \cap White \subseteq Newly(S) BY <1>1
<1> QED BY <1>4, <1>5, <1>6

\* Marking in the mark phase: what turns black refers to nothing white, what
\* turns gray is queued.
LEMMA MarkKeepsMarking ==
  ASSUME TypeOK, Shape, Marking, gcstate = "propagate", NEW S
  PROVE  LET m == Newly(S) IN
         /\ \A o \in Obj : o \in m => o \notin gray \cup grayagain \cup weak
         /\ \A o \in Obj : Paint(marked, m)[o] = "black" =>
              /\ o \notin Threads \cup Weak
              /\ \A i \in Slots : slot[o][i] \in White => slot[o][i] \in m
         /\ \A o \in Obj : Paint(marked, m)[o] = "gray" =>
              \/ o \in gray \cup (m \cap Queued) \cup grayagain \cup weak
              \/ o \in Strings
              \/ o \in Upvals /\ openat[o] # Nil
<1> DEFINE m == Newly(S)
<1>1. /\ m \subseteq White
      /\ \A u \in m, i \in Slots : u \in Udata \/ (u \in Upvals /\ openat[u] = Nil) =>
                slot[u][i] \notin White \/ slot[u][i] \in m
  BY NewlyFacts
<1>2. \A o \in Obj : o \in m => o \notin gray \cup grayagain \cup weak
  BY <1>1 DEF Marking, White
<1>3. ASSUME NEW o \in Obj, Paint(marked, m)[o] = "black"
      PROVE  /\ o \notin Threads \cup Weak
             /\ \A i \in Slots : slot[o][i] \in White => slot[o][i] \in m
  <2>1. CASE o \in m
    <3>1. o \in Udata \/ (o \in Upvals /\ openat[o] = Nil)
      BY <1>3, <2>1 DEF Paint, IsOpen
    <3> QED BY <1>1, <2>1, <3>1, KindsDisjoint
  <2>2. CASE o \notin m
    BY <1>3, <2>2 DEF Paint, Marking
  <2> QED BY <2>1, <2>2
<1>4. ASSUME NEW o \in Obj, Paint(marked, m)[o] = "gray"
      PROVE  \/ o \in gray \cup (m \cap Queued) \cup grayagain \cup weak
             \/ o \in Strings
             \/ o \in Upvals /\ openat[o] # Nil
  <2>1. CASE o \in m
    <3>1. o \notin Udata /\ (o \in Upvals => openat[o] # Nil)
      BY <1>4, <2>1 DEF Paint, IsOpen
    <3> QED BY <2>1, <3>1, KindsDisjoint DEF Queued
  <2>2. CASE o \notin m
    BY <1>4, <2>2 DEF Paint, Marking
  <2> QED BY <2>1, <2>2
<1> QED BY <1>2, <1>3, <1>4

\* Marking only turns white to gray or black, and nothing is dead.
LEMMA MarkKeepsND ==
  ASSUME TypeOK, Phase, gcstate = "propagate", NEW S, NEW o \in Obj
  PROVE  /\ Paint(marked, Newly(S))[o] \in {"free", "white", "gray", "black"}
         /\ Paint(marked, Newly(S))[o] = "free" <=> marked[o] = "free"
         /\ Paint(marked, Newly(S))[o] = "white" <=> (marked[o] = "white" /\ o \notin Newly(S))
         /\ o \notin White => Paint(marked, Newly(S))[o] = marked[o]
         /\ o \in Newly(S) => o \in White
<1>1. Newly(S) \subseteq White BY DEF Newly
<1> QED BY <1>1 DEF Paint, TypeOK, Phase, White
-----------------------------------------------------------------------------
\* A store, with the write barrier it runs, keeps the invariant.
LEMMA StoreInv ==
  ASSUME IInv, gcstate # "closed", NEW o \in Accessible \ Strings, NEW i \in Slots,
         NEW v \in (Accessible \ Upvals) \cup {Nil}, Store(o, i, v)
  PROVE  IInv'
<1> DEFINE at == IF IsOpen(o) THEN openat[o] ELSE <<o, i>>
<1> USE RootAssumption, NilAssumption DEF IInv
<1>a. o \in ND /\ v \in ND \cup {Nil} BY AccessibleInND
<1>b. o \in Obj /\ v \in (Obj \ Upvals) \cup {Nil} BY <1>a DEF ND
<1>c. /\ at[1] \in Obj /\ at[2] \in Slots /\ marked[at[1]] # "free"
      /\ at[1] \notin Strings /\ (at[1] \in Udata => v \in Tables \cup {Nil})
      /\ \A u \in Upvals : openat[u] # Nil => at[1] # u
      /\ at[1] \in Threads \/ at[1] = o
  <2>1. CASE IsOpen(o)
    <3>1. openat[o] \in Threads \X Slots /\ o \in Upvals
      BY <2>1 DEF IsOpen, TypeOK
    <3>2. openat[o][1] \in Obj \ (Strings \cup Udata \cup Upvals)
      BY <3>1, KindsDisjoint DEF Threads
    <3> QED BY <2>1, <3>1, <3>2 DEF Shape, IsOpen, Upvals
  <2>2. CASE ~IsOpen(o)
    BY <1>a, <1>b, <2>2 DEF Store, IsOpen, ND, Upvals
  <2> QED BY <2>1, <2>2
<1>d. /\ slot' = [slot EXCEPT ![at[1]][at[2]] = v]
      /\ UNCHANGED <<gcstate, unswept, fin, openat, L>>
      /\ Barrier(o, v)
  BY DEF Store
<1>e. v \in White \/ NeedsBarrier(o, v) => v \in Obj BY DEF White, NeedsBarrier
<1> HIDE DEF at
<1>n. CASE ~NeedsBarrier(o, v)
  <2>0. marked' = marked /\ UNCHANGED lists BY <1>d, <1>n DEF Barrier
  <2>1. TypeOK' BY <1>b, <1>c, <1>d, <2>0 DEF TypeOK
  <2>2. Shape' BY <1>b, <1>c, <1>d, <2>0 DEF Shape, TypeOK, Upvals, Threads
  <2>3. Closed' BY <1>a, <1>b, <1>c, <1>d, <2>0 DEF Closed, TypeOK, ND
  <2>4. Phase' BY <1>d, <2>0 DEF Phase
  <2>5. Marking'
    BY <1>b, <1>c, <1>d, <1>n, <2>0 DEF Marking, TypeOK, White, NeedsBarrier
  <2>6. SweepLeft' BY <1>d, <2>0 DEF SweepLeft, Alloc
  <2> QED BY <2>1, <2>2, <2>3, <2>4, <2>5, <2>6
<1>y. CASE NeedsBarrier(o, v)
  <2>a. /\ marked[o] = "black" /\ o \notin Threads /\ v \in White /\ at[1] = o
        /\ ~IsOpen(o)
    BY <1>b, <1>c, <1>y DEF NeedsBarrier, IsOpen, Shape, at
  <2>1. CASE o \in Tables
    <3>0. marked' = [marked EXCEPT ![o] = "gray"] /\ UNCHANGED <<gray, weak>>
          /\ grayagain' = grayagain \cup (IF gcstate = "propagate" THEN {o} ELSE {})
      BY <1>d, <1>y, <2>1 DEF Barrier, BarrierBack
    <3>9. o \in Queued /\ o \notin Upvals /\ o # Main
      BY <2>1, <1>b, KindsDisjoint DEF Queued, Threads
    <3>1. TypeOK' BY <1>b, <1>c, <1>d, <3>0, <3>9 DEF TypeOK
    <3>2. Shape' BY <1>b, <1>c, <1>d, <2>a, <3>0, <3>9 DEF Shape, TypeOK, Upvals, Threads
    <3>3. Closed' BY <1>a, <1>b, <1>c, <1>d, <2>a, <3>0 DEF Closed, TypeOK, ND
    <3>4. Phase'
      <4>1. o \notin Udata BY <1>b, <2>1, KindsDisjoint
      <4> QED BY <1>b, <1>d, <2>a, <3>0, <4>1 DEF Phase, TypeOK, HasGC, Udata
    <3>5. Marking'
      BY <1>b, <1>c, <1>d, <2>a, <3>0, <3>9 DEF Marking, TypeOK, White
    <3>6. SweepLeft' BY <1>b, <1>d, <2>a, <3>0 DEF SweepLeft, Alloc, TypeOK
    <3> QED BY <3>1, <3>2, <3>3, <3>4, <3>5, <3>6
  <2>2. CASE o \notin Tables /\ gcstate # "propagate"
    <3>0. marked' = [marked EXCEPT ![o] = "white"] /\ UNCHANGED lists
      BY <1>d, <1>y, <2>2 DEF Barrier, BarrierForward
    <3>1. TypeOK' BY <1>b, <1>c, <1>d, <3>0 DEF TypeOK
    <3>2. Shape' BY <1>b, <1>c, <1>d, <2>a, <3>0 DEF Shape, TypeOK, Upvals, Threads
    <3>3. Closed' BY <1>a, <1>b, <1>c, <1>d, <2>a, <3>0 DEF Closed, TypeOK, ND
    <3>4. Phase' BY <1>b, <1>d, <2>a, <3>0 DEF Phase, TypeOK
    <3>5. Marking' BY <1>d, <2>2 DEF Marking
    <3>6. SweepLeft' BY <1>b, <1>d, <2>a, <3>0 DEF SweepLeft, Alloc, TypeOK
    <3> QED BY <3>1, <3>2, <3>3, <3>4, <3>5, <3>6
  <2>3. CASE o \notin Tables /\ gcstate = "propagate"
    <3> DEFINE m == Newly({v})
    <3>0. marked' = Paint(marked, m) /\ gray' = gray \cup (m \cap Queued)
          /\ UNCHANGED <<grayagain, weak>>
      BY <1>d, <1>y, <2>3 DEF Barrier, BarrierForward, Mark
    <3>7. {v} \in SUBSET Obj /\ o \notin White BY <2>a DEF White
    <3>8. m \subseteq Obj /\ v \in m /\ o \notin m
      BY <2>a, <3>7, NewlyFacts DEF White
    <3>9. \A p \in Obj :
            /\ marked'[p] \in {"free", "white", "gray", "black"}
            /\ marked'[p] = "free" <=> marked[p] = "free"
            /\ marked'[p] = "white" <=> (marked[p] = "white" /\ p \notin m)
            /\ p \notin White => marked'[p] = marked[p]
            /\ p \in m => p \in White
      BY <2>3, <3>0, <3>7, MarkKeepsND
    <3> HIDE DEF m
    <3>1. TypeOK' 
      <4>1. marked' \in [Obj -> {"free", "white", "dead", "gray", "black"}]
        BY <3>0, <3>9 DEF Paint
      <4> QED BY <1>b, <1>c, <1>d, <3>0, <4>1 DEF TypeOK
    <3>2. Shape'
      <4>1. \A u \in Upvals : openat[u] # Nil => marked'[u] # "black"
        BY <3>0 DEF Paint, Shape, IsOpen, Upvals, Udata
      <4>2. /\ \A p \in Obj, j \in Slots :
                 /\ (marked'[p] = "free" \/ p \in Strings) => slot'[p][j] = Nil
                 /\ p \in Udata => slot'[p][j] \in Tables \cup {Nil}
                 /\ p \notin Closures => slot'[p][j] \notin Upvals
        BY <1>b, <1>c, <1>d, <3>9 DEF Shape, TypeOK, Upvals
      <4>3. \A u \in Upvals : openat[u] # Nil =>
              /\ marked'[u] # "free" /\ marked'[openat[u][1]] # "free"
              /\ \A j \in Slots : slot'[u][j] = Nil
        BY <1>b, <1>c, <1>d, <3>9 DEF Shape, TypeOK, Upvals, Threads
      <4> QED BY <1>d, <4>1, <4>2, <4>3 DEF Shape
    <3>3. Closed'
      <4>1. ND' = ND BY <1>d, <3>9, <2>3 DEF ND, Phase
      <4> QED BY <1>a, <1>b, <1>c, <1>d, <4>1 DEF Closed, TypeOK, ND
    <3>4. Phase' BY <1>d, <2>3, <3>9 DEF Phase, Udata
    <3>5. Marking'
      <4>1. /\ \A p \in m : p \notin gray \cup grayagain \cup weak
            /\ \A p \in Obj : marked'[p] = "black" =>
                 /\ p \notin Threads \cup Weak
                 /\ \A j \in Slots : slot[p][j] \in White => slot[p][j] \in m
            /\ \A p \in Obj : marked'[p] = "gray" =>
                 \/ p \in gray' \cup grayagain \cup weak
                 \/ p \in Strings
                 \/ p \in Upvals /\ openat[p] # Nil
        BY <2>3, <3>0, <3>7, <3>8, MarkKeepsMarking DEF m
      <4>2. \A p \in Obj, j \in Slots : marked'[p] = "black" => slot'[p][j] \notin White'
        BY <1>b, <1>c, <1>d, <2>a, <3>8, <3>9, <4>1 DEF White, TypeOK
      <4>3. marked'[Main] = "gray" /\ marked'[Registry] \in {"gray", "black"}
        BY <2>3, <3>9 DEF Marking, White
      <4>4. \A p \in gray' \cup grayagain \cup weak : marked'[p] = "gray"
        <5>1. \A p \in m \cap Queued : marked'[p] = "gray"
          BY <3>0, <3>8, KindsDisjoint DEF Paint, Queued
        <5>2. \A p \in gray \cup grayagain \cup weak : p \in Obj /\ marked[p] = "gray"
          BY <2>3 DEF Marking, TypeOK, Queued, Tables, Closures, Threads, Weak
        <5> QED BY <3>0, <3>9, <5>1, <5>2 DEF White
      <4> QED BY <2>3, <1>d, <3>0, <4>1, <4>2, <4>3, <4>4 DEF Marking
    <3>6. SweepLeft' BY <1>d, <2>3 DEF SweepLeft
    <3> QED BY <3>1, <3>2, <3>3, <3>4, <3>5, <3>6
  <2> QED BY <2>1, <2>2, <2>3
<1> QED BY <1>n, <1>y

\* OP_CLOSURE and luaF_findupval keep the invariant.
LEMMA CaptureInv ==
  ASSUME IInv, gcstate # "closed", NEW c \in Closures, NEW u \in Upvals,
         NEW i \in Slots, NEW j \in Slots, Capture(c, u, i, j)
  PROVE  IInv'
<1> USE RootAssumption, NilAssumption DEF IInv
<1>a. /\ c \in Obj /\ u \in Obj /\ L \in Obj /\ c # u /\ c # L /\ L # u
      /\ L \notin Upvals \cup Strings \cup Udata \cup Closures
      /\ c \notin Upvals \cup Strings \cup Udata \cup Threads
      /\ u \notin Strings \cup Udata \cup Closures \cup Threads
  BY KindsDisjoint DEF Closures, Upvals, TypeOK, Threads
<1>b. /\ marked[c] = "free"
      /\ marked' = [marked EXCEPT ![c] = "white",
                       ![u] = IF @ = "free" \/ IsDead(u) THEN "white" ELSE @]
      /\ slot' = [slot EXCEPT ![c] = [@ EXCEPT ![i] = u], ![L] = [@ EXCEPT ![j] = c]]
      /\ UNCHANGED <<gcstate, lists, unswept, fin, L>>
  BY DEF Capture
<1>c. \/ /\ openat' = openat
         /\ u \in ND \/ openat[u] = <<L, i>>
      \/ marked[u] = "free" /\ openat' = [openat EXCEPT ![u] = <<L, i>>]
  BY AccessibleInND DEF Capture, FindUpval
<1>d. L \in ND /\ L \in Threads BY DEF Closed, TypeOK
<1>f. marked[c] = "free" /\ \A k \in Slots : slot[c][k] = Nil
  BY <1>a, <1>b DEF Shape
<1>g. UNCHANGED <<gcstate, lists, unswept, fin, L>> BY <1>b
<1>m. /\ marked' \in [Obj -> {"free", "white", "dead", "gray", "black"}]
      /\ \A o \in Obj : marked'[o] = IF o = c \/ (o = u /\ marked[u] \in {"free", "dead"})
                                    THEN "white" ELSE marked[o]
  BY <1>a, <1>b DEF TypeOK, IsDead
<1>s. /\ slot' \in [Obj -> [Slots -> Obj \cup {Nil}]]
      /\ \A o \in Obj, k \in Slots :
           slot'[o][k] = IF o = c /\ k = i THEN u
                         ELSE IF o = L /\ k = j THEN c ELSE slot[o][k]
  <2>1. slot \in [Obj -> [Slots -> Obj \cup {Nil}]] BY DEF TypeOK
  <2> QED BY <1>a, <1>b, <2>1
<1>o. /\ openat' \in [Upvals -> (Threads \X Slots) \cup {Nil}]
      /\ \A w \in Upvals : w # u => openat'[w] = openat[w]
      /\ openat'[u] = openat[u] \/ (marked[u] = "free" /\ openat'[u] = <<L, i>>)
      /\ u \in ND \/ openat'[u] = <<L, i>>
  BY <1>a, <1>c, <1>d DEF TypeOK
<1>p. /\ \A w \in Upvals : openat[w] # Nil =>
           /\ openat[w][1] \in Threads /\ openat[w][2] \in Slots /\ openat[w][1] \in Obj
           /\ openat[w] = openat'[w] /\ marked[w] # "free"
      /\ Upvals \subseteq Obj
  BY <1>o DEF TypeOK, Threads, Shape, Upvals
<1>1. TypeOK' BY <1>g, <1>m, <1>s, <1>o DEF TypeOK
<1>2. Shape'
  <2>1. \A o \in Obj, k \in Slots :
          /\ (marked'[o] = "free" \/ o \in Strings) => slot'[o][k] = Nil
          /\ o \in Udata => slot'[o][k] \in Tables \cup {Nil}
          /\ o \notin Closures => slot'[o][k] \notin Upvals
    BY <1>a, <1>d, <1>m, <1>s DEF Shape, ND
  <2>2. \A w \in Upvals : openat'[w] # Nil =>
          /\ marked'[w] \notin {"free", "black"} /\ marked'[openat'[w][1]] # "free"
          /\ \A k \in Slots : slot'[w][k] = Nil
    <3> SUFFICES ASSUME NEW w \in Upvals, openat'[w] # Nil
                 PROVE  /\ marked'[w] \notin {"free", "black"} /\ marked'[openat'[w][1]] # "free"
                        /\ \A k \in Slots : slot'[w][k] = Nil
      OBVIOUS
    <3>0. w \in Obj /\ w # L /\ w # c BY <1>a, <1>p
    <3>1. CASE openat[w] # Nil
      BY <1>m, <1>p, <1>s, <3>0, <3>1 DEF Shape
    <3>2. CASE openat[w] = Nil
      <4>1. w = u /\ marked[w] = "free" /\ openat'[w][1] = L BY <1>o, <3>2
      <4> QED BY <1>a, <1>d, <1>m, <1>s, <3>0, <4>1 DEF Shape, ND
    <3> QED BY <3>1, <3>2
  <2> QED BY <2>1, <2>2 DEF Shape
<1>3. Closed'
  <2>1. \A o \in Obj : o \in ND' <=> o \in ND \/ o \in {c, u}
    BY <1>m DEF ND
  <2>2. ND \subseteq Obj /\ ND' \subseteq Obj /\ ND \subseteq ND' /\ c \in ND' /\ u \in ND'
    BY <1>a, <2>1 DEF ND
  <2>3. \A o \in Obj, k \in Slots : o \in ND' => slot'[o][k] \in ND' \cup {Nil}
    <3> SUFFICES ASSUME NEW o \in Obj, NEW k \in Slots, o \in ND'
                 PROVE  slot'[o][k] \in ND' \cup {Nil}
      OBVIOUS
    <3>1. CASE o \in ND BY <1>s, <2>2, <3>1 DEF Closed
    <3>2. CASE o = c BY <1>a, <1>f, <1>s, <2>2, <3>2
    <3>3. CASE o = u /\ o \notin ND
      <4>1. openat[u] = <<L, i>> \/ marked[u] = "free" BY <1>o, <3>3
      <4>2. openat[u] # Nil \/ marked[u] = "free" BY <1>d, <4>1
      <4>3. slot[u][k] = Nil BY <1>a, <4>2 DEF Shape
      <4> QED BY <1>a, <1>s, <2>2, <3>3, <4>3
    <3> QED BY <2>1, <3>1, <3>2, <3>3
  <2>4. \A w \in Upvals : w \in ND' /\ openat'[w] # Nil =>
          slot'[openat'[w][1]][openat'[w][2]] \in ND' \cup {Nil}
    <3> SUFFICES ASSUME NEW w \in Upvals, w \in ND', openat'[w] # Nil
                 PROVE  slot'[openat'[w][1]][openat'[w][2]] \in ND' \cup {Nil}
      OBVIOUS
    <3>1. CASE openat'[w] = <<L, i>> BY <1>a, <1>d, <2>2, <2>3, <3>1
    <3>2. CASE openat'[w] # <<L, i>>
      <4>1. openat[w] # Nil /\ openat'[w] = openat[w] BY <1>o, <3>2
      <4>2. w \in ND BY <1>a, <1>o, <1>p, <2>1, <3>2
      <4>3. slot[openat[w][1]][openat[w][2]] \in ND \cup {Nil} BY <4>1, <4>2 DEF Closed
      <4> QED BY <1>a, <1>p, <1>s, <2>2, <4>1, <4>3
    <3> QED BY <3>1, <3>2
  <2> QED BY <1>g, <2>2, <2>3, <2>4 DEF Closed
<1>4. Phase' BY <1>a, <1>g, <1>m DEF Phase, Udata
<1>5. Marking'
  <2>1. \A o \in Obj, k \in Slots : gcstate = "propagate" /\ marked'[o] = "black" =>
          slot'[o][k] \notin White'
    <3> SUFFICES ASSUME NEW o \in Obj, NEW k \in Slots, gcstate = "propagate",
                        marked'[o] = "black"
                 PROVE  slot'[o][k] \notin White'
      OBVIOUS
    <3>1. marked[o] = "black" /\ o \in ND /\ o # L /\ o # c /\ slot'[o][k] = slot[o][k]
      BY <1>a, <1>d, <1>m, <1>s DEF Marking, ND
    <3>2. slot[o][k] \in ND \cup {Nil} /\ slot[o][k] \notin White
      BY <3>1 DEF Closed, Marking
    <3>3. slot[o][k] \in Obj => marked[slot[o][k]] \in {"gray", "black"}
      BY <1>m, <3>2 DEF White, ND, TypeOK
    <3>4. slot[o][k] \in Obj => marked'[slot[o][k]] \in {"gray", "black"}
      BY <1>f, <1>m, <3>3
    <3> QED BY <3>1, <3>4 DEF White
  <2>2. \A o \in Obj : gcstate = "propagate" => (marked'[o] = marked[o] \/ marked[o] = "free")
                                             /\ (marked[o] = "free" => marked'[o] \in {"free", "white"})
    BY <1>a, <1>f, <1>m DEF Phase
  <2>3. \A w \in Upvals : openat[w] # Nil => openat'[w] # Nil BY <1>p
  <2> QED BY <1>g, <2>1, <2>2, <2>3 DEF Marking, TypeOK, Queued, Tables, Closures, Threads, Weak
<1>6. SweepLeft'
  <2>1. gcstate \in {"sweepstring", "sweep"} => unswept \subseteq Alloc'
    BY <1>m DEF SweepLeft, Alloc
  <2>2. gcstate \in {"sweepstring", "sweep"} =>
          \A w \in Upvals : openat'[w] # Nil => w \notin unswept
    BY <1>o, <1>p DEF SweepLeft, Alloc
  <2> QED BY <1>g, <1>m, <1>p, <2>1, <2>2 DEF SweepLeft
<1> QED BY <1>1, <1>2, <1>3, <1>4, <1>5, <1>6

\* luaF_close and luaC_linkupval keep the invariant.
LEMMA CloseUpvalInv ==
  ASSUME IInv, gcstate # "closed", NEW u \in Obj, NEW i \in Slots, CloseUpval(u, i)
  PROVE  IInv'
<1> DEFINE v == slot[L][i]
<1> USE RootAssumption, NilAssumption DEF IInv
<1>a. /\ u \in Upvals /\ openat[u] = <<L, i>> /\ openat[u] # Nil
      /\ openat' = [openat EXCEPT ![u] = Nil]
      /\ UNCHANGED <<gcstate, unswept, fin, L>>
  BY DEF CloseUpval, TypeOK
<1>b. /\ L \in Obj /\ L # u /\ L \in ND /\ L \in Threads
      /\ L \notin Upvals \cup Strings \cup Udata \cup Closures
      /\ u \notin Strings \cup Udata \cup Closures \cup Threads \cup Queued
  BY <1>a, KindsDisjoint DEF Closures, Upvals, TypeOK, Threads, Closed, Queued
<1>c. /\ v \in ND \cup {Nil} /\ v \notin Upvals
      /\ marked[u] \notin {"free", "black"} /\ \A k \in Slots : slot[u][k] = Nil
  BY <1>a, <1>b DEF Closed, Shape
<1>d. CASE IsDead(u)
  <2>0. /\ marked' = [marked EXCEPT ![u] = "free"]
        /\ slot' = [slot EXCEPT ![L][i] = Nil] /\ UNCHANGED lists
    BY <1>d DEF CloseUpval
  <2>1. TypeOK' BY <1>a, <2>0 DEF TypeOK
  <2>2. Shape' BY <1>a, <1>b, <1>c, <2>0 DEF Shape, TypeOK, Upvals, Threads
  <2>3. Closed'
    <3>1. ND' = ND /\ u \notin ND BY <1>d, <2>0 DEF ND, TypeOK, IsDead
    <3> QED BY <1>a, <1>b, <2>0, <3>1 DEF Closed, TypeOK, ND, Upvals, Threads
  <2>4. Phase' BY <1>a, <1>d, <2>0 DEF Phase, TypeOK, Udata
  <2>5. Marking' BY <1>a, <1>d, <2>0 DEF Marking, Phase, IsDead
  <2>6. SweepLeft' BY <1>a, <2>0 DEF SweepLeft, Alloc, TypeOK
  <2> QED BY <2>1, <2>2, <2>3, <2>4, <2>5, <2>6
<1>e. CASE ~IsDead(u)
  <2>0. /\ slot' = [slot EXCEPT ![u] = [@ EXCEPT ![i] = v], ![L] = [@ EXCEPT ![i] = Nil]]
        /\ LinkUpval(u, v)
    BY <1>e DEF CloseUpval
  <2>s. /\ \A p \in Obj, k \in Slots :
             slot'[p][k] = IF p = L /\ k = i THEN Nil
                           ELSE IF p = u /\ k = i THEN v ELSE slot[p][k]
        /\ slot' \in [Obj -> [Slots -> Obj \cup {Nil}]]
    <3>1. slot \in [Obj -> [Slots -> Obj \cup {Nil}]] BY DEF TypeOK
    <3>2. /\ slot' = [slot EXCEPT ![u] = [@ EXCEPT ![i] = v], ![L] = [@ EXCEPT ![i] = Nil]]
          /\ u \in Obj /\ L \in Obj /\ L # u /\ v \in Obj \cup {Nil}
      BY <1>b, <2>0, <3>1
    <3> HIDE DEF v
    <3> QED BY <3>1, <3>2
  <2>t. /\ \A w \in Upvals : openat'[w] = IF w = u THEN Nil ELSE openat[w]
        /\ openat' \in [Upvals -> (Threads \X Slots) \cup {Nil}]
    BY <1>a DEF TypeOK
  <2>u. u \in ND BY <1>c, <1>e DEF ND, IsDead
  <2>q. \A w \in Upvals : openat'[w] # Nil =>
           /\ w \in Obj /\ w # u /\ w # L /\ openat[w] # Nil /\ openat'[w] = openat[w]
           /\ openat[w][1] \in Obj /\ openat[w][1] # u /\ openat[w][2] \in Slots
    BY <1>a, <1>b, <2>t, KindsDisjoint DEF Upvals, Threads
  <2>v. v \in ND \cup {Nil} /\ v \notin Upvals /\ ND \subseteq Obj BY <1>c DEF ND
  <2> HIDE DEF v
  <2>5. ASSUME \A p \in Obj : marked'[p] = "free" <=> marked[p] = "free",
               \A w \in Upvals : openat'[w] # Nil => marked'[w] # "black"
        PROVE  Shape'
    <3>1. \A o \in Obj, k \in Slots :
            /\ (marked'[o] = "free" \/ o \in Strings) => slot'[o][k] = Nil
            /\ o \in Udata => slot'[o][k] \in Tables \cup {Nil}
            /\ o \notin Closures => slot'[o][k] \notin Upvals
      <4>1. Nil \notin Upvals BY DEF Upvals
      <4> QED BY <1>b, <1>c, <2>v, <2>s, <2>5, <4>1 DEF Shape
    <3>2. \A w \in Upvals : openat'[w] # Nil =>
            /\ marked'[w] \notin {"free", "black"} /\ marked'[openat'[w][1]] # "free"
            /\ \A k \in Slots : slot'[w][k] = Nil
      BY <2>s, <2>q, <2>5 DEF Shape
    <3> QED BY <3>1, <3>2 DEF Shape
  <2>6. ASSUME \A p \in Obj : p \in ND' <=> p \in ND
        PROVE  Closed'
    <3>1. ND' = ND BY <2>6 DEF ND
    <3>2. \A o \in ND, k \in Slots : slot'[o][k] \in ND \cup {Nil}
      BY <2>s, <2>v DEF Closed
    <3>3. \A w \in Upvals : w \in ND /\ openat'[w] # Nil =>
            slot'[openat'[w][1]][openat'[w][2]] \in ND \cup {Nil}
      BY <2>q, <2>s, <2>v DEF Closed
    <3> QED BY <1>a, <3>1, <3>2, <3>3 DEF Closed
  <2>1. CASE marked' = [marked EXCEPT ![u] = IF @ = "gray" THEN "white" ELSE @]
             /\ UNCHANGED lists /\ (marked[u] = "gray" => gcstate # "propagate")
    <3>0. \A p \in Obj : marked'[p] = marked[p] \/ (p = u /\ marked[p] = "gray" /\ marked'[p] = "white")
      BY <2>1 DEF TypeOK
    <3>1. TypeOK' BY <1>a, <2>1, <2>s, <2>t DEF TypeOK
    <3>2. Shape'
      <4>1. \A w \in Upvals : openat'[w] # Nil => marked'[w] # "black"
        BY <2>q, <3>0 DEF Shape
      <4> QED BY <2>5, <3>0, <4>1
    <3>3. Closed' BY <2>6, <3>0 DEF ND
    <3>4. Phase' BY <1>a, <3>0 DEF Phase, Udata
    <3>5. Marking'
      <4> SUFFICES ASSUME gcstate = "propagate" PROVE Marking' BY <1>a DEF Marking
      <4>1. marked' = marked BY <2>1 DEF TypeOK
      <4>2. White' = White BY <4>1 DEF White
      <4>3. \A p \in Obj, k \in Slots : marked[p] = "black" => slot'[p][k] \notin White
        <5>1. Nil \notin White /\ marked[u] # "black" BY <1>c DEF White
        <5> QED BY <2>s, <5>1 DEF Marking
      <4>4. \A p \in Upvals : openat[p] # Nil /\ marked[p] = "gray" => openat'[p] # Nil
        BY <2>t, <2>1
      <4> QED BY <1>a, <2>1, <4>1, <4>2, <4>3, <4>4 DEF Marking
    <3>6. SweepLeft'
      <4> SUFFICES ASSUME gcstate \in {"sweepstring", "sweep"} PROVE SweepLeft'
        BY <1>a DEF SweepLeft
      <4>1. marked[u] # "free" => marked'[u] # "free" BY <3>0, <1>a DEF Upvals
      <4>2. unswept \subseteq Alloc' BY <1>c, <3>0 DEF SweepLeft, Alloc
      <4>3. \A w \in Upvals : openat'[w] # Nil => w \notin unswept
        BY <2>q DEF SweepLeft
      <4>4. marked'[u] = "white" \/ u \in unswept \cup tmudata
        <5>1. u \notin tmudata BY <1>b DEF TypeOK, HasGC, Udata
        <5>2. marked[u] \in {"white", "gray"} BY <1>a, <1>c, <1>e DEF TypeOK, IsDead
        <5> QED BY <2>1, <5>2 DEF TypeOK
      <4>5. \A p \in Obj : p # u => marked'[p] = marked[p] BY <3>0
      <4>6. \A w \in Upvals : w # u => openat'[w] = openat[w] BY <2>t
      <4> QED BY <1>a, <4>2, <4>3, <4>4, <4>5, <4>6 DEF SweepLeft
    <3> QED BY <3>1, <3>2, <3>3, <3>4, <3>5, <3>6
  <2>2. CASE /\ marked[u] = "gray" /\ gcstate = "propagate"
             /\ Mark([marked EXCEPT ![u] = "black"], {v})
    <3> DEFINE m == Newly({v})
    <3>m. m \subseteq White /\ u \notin m /\ (v \in White => v \in m)
      BY <2>2, NewlyFacts DEF White
    <3>0. /\ \A p \in Obj : marked'[p] = IF p = u THEN "black" ELSE Paint(marked, m)[p]
          /\ gray' = gray \cup (m \cap Queued) /\ UNCHANGED <<grayagain, weak>>
          /\ DOMAIN marked' = Obj /\ marked' = [p \in Obj |-> marked'[p]]
      BY <2>2, <3>m DEF Mark, Paint, TypeOK
    <3>9. \A p \in Obj :
            /\ marked'[p] \in {"free", "white", "gray", "black"}
            /\ marked'[p] = "free" <=> marked[p] = "free"
            /\ marked'[p] = "white" <=> (marked[p] = "white" /\ p \notin m)
            /\ p \notin White /\ p # u => marked'[p] = marked[p]
            /\ p \in m => p \in White
      <4>1. \A p \in Obj :
              /\ Paint(marked, m)[p] \in {"free", "white", "gray", "black"}
              /\ Paint(marked, m)[p] = "free" <=> marked[p] = "free"
              /\ Paint(marked, m)[p] = "white" <=> (marked[p] = "white" /\ p \notin m)
              /\ p \notin White => Paint(marked, m)[p] = marked[p]
              /\ p \in m => p \in White
        BY <2>2, MarkKeepsND
      <4>2. marked[u] = "gray" /\ u \notin m BY <2>2, <3>m
      <4>3. \A p \in Obj : marked'[p] = IF p = u THEN "black" ELSE Paint(marked, m)[p]
        BY <3>0
      <4>4. \A p \in Obj : p # u => marked'[p] = Paint(marked, m)[p] BY <4>3
      <4>5. marked'[u] = "black" BY <4>3
      <4> HIDE DEF m
      <4> QED BY <4>1, <4>2, <4>4, <4>5
    <3>p. \A p \in Obj : p \in m => (marked'[p] = "gray" <=> ~(p \in Udata \/ (p \in Upvals /\ openat[p] = Nil)))
      BY <3>0, <3>m DEF Paint, IsOpen
    <3>k. /\ \A p \in m : p \notin gray \cup grayagain \cup weak
          /\ \A p \in Obj : p # u /\ marked'[p] = "black" =>
               /\ p \notin Threads \cup Weak
               /\ \A j \in Slots : slot[p][j] \in White => slot[p][j] \in m
          /\ \A p \in Obj : p # u /\ marked'[p] = "gray" =>
               \/ p \in gray' \cup grayagain \cup weak
               \/ p \in Strings
               \/ p \in Upvals /\ openat[p] # Nil
      <4>1. /\ \A o \in Obj : o \in m => o \notin gray \cup grayagain \cup weak
            /\ \A o \in Obj : Paint(marked, m)[o] = "black" =>
                 /\ o \notin Threads \cup Weak
                 /\ \A j \in Slots : slot[o][j] \in White => slot[o][j] \in m
            /\ \A o \in Obj : Paint(marked, m)[o] = "gray" =>
                 \/ o \in gray \cup (m \cap Queued) \cup grayagain \cup weak
                 \/ o \in Strings
                 \/ o \in Upvals /\ openat[o] # Nil
        BY <2>2, MarkKeepsMarking
      <4>2. m \subseteq Obj BY <3>m DEF White
      <4> QED BY <3>0, <4>1, <4>2
    <3> HIDE DEF m
    <3>1. TypeOK'
      <4>1. marked' \in [Obj -> {"free", "white", "dead", "gray", "black"}]
        BY <3>0, <3>9
      <4> QED BY <1>a, <2>s, <2>t, <3>0, <4>1 DEF TypeOK
    <3>2. Shape'
      <4>1. \A w \in Upvals : openat'[w] # Nil => marked'[w] # "black"
        <5> SUFFICES ASSUME NEW w \in Upvals, openat'[w] # Nil PROVE marked'[w] # "black"
          OBVIOUS
        <5>1. w \in Obj /\ w # u /\ openat[w] # Nil /\ marked[w] # "black" /\ w \notin Udata
          BY <2>q, KindsDisjoint DEF Shape
        <5>2. CASE w \in m BY <3>p, <5>1, <5>2
        <5>3. CASE w \notin m
          BY <3>0, <5>1, <5>3 DEF Paint
        <5> QED BY <5>2, <5>3
      <4> QED BY <2>5, <3>9, <4>1
    <3>3. Closed' BY <2>2, <2>6, <3>9 DEF ND, Phase
    <3>4. Phase' BY <1>a, <2>2, <3>9 DEF Phase, Udata
    <3>5. Marking'
      <4>1. \A p \in Obj, k \in Slots : marked'[p] = "black" => slot'[p][k] \notin White'
        BY <1>b, <1>c, <2>s, <3>m, <3>9, <3>k DEF White
      <4>2. marked'[Main] = "gray" /\ marked'[Registry] \in {"gray", "black"}
        BY <1>b, <2>2, <3>9, KindsDisjoint DEF Marking, White, Queued, Threads
      <4>3. \A p \in gray' \cup grayagain \cup weak : marked'[p] = "gray"
        <5>1. \A p \in m \cap Queued : marked'[p] = "gray"
          BY <3>m, <3>p, KindsDisjoint DEF White, Queued
        <5>2. \A p \in gray \cup grayagain \cup weak : p \in Obj /\ marked[p] = "gray" /\ p # u
          BY <1>b, <2>2 DEF Marking, TypeOK, Queued, Tables, Closures, Threads, Weak
        <5> QED BY <3>0, <3>9, <5>1, <5>2 DEF White
      <4>4. \A p \in Obj : marked'[p] = "black" => p \notin Threads \cup Weak
        BY <1>b, <3>k, KindsDisjoint DEF Queued
      <4>5. \A p \in Obj : marked'[p] = "gray" => p # u BY <3>0
      <4> QED BY <1>a, <2>2, <2>t, <3>0, <3>k, <4>1, <4>2, <4>3, <4>4, <4>5 DEF Marking
    <3>6. SweepLeft' BY <1>a, <2>2 DEF SweepLeft
    <3> QED BY <3>1, <3>2, <3>3, <3>4, <3>5, <3>6
  <2>3. \/ /\ marked' = [marked EXCEPT ![u] = IF @ = "gray" THEN "white" ELSE @]
           /\ UNCHANGED lists /\ (marked[u] = "gray" => gcstate # "propagate")
        \/ /\ marked[u] = "gray" /\ gcstate = "propagate"
           /\ Mark([marked EXCEPT ![u] = "black"], {v})
    BY <2>0 DEF LinkUpval, TypeOK, Upvals
  <2> QED BY <2>1, <2>2, <2>3
<1> QED BY <1>d, <1>e
-----------------------------------------------------------------------------
(* The collector's steps.                                                  *)

\* markroot keeps the invariant.
LEMMA MarkRootInv ==
  ASSUME IInv, MarkRoot
  PROVE  IInv'
<1> DEFINE m == Newly({Main, Registry})
<1> USE RootAssumption, NilAssumption DEF IInv
<1>a. /\ gcstate = "pause" /\ gcstate' = "propagate"
      /\ marked' = Paint(marked, m) /\ gray' = m \cap Queued
      /\ grayagain' = {} /\ weak' = {}
      /\ UNCHANGED <<unswept, fin, heap>>
  BY DEF MarkRoot
<1>b. \A p \in Obj : marked[p] \in {"free", "white"}
  BY <1>a DEF Phase
<1>c. Main \in ND /\ Registry \in ND BY <1>a DEF Closed
<1>m. /\ m \subseteq White /\ Main \in m /\ Registry \in m
      /\ \A u \in m, i \in Slots : u \in Udata \/ (u \in Upvals /\ openat[u] = Nil) =>
           slot[u][i] \notin White \/ slot[u][i] \in m
  <2>1. {Main, Registry} \cap White \subseteq m /\ m \subseteq White BY NewlyFacts
  <2>2. Main \in White /\ Registry \in White BY <1>b, <1>c DEF White, ND
  <2> QED BY <2>1, <2>2, NewlyFacts
<1> HIDE DEF m
<1>p. \A p \in Obj :
        /\ p \notin m => marked'[p] = marked[p]
        /\ p \in m /\ (p \in Udata \/ (p \in Upvals /\ openat[p] = Nil)) => marked'[p] = "black"
        /\ p \in m /\ ~(p \in Udata \/ (p \in Upvals /\ openat[p] = Nil)) => marked'[p] = "gray"
  BY <1>a DEF Paint, IsOpen
<1>q. \A p \in Obj : /\ marked'[p] = "free" <=> marked[p] = "free"
                     /\ marked'[p] \in {"free", "white", "gray", "black"}
                     /\ marked'[p] = "white" => p \notin m
  BY <1>b, <1>m, <1>p DEF White
<1>1. TypeOK'
  <2>1. marked' \in [Obj -> {"free", "white", "dead", "gray", "black"}]
    BY <1>a, <1>q DEF Paint
  <2> QED BY <1>a, <2>1 DEF TypeOK
<1>2. Shape'
  <2>1. \A w \in Upvals : openat[w] # Nil => marked'[w] \notin {"free", "black"}
    <3> SUFFICES ASSUME NEW w \in Upvals, openat[w] # Nil
                 PROVE  marked'[w] \notin {"free", "black"}
      OBVIOUS
    <3>1. w \in Obj /\ w \notin Udata /\ marked[w] \notin {"free", "black"}
      BY KindsDisjoint DEF Upvals, Shape
    <3> QED BY <1>p, <3>1
  <2>2. \A w \in Upvals : openat[w] # Nil => openat[w][1] \in Obj
    BY DEF TypeOK, Threads
  <2> QED BY <1>a, <1>q, <2>1, <2>2 DEF Shape
<1>3. Closed'
  <2>1. ND' = ND BY <1>b, <1>q DEF ND
  <2> QED BY <1>a, <2>1 DEF Closed
<1>4. Phase' BY <1>a, <1>q DEF Phase, Udata
<1>5. Marking'
  <2>1. marked'[Main] = "gray" /\ marked'[Registry] = "gray"
    <3>1. Main \in Threads /\ Registry \in Tables BY DEF Threads, Tables
    <3> QED BY <1>m, <1>p, <3>1, KindsDisjoint
  <2>2. \A o \in Obj : marked'[o] = "black" =>
          o \in m /\ (o \in Udata \/ (o \in Upvals /\ openat[o] = Nil))
    BY <1>b, <1>p
  <2>3. \A o \in Obj : marked'[o] = "black" =>
          /\ o \notin Threads \cup Weak
          /\ \A i \in Slots : slot[o][i] \notin White'
    <3>1. \A o \in Obj, i \in Slots : marked'[o] = "black" => slot[o][i] \notin White'
      BY <1>b, <1>m, <1>q, <2>2 DEF White
    <3> QED BY <2>2, <3>1, KindsDisjoint
  <2>4. \A o \in Obj : marked'[o] = "gray" =>
          o \in gray' \/ o \in Strings \/ (o \in Upvals /\ openat[o] # Nil)
    <3> SUFFICES ASSUME NEW o \in Obj, marked'[o] = "gray"
                 PROVE  o \in gray' \/ o \in Strings \/ (o \in Upvals /\ openat[o] # Nil)
      OBVIOUS
    <3>1. o \in m /\ ~(o \in Udata \/ (o \in Upvals /\ openat[o] = Nil))
      BY <1>b, <1>p
    <3> QED BY <1>a, <3>1, KindsDisjoint DEF Queued
  <2>5. \A o \in gray' : marked'[o] = "gray"
    <3> SUFFICES ASSUME NEW o \in gray' PROVE marked'[o] = "gray" OBVIOUS
    <3>1. o \in m /\ o \in Obj /\ o \in Tables \cup Closures \cup Threads
      BY <1>a, <1>m DEF White, Queued
    <3> QED BY <1>p, <3>1, KindsDisjoint
  <2> QED BY <1>a, <2>1, <2>3, <2>4, <2>5 DEF Marking
<1>6. SweepLeft' BY <1>a DEF SweepLeft
<1> QED BY <1>1, <1>2, <1>3, <1>4, <1>5, <1>6

\* propagatemark keeps the invariant.
LEMMA PropagateInv ==
  ASSUME IInv, NEW o \in Obj, Propagate(o)
  PROVE  IInv'
<1> DEFINE m == Newly(Children(o))
           stays == IF o \in Threads \cup Weak THEN "gray" ELSE "black"
<1> USE RootAssumption, NilAssumption DEF IInv
<1>a. /\ gcstate = "propagate" /\ o \in gray
      /\ marked' = Paint([marked EXCEPT ![o] = stays], m)
      /\ gray' = (gray \ {o}) \cup (m \cap Queued)
      /\ grayagain' = grayagain \cup ({o} \cap Threads)
      /\ weak' = weak \cup ({o} \cap Weak)
      /\ UNCHANGED <<gcstate, unswept, fin, heap>>
  BY DEF Propagate
<1>b. /\ marked[o] = "gray" /\ o \in Queued /\ o \notin White
      /\ o \notin grayagain \cup weak /\ o \notin Udata \cup Upvals
  BY <1>a, KindsDisjoint DEF Marking, TypeOK, Queued, White
<1>m. m \subseteq White /\ o \notin m /\ Children(o) \cap White \subseteq m
  BY <1>b, NewlyFacts
<1>n. /\ \A p \in Obj : p \in m => p \notin gray \cup grayagain \cup weak
      /\ \A p \in Obj : Paint(marked, m)[p] = "black" =>
           /\ p \notin Threads \cup Weak
           /\ \A i \in Slots : slot[p][i] \in White => slot[p][i] \in m
      /\ \A p \in Obj : Paint(marked, m)[p] = "gray" =>
           \/ p \in gray \cup (m \cap Queued) \cup grayagain \cup weak
           \/ p \in Strings
           \/ p \in Upvals /\ openat[p] # Nil
  BY <1>a, MarkKeepsMarking
<1>o. \A p \in Obj :
        /\ Paint(marked, m)[p] \in {"free", "white", "gray", "black"}
        /\ Paint(marked, m)[p] = "free" <=> marked[p] = "free"
        /\ Paint(marked, m)[p] = "white" <=> (marked[p] = "white" /\ p \notin m)
        /\ p \notin White => Paint(marked, m)[p] = marked[p]
        /\ p \in m => p \in White
  BY <1>a, MarkKeepsND
<1>p. /\ marked' = [p \in Obj |-> marked'[p]]
      /\ \A p \in Obj : p # o => marked'[p] = Paint(marked, m)[p]
      /\ marked'[o] = stays
      /\ \A p \in Obj : p \in m /\ (p \in Upvals => openat[p] # Nil) /\ p \notin Udata
                         => marked'[p] = "gray"
      /\ \A p \in Obj : p \notin m /\ p # o => marked'[p] = marked[p]
  BY <1>a, <1>m DEF Paint, TypeOK, IsOpen
<1> HIDE DEF m
<1>q. \A p \in Obj : /\ marked'[p] = "free" <=> marked[p] = "free"
                     /\ marked'[p] \in {"free", "white", "gray", "black"}
                     /\ marked'[p] = "white" => marked[p] = "white" /\ p \notin m
  BY <1>b, <1>o, <1>p
<1>1. TypeOK'
  <2>1. marked' \in [Obj -> {"free", "white", "dead", "gray", "black"}]
    BY <1>p, <1>q
  <2>2. o \in Queued BY <1>b
  <2> QED BY <1>a, <2>1, <2>2 DEF TypeOK
<1>2. Shape'
  <2>1. \A w \in Upvals : openat[w] # Nil => marked'[w] \notin {"free", "black"}
    <3> SUFFICES ASSUME NEW w \in Upvals, openat[w] # Nil
                 PROVE  marked'[w] \notin {"free", "black"}
      OBVIOUS
    <3>1. w \in Obj /\ w \notin Udata /\ marked[w] \notin {"free", "black"} /\ w # o
      BY <1>b, KindsDisjoint DEF Upvals, Shape
    <3> QED BY <1>p, <3>1
  <2>2. \A w \in Upvals : openat[w] # Nil => openat[w][1] \in Obj
    BY DEF TypeOK, Threads
  <2>3. UNCHANGED <<slot, openat>> BY <1>a
  <2>4. \A p \in Obj : marked'[p] = "free" <=> marked[p] = "free" BY <1>q
  <2> QED BY <2>1, <2>2, <2>3, <2>4 DEF Shape
<1>3. Closed'
  <2>1. ND' = ND BY <1>a, <1>q DEF ND, Phase
  <2> QED BY <1>a, <2>1 DEF Closed
<1>4. Phase' BY <1>a, <1>q DEF Phase, Udata
<1>5. Marking'
  <2>1. marked'[Main] = "gray" /\ marked'[Registry] \in {"gray", "black"}
    <3>1. Main \in Threads BY DEF Threads
    <3>2. marked[Main] = "gray" /\ marked[Registry] \in {"gray", "black"}
      BY <1>a DEF Marking
    <3>3. Main \notin White /\ Registry \notin White BY <3>2 DEF White
    <3>4. Main # o => marked'[Main] = "gray" BY <1>o, <1>p, <3>2, <3>3
    <3>5. Registry # o => marked'[Registry] \in {"gray", "black"}
      BY <1>o, <1>p, <3>2, <3>3
    <3> QED BY <1>p, <3>1, <3>4, <3>5
  <2>2. \A p \in Obj : marked'[p] = "black" =>
          /\ p \notin Threads \cup Weak
          /\ \A i \in Slots : slot[p][i] \in White => slot[p][i] \in m
    <3> SUFFICES ASSUME NEW p \in Obj, marked'[p] = "black"
                 PROVE  /\ p \notin Threads \cup Weak
                        /\ \A i \in Slots : slot[p][i] \in White => slot[p][i] \in m
      OBVIOUS
    <3>1. CASE p # o BY <1>n, <1>p, <3>1
    <3>2. CASE p = o
      <4>1. o \notin Threads \cup Weak BY <1>p, <3>2
      <4>2. Children(o) = Held(o)
        <5>1. Main \in Threads BY DEF Threads
        <5> QED BY <1>b, <4>1, <5>1 DEF Children, Values, IsOpen
      <4>3. \A i \in Slots : slot[o][i] \in White => slot[o][i] \in Children(o)
        BY <4>2 DEF Held, White
      <4> QED BY <1>m, <3>2, <4>1, <4>3
    <3> QED BY <3>1, <3>2
  <2>3. \A p \in Obj, i \in Slots : marked'[p] = "black" => slot[p][i] \notin White'
    <3>1. \A q \in Obj : q \in White' => q \in White /\ q \notin m
      BY <1>q DEF White
    <3>2. White' \subseteq Obj BY DEF White
    <3> QED BY <2>2, <3>1, <3>2
  <2>4. \A p \in Obj : marked'[p] = "gray" =>
          \/ p \in gray' \cup grayagain' \cup weak'
          \/ p \in Strings
          \/ p \in Upvals /\ openat[p] # Nil
    <3> SUFFICES ASSUME NEW p \in Obj, marked'[p] = "gray"
                 PROVE  \/ p \in gray' \cup grayagain' \cup weak'
                        \/ p \in Strings
                        \/ p \in Upvals /\ openat[p] # Nil
      OBVIOUS
    <3>1. CASE p # o
      <4>1. Paint(marked, m)[p] = "gray" BY <1>p, <3>1
      <4> QED BY <1>a, <1>n, <3>1, <4>1
    <3>2. CASE p = o BY <1>a, <1>p, <3>2
    <3> QED BY <3>1, <3>2
  <2>5. \A p \in gray' \cup grayagain' \cup weak' : marked'[p] = "gray"
    <3> SUFFICES ASSUME NEW p \in gray' \cup grayagain' \cup weak'
                 PROVE  marked'[p] = "gray"
      OBVIOUS
    <3>1. CASE p \in m \cap Queued
      <4>1. p \in Obj /\ p \notin Upvals \cup Udata
        BY <1>m, <3>1, KindsDisjoint DEF White, Queued
      <4> QED BY <1>p, <3>1, <4>1
    <3>2. CASE p # o /\ p \in gray \cup grayagain \cup weak
      <4>1. p \in Obj /\ marked[p] = "gray" /\ p \notin White
        BY <1>a, <3>2 DEF Marking, TypeOK, Queued, Tables, Closures, Threads, Weak, White
      <4> QED BY <1>o, <1>p, <3>2, <4>1
    <3>3. CASE p = o /\ p \in grayagain' \cup weak'
      BY <1>a, <1>b, <1>p, <3>3
    <3> QED BY <1>a, <1>m, <3>1, <3>2, <3>3
  <2>6. gray' \cap grayagain' = {} /\ gray' \cap weak' = {} /\ grayagain' \cap weak' = {}
    <3>1. \A p \in m \cap Queued : p # o /\ p \notin gray \cup grayagain \cup weak
      BY <1>m, <1>n DEF White
    <3>2. gray \cap grayagain = {} /\ gray \cap weak = {} /\ grayagain \cap weak = {}
      BY <1>a DEF Marking
    <3>3. ~(o \in Threads /\ o \in Weak) BY KindsDisjoint
    <3> QED BY <1>a, <1>b, <3>1, <3>2, <3>3
  <2> QED BY <1>a, <2>1, <2>2, <2>3, <2>4, <2>5, <2>6 DEF Marking
<1>6. SweepLeft' BY <1>a DEF SweepLeft
<1> QED BY <1>1, <1>2, <1>3, <1>4, <1>5, <1>6

\* The objects a mark phase keeps: closed under Children, when the objects of
\* before are, or are marked on.
LEMMA MarkAllFacts ==
  ASSUME NEW before \in SUBSET Obj, NEW S, NEW live \in SUBSET Obj,
         \A o \in live : Children(o) \subseteq live
  PROVE  LET w == live \ before IN
         /\ MarkAll(S, w) \subseteq w /\ S \cap w \subseteq MarkAll(S, w)
         /\ \A o \in MarkAll(S, w) : Children(o) \subseteq before \cup MarkAll(S, w)
<1> DEFINE w == live \ before
           E == UNION {{o} \X (Children(o) \cap w) : o \in w}
<1>1. w \in SUBSET Obj /\ S \cap w \in SUBSET Obj OBVIOUS
<1>2. E \in SUBSET (Obj \X Obj) OBVIOUS
<1>3. /\ S \cap w \subseteq Reach(S \cap w, E) /\ Reach(S \cap w, E) \subseteq Obj
      /\ \A p, q \in Obj : p \in Reach(S \cap w, E) /\ <<p, q>> \in E => q \in Reach(S \cap w, E)
  BY <1>1, <1>2, ReachClosed
<1>4. Reach(S \cap w, E) \subseteq w
  <2>1. \A p, q \in Obj : p \in w /\ <<p, q>> \in E => q \in w OBVIOUS
  <2>2. S \cap w \subseteq w OBVIOUS
  <2> HIDE DEF E, w
  <2> QED BY <1>1, <1>2, <2>1, <2>2, ReachLeast
<1>5. MarkAll(S, w) = Reach(S \cap w, E) BY DEF MarkAll
<1>6. ASSUME NEW o \in MarkAll(S, w), NEW c \in Children(o), c \notin before
      PROVE  c \in MarkAll(S, w)
  <2>1. o \in w /\ o \in live BY <1>4, <1>5
  <2>2. c \in w BY <1>6, <2>1
  <2>3. <<o, c>> \in E BY <2>1, <2>2
  <2> QED BY <1>3, <1>5, <2>1, <2>2, <2>3
<1> QED BY <1>3, <1>4, <1>5, <1>6

\* What an object of ND refers to is in ND.
LEMMA ChildrenInND ==
  ASSUME TypeOK, Shape, Closed
  PROVE  /\ \A o \in ND : Children(o) \subseteq ND
         /\ \A o \in Obj \ (Upvals \cup Weak), i \in Slots :
              slot[o][i] \in Children(o) \cup {Nil}
         /\ \A o \in Upvals : openat[o] # Nil =>
              slot[openat[o][1]][openat[o][2]] \in Children(o) \cup {Nil}
         /\ finalizing \subseteq Children(Main)
<1>1. \A o \in ND : Children(o) \subseteq ND BY ValuesInND DEF Children
<1>2. \A o \in Obj \ (Upvals \cup Weak), i \in Slots :
        slot[o][i] \in Children(o) \cup {Nil}
  BY DEF Children, Values, Held, IsOpen
<1>3. \A o \in Upvals : openat[o] # Nil =>
        slot[openat[o][1]][openat[o][2]] \in Children(o) \cup {Nil}
  <2>1. \A o \in Upvals : o \notin Weak BY KindsDisjoint DEF Upvals
  <2> QED BY <2>1 DEF Children, Values, IsOpen
<1>4. finalizing \subseteq Children(Main)
  <2>1. Main \in Obj /\ Main \in Threads BY RootAssumption DEF Threads
  <2> QED BY <2>1, KindsDisjoint DEF Children, Values, IsOpen
<1> QED BY <1>1, <1>2, <1>3, <1>4

\* What is marked before leads only to objects that are marked when S is, but
\* for userdata that wait for their finalizer, and the roots are among those.
Suffices(before, S) ==
  /\ before \subseteq Alloc
  /\ \A o \in before : \/ o \in tmudata
                       \/ Children(o) \subseteq before \cup MarkAll(S, Alloc \ before)
  /\ {Main, Registry, L} \subseteq before \cup MarkAll(S, Alloc \ before)

\* What is marked when the roots are, and when marktmu and propagateall have
\* gone on from the userdata of tm.
FromRoots(before, S) == before \cup MarkAll(S, Alloc \ before)
FromPending(tm, live1) ==
  live1 \cup MarkAll(tm \cup UNION {Children(u) : u \in tm}, Alloc \ live1)

\* The first leads on only by way of userdata that wait for their finalizer,
\* the second to itself.
LEMMA LiveClosed ==
  ASSUME IInv, gcstate \in {"pause", "propagate", "finalize"},
         NEW before, NEW S, Suffices(before, S),
         NEW tm, tmudata \subseteq tm, tm \subseteq Alloc
  PROVE  LET live1 == FromRoots(before, S)
             live2 == FromPending(tm, live1)
         IN  /\ live1 \subseteq Alloc /\ {Main, Registry, L} \subseteq live1
             /\ \A o \in live1 : o \in tmudata \/ Children(o) \subseteq live1
             /\ live2 \subseteq Alloc /\ live1 \subseteq live2 /\ tm \subseteq live2
             /\ \A o \in live2 : Children(o) \subseteq live2
<1> DEFINE live1 == FromRoots(before, S)
           live2 == FromPending(tm, live1)
<1>0. live1 = before \cup MarkAll(S, Alloc \ before) BY DEF FromRoots
<1> HIDE DEF live1
<1> USE DEF IInv, Suffices
<1> DEFINE more == tm \cup UNION {Children(u) : u \in tm}
<1>1. \A o \in Alloc : Children(o) \subseteq Alloc
  <2>1. ND = Alloc BY DEF Phase, ND, Alloc
  <2> QED BY <2>1, ChildrenInND
<1>2. /\ live1 \subseteq Alloc /\ {Main, Registry, L} \subseteq live1
      /\ \A o \in live1 : o \in tmudata \/ Children(o) \subseteq live1
  <2>1. /\ MarkAll(S, Alloc \ before) \subseteq Alloc \ before
        /\ \A o \in MarkAll(S, Alloc \ before) :
             Children(o) \subseteq before \cup MarkAll(S, Alloc \ before)
    <3>1. before \in SUBSET Obj /\ Alloc \in SUBSET Obj BY DEF Alloc
    <3> QED BY <3>1, <1>1, MarkAllFacts
  <2> QED BY <1>0, <2>1
<1>3. /\ MarkAll(more, Alloc \ live1) \subseteq Alloc \ live1
      /\ more \cap (Alloc \ live1) \subseteq MarkAll(more, Alloc \ live1)
      /\ \A o \in MarkAll(more, Alloc \ live1) :
           Children(o) \subseteq live1 \cup MarkAll(more, Alloc \ live1)
  <2>1. live1 \in SUBSET Obj /\ Alloc \in SUBSET Obj BY <1>2 DEF Alloc
  <2>2. TypeOK OBVIOUS
  <2> HIDE DEF more, IInv, Suffices
  <2> QED BY ONLY <2>1, <2>2, <1>1, MarkAllFacts
<1>4. tm \subseteq more /\ more \subseteq Alloc BY <1>1
<1>5. \A o \in tmudata : Children(o) \subseteq more OBVIOUS
<1>6. live2 = live1 \cup MarkAll(more, Alloc \ live1) BY DEF FromPending
<1> HIDE DEF more, live2
<1>7. /\ live2 \subseteq Alloc /\ live1 \subseteq live2 /\ tm \subseteq live2
      /\ \A o \in live2 : Children(o) \subseteq live2
  BY <1>2, <1>3, <1>4, <1>5, <1>6
<1> QED BY <1>2, <1>7 DEF live1, live2

\* The end of a mark phase.
LEMMA FinishMarkInv ==
  ASSUME IInv, gcstate \in {"pause", "propagate", "finalize"},
         NEW before, NEW S, FinishMark(before, S), Suffices(before, S)
  PROVE  IInv'
<1> USE RootAssumption, NilAssumption DEF IInv, Suffices
<1>a. ND = Alloc /\ ND \subseteq Obj /\ \A o \in Obj : marked[o] # "dead"
  BY DEF Phase, ND, Alloc
<1> DEFINE live1 == before \cup MarkAll(S, Alloc \ before)
           sep   == {u \in Udata \cap Alloc : u \notin live1 /\ u \notin finalized}
           tm    == tmudata \cup (sep \cap HasGC)
           more  == tm \cup UNION {Children(u) : u \in tm}
           live2 == live1 \cup MarkAll(more, Alloc \ live1)
           live  == live2 \cup (Strings \cap UNION {Held(w) : w \in Weak \cap live2})
<1>1. tm \subseteq Alloc BY <1>a DEF Closed
<1>2. /\ {Main, Registry, L} \subseteq live1
      /\ live2 \subseteq Alloc /\ \A o \in live2 : Children(o) \subseteq live2
      /\ live1 \subseteq live2 /\ tm \subseteq live2
  <2>1. tmudata \subseteq tm OBVIOUS
  <2>2. live1 = FromRoots(before, S) /\ live2 = FromPending(tm, live1)
    BY Zenon DEF FromRoots, FromPending
  <2> HIDE DEF live1, more, tm, live2, IInv, Suffices
  <2> QED BY <1>1, <2>1, <2>2, LiveClosed
<1>3. /\ live \subseteq Alloc /\ live2 \subseteq live
      /\ \A o \in live : o \in live2 \/ o \in Strings
      /\ \A w \in Weak \cap live2, i \in Slots : slot[w][i] \in Strings => slot[w][i] \in live
  <2> HIDE DEF live2
  <2>1. \A w \in Weak \cap live2 : Held(w) \subseteq Alloc
    <3>1. \A w \in Weak \cap live2, i \in Slots : slot[w][i] \in ND \cup {Nil}
      BY <1>2, <1>a DEF Closed
    <3> QED BY <3>1, <1>a DEF Held
  <2>2. live \subseteq Alloc BY <1>2, <2>1
  <2>3. \A w \in Weak \cap live2, i \in Slots : slot[w][i] \in Strings => slot[w][i] \in live
    BY DEF Held, Strings
  <2> QED BY <2>2, <2>3
<1>s. /\ sep \subseteq Udata /\ tm \subseteq HasGC
      /\ \A u \in Udata \cap Alloc : u \notin live1 => u \in finalized \cup sep
  BY DEF TypeOK
<1>f. /\ marked' = [o \in Obj |->
                     IF o \notin live THEN Flip(marked[o])
                     ELSE IF o \in Strings \cup Threads \cup Weak \/ IsOpen(o)
                          THEN "gray" ELSE "black"]
      /\ finalized' = finalized \cup sep
      /\ tmudata' = tm
      /\ \E keys \in SUBSET Weak :
          slot' = [w \in Obj |-> [i \in Slots |->
                     IF w \in Weak \cap live2 /\ slot[w][i] # Nil
                        /\ Cleared(slot[w][i], w \in keys, live2, finalized \cup sep)
                     THEN Nil ELSE slot[w][i]]]
      /\ gray' = {} /\ grayagain' = {} /\ weak' = {}
      /\ unswept' = {o \in Alloc \ tm : ~IsOpen(o)}
      /\ gcstate' = "sweepstring"
      /\ UNCHANGED <<finalizing, openat, L>>
  <2>1. EndMark(sep, tm, live2, live) BY DEF FinishMark
  <2> HIDE DEF live1, sep, tm, more, live2, live
  <2> QED BY <2>1 DEF EndMark
<1> HIDE DEF live1, sep, tm, more, live2, live
<1>g. \A o \in Obj :
        /\ marked'[o] \in {"free", "white", "dead", "gray", "black"}
        /\ o \in live => marked'[o] \in {"gray", "black"}
        /\ o \in live /\ IsOpen(o) => marked'[o] = "gray"
        /\ o \notin live => marked'[o] = IF marked[o] = "free" THEN "free" ELSE "dead"
  BY <1>a, <1>f DEF Flip
<1>h. /\ slot' \in [Obj -> [Slots -> Obj \cup {Nil}]]
      /\ \A o \in Obj, i \in Slots :
           /\ slot'[o][i] = slot[o][i] \/ slot'[o][i] = Nil
           /\ o \notin Weak => slot'[o][i] = slot[o][i]
           /\ o \in Weak \cap live2 => slot'[o][i] \in Strings \cup live2 \cup {Nil}
  <2>1. PICK keys \in SUBSET Weak :
          slot' = [w \in Obj |-> [i \in Slots |->
                     IF w \in Weak \cap live2 /\ slot[w][i] # Nil
                        /\ Cleared(slot[w][i], w \in keys, live2, finalized \cup sep)
                     THEN Nil ELSE slot[w][i]]]
    BY <1>f
  <2>2. slot \in [Obj -> [Slots -> Obj \cup {Nil}]] BY DEF TypeOK
  <2>3. slot' \in [Obj -> [Slots -> Obj \cup {Nil}]] BY <2>1, <2>2
  <2>4. ASSUME NEW o \in Obj, NEW i \in Slots
        PROVE  /\ slot'[o][i] = slot[o][i] \/ slot'[o][i] = Nil
               /\ o \notin Weak => slot'[o][i] = slot[o][i]
               /\ o \in Weak \cap live2 => slot'[o][i] \in Strings \cup live2 \cup {Nil}
    <3>1. slot'[o][i] = IF o \in Weak \cap live2 /\ slot[o][i] # Nil
                           /\ Cleared(slot[o][i], o \in keys, live2, finalized \cup sep)
                        THEN Nil ELSE slot[o][i]
      BY <2>1
    <3>2. CASE slot[o][i] \in Strings \cup live2 \cup {Nil} BY <3>1, <3>2
    <3>3. CASE slot[o][i] \notin Strings \cup live2 \cup {Nil}
      <4>1. Cleared(slot[o][i], o \in keys, live2, finalized \cup sep)
        BY <3>3 DEF Cleared
      <4> QED BY <3>1, <3>3, <4>1
    <3> QED BY <3>2, <3>3
  <2> QED BY <2>3, <2>4
<1>n. ND' = live
  <2>1. \A o \in Obj : o \in ND' <=> o \in live BY <1>g DEF ND
  <2>2. live \subseteq Obj BY <1>a, <1>3
  <2> QED BY <2>1, <2>2 DEF ND
<1>o. /\ \A w \in Upvals : openat[w] # Nil =>
           /\ openat[w][1] \in Threads /\ openat[w][2] \in Slots /\ openat[w][1] \in Obj
           /\ openat[w][1] \notin Weak \cup Upvals \cup Udata
      /\ Upvals \subseteq Obj
  BY KindsDisjoint DEF TypeOK, Threads, Upvals
<1>11. TypeOK'
  <2>1. marked' \in [Obj -> {"free", "white", "dead", "gray", "black"}]
    BY <1>f, <1>g
  <2>2. unswept' \subseteq Obj BY <1>a, <1>f
  <2> QED BY <1>f, <1>h, <1>s, <2>1, <2>2 DEF TypeOK
<1>12. Shape'
  <2>1. \A o \in Obj : marked'[o] = "free" => marked[o] = "free" BY <1>g
  <2>2. \A o \in Obj : marked[o] = "free" => marked'[o] = "free"
    <3>1. \A o \in Obj : marked[o] = "free" => o \notin live BY <1>3 DEF Alloc
    <3> QED BY <1>g, <3>1
  <2>3. Nil \notin Upvals BY DEF Upvals
  <2>4. \A o \in Obj, i \in Slots :
          /\ (marked'[o] = "free" \/ o \in Strings) => slot'[o][i] = Nil
          /\ o \in Udata => slot'[o][i] \in Tables \cup {Nil}
          /\ o \notin Closures => slot'[o][i] \notin Upvals
    BY <1>h, <2>1, <2>3 DEF Shape
  <2>5. \A w \in Upvals : openat[w] # Nil => marked'[w] \notin {"free", "black"}
    BY <1>g, <1>o DEF Shape, IsOpen
  <2>6. \A w \in Upvals : openat[w] # Nil =>
          marked'[openat[w][1]] # "free" /\ \A i \in Slots : slot'[w][i] = Nil
    BY <1>h, <1>o, <2>1 DEF Shape
  <2> QED BY <1>f, <2>4, <2>5, <2>6 DEF Shape
<1>13. Closed'
  <2>1. {Main, Registry, L} \subseteq live BY <1>2, <1>3
  <2>2. tm \subseteq live BY <1>2, <1>3
  <2>3. finalizing \subseteq live
    <3>1. Main \in live2 BY <1>2
    <3> QED BY <1>2, <1>3, <3>1, ChildrenInND
  <2>4. ASSUME NEW o \in live, NEW i \in Slots
        PROVE  slot'[o][i] \in live \cup {Nil}
    <3>0. o \in Obj BY <1>a, <1>3
    <3>1. CASE o \in Strings
      BY <1>h, <3>0, <3>1 DEF Shape
    <3>2. CASE o \in Weak \cap live2
      <4>1. slot'[o][i] \in Strings \cup live2 \cup {Nil} BY <1>h, <3>0, <3>2
      <4>2. slot'[o][i] = slot[o][i] \/ slot'[o][i] = Nil BY <1>h, <3>0
      <4> QED BY <1>3, <3>2, <4>1, <4>2
    <3>3. CASE o \in Upvals
      <4>1. o \in live2 /\ o \notin Weak BY <1>3, <3>0, <3>3, KindsDisjoint
      <4>2. CASE openat[o] # Nil BY <1>h, <3>0, <3>3, <4>2 DEF Shape
      <4>3. CASE openat[o] = Nil
        <5>1. slot[o][i] \in Children(o) \cup {Nil}
          BY <3>3, <4>1, <4>3 DEF Children, Values, Held, IsOpen
        <5> QED BY <1>2, <1>3, <1>h, <3>0, <4>1, <5>1
      <4> QED BY <4>2, <4>3
    <3>4. CASE o \in live2 /\ o \notin Weak \cup Upvals
      <4>1. slot[o][i] \in Children(o) \cup {Nil} BY <3>0, <3>4, ChildrenInND
      <4> QED BY <1>2, <1>3, <1>h, <3>0, <3>4, <4>1
    <3> QED BY <1>3, <3>1, <3>2, <3>3, <3>4
  <2>5. ASSUME NEW u \in Upvals, u \in live, openat[u] # Nil
        PROVE  slot'[openat[u][1]][openat[u][2]] \in live \cup {Nil}
    <3>1. u \in live2 BY <1>3, <1>o, <2>5, KindsDisjoint
    <3>2. slot[openat[u][1]][openat[u][2]] \in Children(u) \cup {Nil}
      BY <2>5, ChildrenInND
    <3>3. slot'[openat[u][1]][openat[u][2]] = slot[openat[u][1]][openat[u][2]]
      BY <1>h, <1>o, <2>5
    <3> QED BY <1>2, <1>3, <3>1, <3>2, <3>3
  <2>6. gcstate' = "sweepstring" /\ tmudata' = tm /\ finalizing' = finalizing
        /\ openat' = openat /\ L' = L
    BY <1>f
  <2> QED BY <1>n, <2>1, <2>2, <2>3, <2>4, <2>5, <2>6 DEF Closed
<1>14. Phase'
  <2>1. ASSUME NEW u \in Udata, marked'[u] = "dead" PROVE u \in finalized'
    <3>1. u \in Obj BY DEF Udata
    <3>2. u \in Alloc /\ u \notin live1 BY <1>2, <1>3, <1>g, <2>1, <3>1 DEF Alloc
    <3> QED BY <1>f, <1>s, <3>2
  <2>2. gcstate' = "sweepstring" BY <1>f
  <2> QED BY <2>1, <2>2 DEF Phase
<1>15. Marking' BY <1>f DEF Marking
<1>16. SweepLeft'
  <2>1. \A o \in Obj : o \in Alloc' <=> o \in Alloc
    BY <1>3, <1>g DEF Alloc
  <2>2. unswept' \subseteq Alloc' BY <1>f, <2>1 DEF Alloc
  <2>3. \A u \in Upvals : openat[u] # Nil => u \notin unswept' BY <1>f DEF IsOpen
  <2>4. ASSUME NEW o \in Obj
        PROVE  \/ marked'[o] \in {"free", "white"}
               \/ o \in unswept' \cup tm
               \/ o \in Upvals /\ openat[o] # Nil /\ openat[o][1] \in unswept'
    <3>1. CASE o \notin Alloc
      <4>1. o \notin live /\ marked[o] = "free" BY <1>3, <3>1 DEF Alloc
      <4> QED BY <1>g, <4>1
    <3>2. CASE o \in Alloc /\ ~IsOpen(o) BY <1>f, <3>2
    <3>3. CASE IsOpen(o)
      <4>1. o \in Upvals /\ openat[o] # Nil /\ openat[o][1] \in Alloc
        BY <1>o, <3>3 DEF IsOpen, Shape, Alloc
      <4>2. openat[o][1] \notin tm BY <1>o, <1>s, <4>1 DEF HasGC, Udata
      <4>3. ~IsOpen(openat[o][1]) BY <1>o, <4>1 DEF IsOpen
      <4> QED BY <1>f, <4>1, <4>2, <4>3
    <3> QED BY <3>1, <3>2, <3>3
  <2> QED BY <1>f, <2>2, <2>3, <2>4 DEF SweepLeft
<1> QED BY <1>11, <1>12, <1>13, <1>14, <1>15, <1>16

\* At the end of an incremental mark phase all that can be reached is marked
\* by atomic().
LEMMA AtomicSuffices ==
  ASSUME IInv, Atomic
  PROVE  /\ gcstate = "propagate"
         /\ \E before \in SUBSET Obj : \E S : FinishMark(before, S) /\ Suffices(before, S)
<1> DEFINE again == grayagain \cup weak \cup {u \in Upvals : IsOpen(u) /\ marked[u] = "gray"}
           S == {L} \cup UNION {Children(o) : o \in again}
           before == Alloc \ White
<1> USE RootAssumption, NilAssumption DEF IInv
<1>1. gcstate = "propagate" /\ gray = {} /\ FinishMark(before, S) BY DEF Atomic
<1>2. /\ ND = Alloc /\ ND \subseteq Obj
      /\ \A o \in Obj : o \in before <=> marked[o] \in {"gray", "black"}
  BY <1>1 DEF Phase, ND, Alloc, White, TypeOK
<1>3. /\ MarkAll(S, Alloc \ before) \subseteq Alloc \ before
      /\ S \cap (Alloc \ before) \subseteq MarkAll(S, Alloc \ before)
      /\ \A o \in Alloc : Children(o) \subseteq Alloc
  <2>1. before \in SUBSET Obj /\ Alloc \in SUBSET Obj BY DEF Alloc
  <2>2. \A o \in Alloc : Children(o) \subseteq Alloc BY <1>2, ChildrenInND
  <2> HIDE DEF S, before
  <2> QED BY <2>1, <2>2, MarkAllFacts
<1>4. ASSUME NEW o \in before
      PROVE  Children(o) \subseteq before \cup MarkAll(S, Alloc \ before)
  <2>0. o \in Obj /\ o \in Alloc BY DEF Alloc
  <2>1. CASE o \in again
    <3>1. Children(o) \subseteq S BY <2>1
    <3> QED BY <1>3, <2>0, <3>1
  <2>2. CASE marked[o] = "black"
    <3>1. o \notin Threads \cup Weak /\ \A i \in Slots : slot[o][i] \notin White
      BY <1>1, <2>0, <2>2 DEF Marking
    <3>2. ~IsOpen(o) BY <2>2 DEF Shape, IsOpen
    <3>3. o # Main BY <3>1 DEF Threads
    <3>4. Children(o) = Held(o) BY <3>1, <3>2, <3>3 DEF Children, Values
    <3>5. Children(o) \cap White = {} BY <3>1, <3>4 DEF Held
    <3> QED BY <1>3, <2>0, <3>5
  <2>3. CASE o \in Strings /\ o \notin again
    <3>1. o # Main /\ o \notin Weak /\ ~IsOpen(o)
      BY <2>0, <2>3, KindsDisjoint DEF Threads, IsOpen
    <3>2. \A i \in Slots : slot[o][i] = Nil BY <2>0, <2>3 DEF Shape
    <3> QED BY <3>1, <3>2 DEF Children, Values, Held
  <2>4. marked[o] = "gray" => o \in again \/ o \in Strings
    BY <1>1, <2>0 DEF Marking, IsOpen
  <2>5. marked[o] \in {"gray", "black"} BY <1>2, <2>0
  <2> QED BY <2>1, <2>2, <2>3, <2>4, <2>5
<1>5. {Main, Registry, L} \subseteq before \cup MarkAll(S, Alloc \ before)
  <2>1. Main \in before /\ Registry \in before BY <1>1, <1>2 DEF Marking
  <2>2. L \in Alloc /\ L \in S BY <1>1, <1>2 DEF Closed
  <2> QED BY <1>3, <2>1, <2>2
<1>6. before \subseteq Alloc /\ before \in SUBSET Obj BY DEF Alloc
<1> HIDE DEF before, S
<1>7. Suffices(before, S) BY <1>4, <1>5, <1>6 DEF Suffices
<1> QED BY <1>1, <1>6, <1>7

\* atomic() keeps the invariant.
LEMMA AtomicInv ==
  ASSUME IInv, Atomic
  PROVE  IInv'
BY AtomicSuffices, FinishMarkInv

\* So it is by luaC_fullgc, which starts from nothing but the userdata that
\* wait for their finalizer.
LEMMA FullGCSuffices ==
  ASSUME IInv, FullGC
  PROVE  /\ gcstate \in {"pause", "propagate", "finalize"}
         /\ \E before \in SUBSET Obj : \E S : FinishMark(before, S) /\ Suffices(before, S)
<1> DEFINE S == {Main, Registry, L}
           before == tmudata \ White
<1> USE RootAssumption, NilAssumption DEF IInv
<1>1. gcstate \in {"pause", "propagate", "finalize"} /\ FinishMark(before, S) BY DEF FullGC
<1>2. ND = Alloc BY <1>1 DEF Phase, ND, Alloc
<1>3. before \subseteq Alloc /\ before \subseteq tmudata BY <1>2 DEF Closed
<1>4. before \in SUBSET Obj /\ Alloc \in SUBSET Obj BY <1>3 DEF Alloc
<1> HIDE DEF before
<1>5. S \cap (Alloc \ before) \subseteq MarkAll(S, Alloc \ before)
  <2>1. \A o \in Alloc : Children(o) \subseteq Alloc BY <1>2, ChildrenInND
  <2> HIDE DEF S
  <2> QED BY <2>1, <1>4, MarkAllFacts
<1>6. {Main, Registry, L} \subseteq before \cup MarkAll(S, Alloc \ before)
  <2>1. {Main, Registry, L} \subseteq Alloc BY <1>1, <1>2 DEF Closed
  <2> QED BY <1>5, <2>1
<1> HIDE DEF S
<1>7. Suffices(before, S) BY <1>3, <1>6 DEF Suffices
<1> QED BY <1>1, <1>4, <1>7

\* luaC_fullgc keeps the invariant.
LEMMA FullGCInv ==
  ASSUME IInv, FullGC
  PROVE  IInv'
BY FullGCSuffices, FinishMarkInv

\* Sweeping an object, with the open upvalues of a thread, keeps the invariant.
LEMMA SweepInv ==
  ASSUME IInv, NEW o \in Obj, Sweep(o)
  PROVE  IInv'
<1> DEFINE swept  == {o} \cup OpenOn(o)
           freed  == {p \in swept : IsDead(p)}
           closed == IF o \in freed THEN OpenOn(o) \ freed ELSE {}
<1> USE RootAssumption, NilAssumption DEF IInv
<1>a. /\ gcstate \in {"sweepstring", "sweep"} /\ o \in unswept
      /\ marked' = [p \in Obj |-> IF p \in freed THEN "free"
                                  ELSE IF p \in swept THEN "white" ELSE marked[p]]
      /\ slot' = [p \in Obj |->
                    IF p \in freed THEN Empty
                    ELSE IF p \in closed
                         THEN [Empty EXCEPT ![openat[p][2]] = slot[o][openat[p][2]]]
                    ELSE slot[p]]
      /\ openat' = [p \in Upvals |-> IF p \in freed \cup closed THEN Nil ELSE openat[p]]
      /\ finalized' = finalized \ freed
      /\ unswept' = unswept \ {o}
      /\ UNCHANGED <<gcstate, lists, tmudata, finalizing, L>>
  BY DEF Sweep
<1>b. /\ swept \subseteq Obj /\ freed \subseteq swept /\ o \in swept
      /\ closed \subseteq OpenOn(o) /\ OpenOn(o) \subseteq swept
      /\ \A p \in OpenOn(o) : p \in Upvals /\ openat[p] # Nil /\ openat[p][1] = o
      /\ \A p \in Upvals : openat[p] # Nil /\ openat[p][1] = o => p \in OpenOn(o)
      /\ \A p \in closed : o \in freed /\ p \notin freed
      /\ \A p \in OpenOn(o) : o \in freed => p \in freed \cup closed
      /\ \A p \in swept : p = o \/ p \in OpenOn(o)
      /\ \A p \in swept : p \in freed <=> marked[p] = "dead"
  BY DEF OpenOn, Upvals, IsDead
<1>c. /\ Upvals \subseteq Obj
      /\ \A w \in Upvals : openat[w] # Nil =>
           /\ openat[w][1] \in Threads /\ openat[w][2] \in Slots /\ openat[w][1] \in Obj
           /\ openat[w][1] \notin Upvals \cup Udata \cup Closures \cup Strings
           /\ marked[w] \notin {"free", "black"} /\ marked[openat[w][1]] # "free"
           /\ \A i \in Slots : slot[w][i] = Nil
  BY KindsDisjoint DEF Upvals, Threads, TypeOK, Shape
<1>d. marked[o] # "free" /\ \A p \in swept : marked[p] # "free"
  BY <1>a, <1>b, <1>c DEF SweepLeft, Alloc
<1> HIDE DEF swept, freed, closed
<1>m. \A p \in Obj : marked'[p] = IF p \in freed THEN "free"
                                  ELSE IF p \in swept THEN "white" ELSE marked[p]
  BY <1>a
<1>n. /\ \A p \in Obj : p \in ND' <=> p \in ND
      /\ ND' = ND /\ ND \subseteq Obj /\ \A p \in freed : p \notin ND
  <2>1. \A p \in Obj : p \in ND' <=> p \in ND BY <1>b, <1>d, <1>m DEF ND
  <2>2. \A p \in freed : p \notin ND BY <1>b DEF ND
  <2> QED BY <2>1, <2>2 DEF ND
<1>s. \A p \in Obj, i \in Slots :
        /\ p \in freed => slot'[p][i] = Nil
        /\ p \in closed => slot'[p][i] = (IF i = openat[p][2] THEN slot[o][i] ELSE Nil)
        /\ p \notin freed \cup closed => slot'[p][i] = slot[p][i]
  BY <1>a, <1>b, <1>c DEF Empty
<1>t. slot' \in [Obj -> [Slots -> Obj \cup {Nil}]]
  <2>1. slot \in [Obj -> [Slots -> Obj \cup {Nil}]] BY DEF TypeOK
  <2>2. \A p \in Obj : slot'[p] \in [Slots -> Obj \cup {Nil}]
    <3> SUFFICES ASSUME NEW p \in Obj PROVE slot'[p] \in [Slots -> Obj \cup {Nil}]
      OBVIOUS
    <3>1. CASE p \in freed BY <1>a, <3>1 DEF Empty
    <3>2. CASE p \notin freed /\ p \in closed
      <4>1. slot'[p] = [Empty EXCEPT ![openat[p][2]] = slot[o][openat[p][2]]]
        BY <1>a, <3>2
      <4>2. openat[p][2] \in Slots BY <1>b, <1>c, <3>2
      <4>3. slot[o][openat[p][2]] \in Obj \cup {Nil} BY <2>1, <4>2
      <4> QED BY <4>1, <4>2, <4>3 DEF Empty
    <3>3. CASE p \notin freed \cup closed BY <1>a, <2>1, <3>3
    <3> QED BY <3>1, <3>2, <3>3
  <2> QED BY <1>a, <2>2
<1>o. /\ openat' \in [Upvals -> (Threads \X Slots) \cup {Nil}]
      /\ \A w \in Upvals : openat'[w] # Nil =>
           /\ w \notin freed \cup closed /\ openat'[w] = openat[w] /\ openat[w] # Nil
           /\ openat[w][1] \notin freed \cup closed
      /\ \A w \in Upvals : w \notin freed \cup closed => openat'[w] = openat[w]
  <2>1. openat' \in [Upvals -> (Threads \X Slots) \cup {Nil}]
    <3>1. openat \in [Upvals -> (Threads \X Slots) \cup {Nil}] BY DEF TypeOK
    <3> QED BY <1>a, <3>1
  <2>2. \A w \in Upvals : openat'[w] = IF w \in freed \cup closed THEN Nil ELSE openat[w]
    BY <1>a
  <2>3. ASSUME NEW w \in Upvals, openat'[w] # Nil
        PROVE  openat[w][1] \notin freed \cup closed
    <3>1. w \notin freed \cup closed /\ openat[w] # Nil BY <2>2, <2>3
    <3>2. openat[w][1] # o \/ o \notin freed BY <1>b, <3>1
    <3>3. openat[w][1] \notin Upvals BY <1>c, <3>1
    <3> QED BY <1>b, <3>2, <3>3
  <2> QED BY <2>1, <2>2, <2>3
<1>1. TypeOK'
  <2>1. marked' \in [Obj -> {"free", "white", "dead", "gray", "black"}]
    BY <1>a DEF TypeOK
  <2>2. finalized' \subseteq Udata /\ unswept' \subseteq Obj BY <1>a DEF TypeOK
  <2> QED BY <1>a, <1>t, <1>o, <2>1, <2>2 DEF TypeOK
<1>2. Shape'
  <2>1. \A p \in closed : p \in Upvals /\ p \notin Strings \cup Udata
    BY <1>b, <1>c, KindsDisjoint
  <2>2. Nil \notin Upvals BY DEF Upvals
  <2>3. ASSUME NEW p \in Obj, NEW i \in Slots
        PROVE  /\ (marked'[p] = "free" \/ p \in Strings) => slot'[p][i] = Nil
               /\ p \in Udata => slot'[p][i] \in Tables \cup {Nil}
               /\ p \notin Closures => slot'[p][i] \notin Upvals
    <3>1. CASE p \in freed BY <1>s, <2>2, <3>1
    <3>2. CASE p \in closed
      <4>1. o \notin Closures BY <1>b, <1>c, <3>2
      <4>2. marked'[p] # "free" BY <1>b, <1>d, <1>m, <3>2
      <4> QED BY <1>s, <2>1, <2>2, <3>2, <4>1, <4>2 DEF Shape
    <3>3. CASE p \notin freed \cup closed
      <4>1. slot'[p][i] = slot[p][i] BY <1>s, <3>3
      <4>2. marked'[p] = "free" => marked[p] = "free" BY <1>m, <3>3
      <4> QED BY <4>1, <4>2 DEF Shape
    <3> QED BY <3>1, <3>2, <3>3
  <2>4. ASSUME NEW w \in Upvals, openat'[w] # Nil
        PROVE  /\ marked'[w] \notin {"free", "black"} /\ marked'[openat'[w][1]] # "free"
               /\ \A i \in Slots : slot'[w][i] = Nil
    <3>1. /\ w \notin freed \cup closed /\ openat'[w] = openat[w] /\ openat[w] # Nil
          /\ openat[w][1] \notin freed \cup closed
      BY <1>o, <2>4
    <3> QED BY <1>c, <1>m, <1>s, <3>1
  <2> QED BY <2>3, <2>4 DEF Shape
<1>3. Closed'
  <2>1. ASSUME NEW p \in ND, NEW i \in Slots
        PROVE  slot'[p][i] \in ND \cup {Nil}
    <3>1. p \in Obj /\ p \notin freed BY <1>n
    <3>2. CASE p \in closed
      <4>1. p \in Upvals /\ openat[p] # Nil /\ openat[p][1] = o BY <1>b, <3>2
      <4>2. slot[o][openat[p][2]] \in ND \cup {Nil} BY <4>1 DEF Closed
      <4> QED BY <1>s, <3>1, <3>2, <4>2
    <3>3. CASE p \notin closed BY <1>s, <3>1, <3>3 DEF Closed
    <3> QED BY <3>2, <3>3
  <2>2. ASSUME NEW w \in Upvals, w \in ND, openat'[w] # Nil
        PROVE  slot'[openat'[w][1]][openat'[w][2]] \in ND \cup {Nil}
    <3>1. /\ openat'[w] = openat[w] /\ openat[w] # Nil
          /\ openat[w][1] \notin freed \cup closed
      BY <1>o, <2>2
    <3>2. slot[openat[w][1]][openat[w][2]] \in ND \cup {Nil} BY <2>2, <3>1 DEF Closed
    <3> QED BY <1>c, <1>s, <3>1, <3>2
  <2> QED BY <1>a, <1>n, <2>1, <2>2 DEF Closed
<1>4. Phase'
  <2>1. ASSUME NEW u \in Udata, marked'[u] = "dead" PROVE u \in finalized'
    <3>1. u \in Obj /\ u \notin freed /\ marked[u] = "dead" BY <1>m, <2>1 DEF Udata
    <3> QED BY <1>a, <3>1 DEF Phase
  <2> QED BY <1>a, <2>1 DEF Phase
<1>5. Marking' BY <1>a DEF Marking
<1>6. SweepLeft'
  <2>1. unswept' \subseteq Alloc'
    <3> SUFFICES ASSUME NEW p \in unswept' PROVE p \in Alloc' OBVIOUS
    <3>1. p \in unswept /\ p # o /\ p \in Obj /\ marked[p] # "free"
      BY <1>a DEF SweepLeft, Alloc
    <3>2. p \notin OpenOn(o) BY <1>a, <1>b, <3>1 DEF SweepLeft
    <3> QED BY <1>b, <1>m, <3>1, <3>2 DEF Alloc
  <2>2. \A u \in Upvals : openat'[u] # Nil => u \notin unswept'
    BY <1>a, <1>o DEF SweepLeft
  <2>3. ASSUME NEW p \in Obj
        PROVE  \/ marked'[p] \in {"free", "white"}
               \/ p \in unswept' \cup tmudata
               \/ p \in Upvals /\ openat'[p] # Nil /\ openat'[p][1] \in unswept'
    <3>1. CASE p \in swept BY <1>m, <3>1
    <3>2. CASE p \notin swept
      <4>1. marked'[p] = marked[p] /\ p # o /\ p \notin freed \cup closed /\ p \notin OpenOn(o)
        BY <1>b, <1>m, <3>2
      <4>2. CASE p \in Upvals /\ openat[p] # Nil /\ openat[p][1] \in unswept
        <5>1. openat'[p] = openat[p] /\ openat[p][1] # o BY <1>b, <1>o, <4>1, <4>2
        <5> QED BY <1>a, <4>2, <5>1
      <4> QED BY <1>a, <4>1, <4>2 DEF SweepLeft
    <3> QED BY <3>1, <3>2
  <2> QED BY <1>a, <2>1, <2>2, <2>3 DEF SweepLeft
<1> QED BY <1>1, <1>2, <1>3, <1>4, <1>5, <1>6

\* The ends of the two sweeps keep the invariant.
LEMMA SweepEndsInv ==
  ASSUME IInv, SweepEnds
  PROVE  IInv'
<1> USE DEF IInv, SweepEnds
<1>1. TypeOK' BY DEF TypeOK
<1>2. Shape' BY DEF Shape
<1>3. Closed' BY DEF Closed, ND
<1>4. Phase'
  <2>1. ASSUME gcstate = "sweep", unswept = {}, NEW o \in Obj
        PROVE  marked[o] # "dead" /\ (marked[o] \in {"free", "white"} \/ o \in tmudata)
    <3>1. marked[o] \in {"free", "white"} \/ o \in tmudata BY <2>1 DEF SweepLeft
    <3> QED BY <3>1 DEF Closed, ND
  <2> QED BY <2>1 DEF Phase
<1>5. Marking' BY DEF Marking
<1>6. SweepLeft' BY DEF SweepLeft, Alloc
<1> QED BY <1>1, <1>2, <1>3, <1>4, <1>5, <1>6

\* GCTM keeps the invariant.
LEMMA GCTMInv ==
  ASSUME IInv, NEW u \in Obj, GCTM(u)
  PROVE  IInv'
<1> USE DEF IInv, GCTM
<1>1. u \in ND /\ marked[u] \notin {"free", "dead"} BY DEF Closed, ND
<1>2. u \in HasGC /\ u \notin Upvals
  BY KindsDisjoint DEF TypeOK, HasGC, Udata
<1>3. TypeOK' BY <1>2 DEF TypeOK
<1>m. \A p \in Obj : marked'[p] = IF p = u THEN "white" ELSE marked[p] BY DEF TypeOK
<1>n. ND' = ND BY <1>1, <1>m DEF ND
<1>4. Shape'
  <2>1. \A w \in Upvals : openat[w] # Nil => openat[w][1] \in Obj BY DEF TypeOK, Threads
  <2>2. Upvals \subseteq Obj BY DEF Upvals
  <2> QED BY <1>1, <1>2, <1>m, <2>1, <2>2 DEF Shape
<1>5. Closed' BY <1>1, <1>n DEF Closed
<1>6. Phase' BY <1>1, <1>m DEF Phase, Udata
<1>7. Marking' BY DEF Marking
<1>8. SweepLeft' BY DEF SweepLeft
<1> QED BY <1>3, <1>4, <1>5, <1>6, <1>7, <1>8

\* The end of a cycle keeps the invariant.
LEMMA CycleEndsInv ==
  ASSUME IInv, CycleEnds
  PROVE  IInv'
<1> USE DEF IInv, CycleEnds
<1>1. TypeOK' BY DEF TypeOK
<1>2. Shape' BY DEF Shape
<1>3. Closed' BY DEF Closed, ND
<1>4. Phase' BY DEF Phase
<1>5. Marking' BY DEF Marking
<1>6. SweepLeft' BY DEF SweepLeft
<1> QED BY <1>1, <1>2, <1>3, <1>4, <1>5, <1>6

\* lua_close, up to the finalizers, keeps the invariant.
LEMMA CloseInv ==
  ASSUME IInv, Close
  PROVE  IInv'
<1> USE RootAssumption, NilAssumption DEF IInv, Close
<1>a. Main \in Threads /\ Main \notin Upvals \cup Udata \cup Strings
  BY KindsDisjoint DEF Threads
<1>b. HasGC \subseteq Udata /\ Udata \subseteq Obj BY DEF HasGC, Udata
<1>1. TypeOK' BY <1>a, <1>b DEF TypeOK, Empty
<1>s. \A p \in Obj, i \in Slots : slot'[p][i] = IF p = Main THEN Nil ELSE slot[p][i]
  BY DEF TypeOK, Empty
<1>2. Shape' BY <1>a, <1>s DEF Shape, Upvals
<1>3. Closed'
  <2>1. ND' = ND /\ ND \subseteq Obj BY DEF ND
  <2>2. tmudata' \subseteq ND
    <3>1. \A u \in HasGC \cap Alloc : u \notin finalized => u \in ND
      BY <1>b DEF Phase, Alloc, ND
    <3> QED BY <3>1 DEF Closed
  <2>3. \A w \in Upvals : openat[w] # Nil =>
          openat[w][1] \in Obj /\ openat[w][1] # Main /\ openat[w][2] \in Slots
    BY DEF TypeOK, Threads, OpenOn
  <2> QED BY <1>s, <2>1, <2>2, <2>3 DEF Closed
<1>4. Phase' BY DEF Phase
<1>5. Marking' BY DEF Marking
<1>6. SweepLeft' BY DEF SweepLeft
<1> QED BY <1>1, <1>2, <1>3, <1>4, <1>5, <1>6

\* luaC_freeall keeps the invariant.
LEMMA FreeAllInv ==
  ASSUME IInv, FreeAll
  PROVE  IInv'
<1> USE NilAssumption DEF IInv, FreeAll
<1>1. TypeOK' BY DEF TypeOK, Empty
<1>2. Shape' BY DEF Shape, Empty, Upvals
<1>3. Closed' BY DEF Closed, ND
<1>4. Phase' BY DEF Phase, Udata
<1>5. Marking' BY DEF Marking
<1>6. SweepLeft' BY DEF SweepLeft
<1> QED BY <1>1, <1>2, <1>3, <1>4, <1>5, <1>6
-----------------------------------------------------------------------------
(* The theorems.                                                           *)

\* Every step of the program keeps the invariant.
LEMMA MutateInv ==
  ASSUME IInv, gcstate # "closed", Mutate
  PROVE  IInv'
<1>1. CASE \E o \in Obj, i \in Slots : New(o, i) \/ Intern(o, i) \/ CloseUpval(o, i)
  BY <1>1, NewInv, InternInv, CloseUpvalInv
<1>2. CASE \E o \in Accessible \ Strings, v \in (Accessible \ Upvals) \cup {Nil},
              i \in Slots : Store(o, i, v)
  BY <1>2, StoreInv
<1>3. CASE \E th \in Accessible \cap Threads : Switch(th)
  BY <1>3, SwitchInv
<1>4. CASE \E c \in Closures, u \in Upvals, i, j \in Slots : Capture(c, u, i, j)
  BY <1>4, CaptureInv
<1>5. CASE \E u \in Udata : FinalizerReturns(u)
  BY <1>5, FinalizerReturnsInv
<1> QED BY <1>1, <1>2, <1>3, <1>4, <1>5 DEF Mutate

\* Every step of the collector keeps the invariant.
LEMMA CollectInv ==
  ASSUME IInv, Collect
  PROVE  IInv'
BY MarkRootInv, AtomicInv, SweepEndsInv, CycleEndsInv, PropagateInv, SweepInv, GCTMInv
   DEF Collect

\* A stuttering step keeps the invariant.
LEMMA StutterInv ==
  ASSUME IInv, UNCHANGED vars
  PROVE  IInv'
<1> USE DEF IInv, vars
<1>1. TypeOK' BY DEF TypeOK
<1>2. Shape' BY DEF Shape
<1>3. Closed' BY DEF Closed, ND
<1>4. Phase' BY DEF Phase
<1>5. Marking' BY DEF Marking, White
<1>6. SweepLeft' BY DEF SweepLeft, Alloc
<1> QED BY <1>1, <1>2, <1>3, <1>4, <1>5, <1>6

\* The invariant is inductive.
LEMMA NextInv == IInv /\ [Next]_vars => IInv'
<1> SUFFICES ASSUME IInv, [Next]_vars PROVE IInv' OBVIOUS
<1>1. CASE gcstate # "closed" /\ Mutate BY <1>1, MutateInv
<1>2. CASE Collect BY <1>2, CollectInv
<1>3. CASE FullGC BY <1>3, FullGCInv
<1>4. CASE Close BY <1>4, CloseInv
<1>5. CASE FreeAll BY <1>5, FreeAllInv
<1>6. CASE UNCHANGED vars BY <1>6, StutterInv
<1> QED BY <1>1, <1>2, <1>3, <1>4, <1>5, <1>6 DEF Next

\* The inductive invariant holds in every state of every run: what is neither
\* free nor condemned refers to nothing that is, and each phase of lgc.c finds
\* the colours the phase before promised it.
THEOREM Invariance == Spec => []IInv
BY InitInv, NextInv, PTL DEF Spec

\* luaC_* keep the types of the collector's variables.
THEOREM TypeCorrect == Spec => []TypeOK
<1>1. IInv => TypeOK BY DEF IInv
<1> QED BY <1>1, Invariance, PTL

\* No object the program can reach is ever freed or condemned by a mark phase:
\* for every heap, every interleaving of program and collector.
THEOREM LiveKeptCorrect == Spec => []LiveKept
BY InvLiveKept, Invariance, PTL

\* The write barriers keep a black object from referring to a white one.
THEOREM TriColourCorrect == Spec => []TriColour
<1>1. IInv => TriColour
  <2> SUFFICES ASSUME IInv, gcstate = "propagate", NEW o \in Obj, marked[o] = "black"
               PROVE  Children(o) \cap White = {}
    BY DEF TriColour
  <2>1. o \notin Threads \cup Weak /\ \A i \in Slots : slot[o][i] \notin White
    BY DEF IInv, Marking
  <2>2. ~IsOpen(o) BY DEF IInv, Shape, IsOpen
  <2>3. o # Main BY <2>1, RootAssumption DEF Threads
  <2> QED BY <2>1, <2>2, <2>3 DEF Children, Values, Held
<1> QED BY <1>1, Invariance, PTL

\* A gray object is on exactly one of the lists that share gclist.
THEOREM GrayListedCorrect == Spec => []GrayListed
<1>1. IInv => GrayListed
  <2> SUFFICES ASSUME IInv, gcstate = "propagate" PROVE GrayListed BY DEF GrayListed
  <2>1. \A o \in Queued : o \in Obj /\ o \notin Strings \cup Upvals
    BY KindsDisjoint DEF Queued, Tables, Closures, Threads
  <2> QED BY <2>1 DEF IInv, Marking, GrayListed
<1> QED BY <1>1, Invariance, PTL

\* Between two cycles every object is of the current white, as the assertions
\* of luaC_barrierf and luaC_barrierback need it.
THEOREM WhiteCorrect == Spec => []WhiteBetweenCycles
<1>1. IInv => WhiteBetweenCycles BY DEF IInv, Phase, WhiteBetweenCycles, Alloc
<1> QED BY <1>1, Invariance, PTL

\* From the invariant no step frees a userdata ahead of its finalizer.
LEMMA FinalizeFirstStep == IInv /\ [Next]_vars => [FinalizeFirst]_vars
<1> SUFFICES ASSUME IInv, Next, NEW u \in HasGC
             PROVE  /\ (marked[u] # "free" /\ marked'[u] = "free" /\ gcstate # "closing")
                         => u \in finalized /\ u \notin tmudata \cup finalizing
                    /\ u \in tmudata' \ tmudata => u \notin finalized
                    /\ u \in tmudata \ tmudata' => u \in finalizing'
  BY DEF FinalizeFirst
<1> USE DEF IInv
<1>a. u \in Obj /\ u \in Udata /\ u \notin Upvals \cup Strings \cup Closures
  BY KindsDisjoint DEF HasGC, Udata
<1>k. ASSUME tmudata' = tmudata, marked'[u] = "free" => marked[u] = "free"
      PROVE  /\ (marked[u] # "free" /\ marked'[u] = "free" /\ gcstate # "closing")
                  => u \in finalized /\ u \notin tmudata \cup finalizing
             /\ u \in tmudata' \ tmudata => u \notin finalized
             /\ u \in tmudata \ tmudata' => u \in finalizing'
  BY <1>k
<1>1. CASE \E o \in Obj, i \in Slots : New(o, i) \/ Intern(o, i) \/ CloseUpval(o, i)
  <2>1. PICK o \in Obj, i \in Slots : New(o, i) \/ Intern(o, i) \/ CloseUpval(o, i)
    BY <1>1
  <2>2. CASE New(o, i) BY <1>a, <1>k, <2>2 DEF New, TypeOK
  <2>3. CASE Intern(o, i) BY <1>a, <1>k, <2>3 DEF Intern, TypeOK
  <2>4. CASE CloseUpval(o, i)
    <3>1. o # u /\ tmudata' = tmudata BY <1>a, <2>4 DEF CloseUpval
    <3>2. marked'[u] = marked[u] \/ marked'[u] \in {"white", "gray", "black"}
      BY <1>a, <2>4, <3>1 DEF CloseUpval, LinkUpval, Mark, Paint, TypeOK
    <3> QED BY <1>k, <3>1, <3>2
  <2> QED BY <2>1, <2>2, <2>3, <2>4
<1>2. CASE \E o \in Accessible \ Strings, v \in (Accessible \ Upvals) \cup {Nil},
              i \in Slots : Store(o, i, v)
  <2>1. PICK o \in Accessible \ Strings, v \in (Accessible \ Upvals) \cup {Nil},
             i \in Slots : Store(o, i, v)
    BY <1>2
  <2>2. tmudata' = tmudata /\ Barrier(o, v) BY <2>1 DEF Store
  <2>3. marked'[u] = marked[u] \/ marked'[u] \in {"white", "gray", "black"}
    BY <1>a, <2>2 DEF Barrier, BarrierBack, BarrierForward, Mark, Paint, TypeOK
  <2> QED BY <1>k, <2>2, <2>3
<1>3. CASE \E th \in Accessible \cap Threads : Switch(th) BY <1>3, <1>k DEF Switch
<1>4. CASE \E c \in Closures, p \in Upvals, i, j \in Slots : Capture(c, p, i, j)
  <2>1. PICK c \in Closures, p \in Upvals, i, j \in Slots : Capture(c, p, i, j) BY <1>4
  <2>2. tmudata' = tmudata /\ c # u /\ p # u BY <1>a, <2>1 DEF Capture
  <2>3. marked'[u] = marked[u] BY <1>a, <2>1, <2>2 DEF Capture, TypeOK
  <2> QED BY <1>k, <2>2, <2>3
<1>5. CASE \E p \in Udata : FinalizerReturns(p) BY <1>5, <1>k DEF FinalizerReturns
<1>6. CASE MarkRoot
  BY <1>6, <1>a, <1>k DEF MarkRoot, Paint
<1>7. CASE \E o \in Obj : Propagate(o)
  BY <1>7, <1>a, <1>k DEF Propagate, Paint, TypeOK
<1>8. CASE \E before \in SUBSET Obj : \E S : FinishMark(before, S)
  <2>1. PICK before, S : FinishMark(before, S) BY <1>8
  <2>2. PICK sep \in SUBSET (Udata \ finalized) : \E live2, live :
          EndMark(sep, tmudata \cup (sep \cap HasGC), live2, live)
    <3>1. PICK live1 :
            \E sep \in {{p \in Udata \cap Alloc : p \notin live1 /\ p \notin finalized}} :
            \E live2, live : EndMark(sep, tmudata \cup (sep \cap HasGC), live2, live)
      <4>1. PICK live1 :
              \E sep \in {{p \in Udata \cap Alloc : p \notin live1 /\ p \notin finalized}} :
              \E tm \in {tmudata \cup (sep \cap HasGC)} :
              \E live2 \in {live1 \cup MarkAll(tm \cup UNION {Children(p) : p \in tm}, Alloc \ live1)} :
              \E live \in {live2 \cup (Strings \cap UNION {Held(w) : w \in Weak \cap live2})} :
                EndMark(sep, tm, live2, live)
        BY <2>1, Zenon DEF FinishMark
      <4>2. PICK sep \in {{p \in Udata \cap Alloc : p \notin live1 /\ p \notin finalized}} :
              \E tm \in {tmudata \cup (sep \cap HasGC)} : \E live2, live :
                EndMark(sep, tm, live2, live)
        BY <4>1, Zenon
      <4>3. \E live2, live : EndMark(sep, tmudata \cup (sep \cap HasGC), live2, live)
        BY <4>2, Zenon
      <4> QED BY <4>3, Zenon
    <3> QED BY <3>1
  <2>3. tmudata' \ tmudata \subseteq sep /\ tmudata \subseteq tmudata' BY <2>2 DEF EndMark
  <2>4. marked'[u] = "free" => marked[u] = "free" BY <1>a, <2>2 DEF EndMark, Flip, TypeOK
  <2> QED BY <2>3, <2>4
<1>9. CASE \E o \in Obj : Sweep(o)
  <2>1. PICK o \in Obj : Sweep(o) BY <1>9
  <2>2. tmudata' = tmudata BY <2>1 DEF Sweep
  <2>3. marked[u] # "free" /\ marked'[u] = "free" => marked[u] = "dead"
    BY <1>a, <2>1 DEF Sweep, IsDead
  <2>4. marked[u] = "dead" => u \in finalized /\ u \notin tmudata \cup finalizing
    BY <1>a DEF Phase, Closed, ND
  <2> QED BY <2>2, <2>3, <2>4
<1>10. CASE SweepEnds \/ CycleEnds BY <1>10, <1>k DEF SweepEnds, CycleEnds
<1>11. CASE \E o \in Obj : GCTM(o)
  BY <1>11, <1>a DEF GCTM, TypeOK
<1>12. CASE Close BY <1>12 DEF Close
<1>13. CASE FreeAll BY <1>13 DEF FreeAll
<1>14. CASE UNCHANGED vars BY <1>14, <1>k DEF vars
<1> QED
  <2>1. CASE Collect
    <3>1. Atomic => \E before \in SUBSET Obj : \E S : FinishMark(before, S)
      <4>1. Alloc \ White \in SUBSET Obj BY DEF Alloc
      <4> QED BY <4>1 DEF Atomic
    <3> QED BY <2>1, <3>1, <1>6, <1>7, <1>8, <1>9, <1>10, <1>11 DEF Collect
  <2>2. FullGC => \E before \in SUBSET Obj : \E S : FinishMark(before, S)
    <3>1. tmudata \ White \in SUBSET Obj BY DEF TypeOK, HasGC
    <3> QED BY <3>1 DEF FullGC
  <2> QED BY <2>1, <2>2, <1>1, <1>2, <1>3, <1>4, <1>5, <1>8, <1>12, <1>13, <1>14
      DEF Next, Mutate

\* A userdata's finalizer has been called, and is over, when its memory is
\* freed; the userdata waits for it once and no full collection loses it.
THEOREM FinalizedCorrect == Spec => FinalizedBeforeFree
BY Invariance, FinalizeFirstStep, PTL DEF Spec, FinalizedBeforeFree
-----------------------------------------------------------------------------
(* Weak tables lose only what is dying.                                    *)

\* What a weak table may lose.
Dying(x) == \/ x \notin StronglyReachable
            \/ x \in finalized
            \/ x \in Udata \ ReachablePastPending

\* A set that has the roots and is closed under some of the edges includes what
\* they reach.
LEMMA ReachWithin ==
  ASSUME TypeOK, NEW P \in SUBSET Obj, NEW X \in SUBSET Obj, Roots \subseteq X,
         \A o \in X \cap P : Children(o) \subseteq X
  PROVE  Reach(Roots, UNION {{o} \X Children(o) : o \in P}) \subseteq X
<1> DEFINE E == UNION {{o} \X Children(o) : o \in P}
<1>1. \A o \in Obj : Children(o) \subseteq Obj BY ValuesInObj DEF Children
<1>2. E \in SUBSET (Obj \X Obj) BY <1>1
<1>3. \A p, q \in Obj : p \in X /\ <<p, q>> \in E => q \in X
  <2> SUFFICES ASSUME NEW p \in Obj, NEW q \in Obj, p \in X, <<p, q>> \in E
               PROVE  q \in X
    OBVIOUS
  <2>1. p \in P /\ q \in Children(p) OBVIOUS
  <2> QED BY <2>1
<1>4. Roots \in SUBSET Obj OBVIOUS
<1> HIDE DEF E
<1>5. Reach(Roots, E) \subseteq X BY <1>2, <1>3, <1>4, ReachLeast
<1> QED BY <1>5 DEF E

\* The end of a mark phase clears no entry whose object is strongly reachable,
\* unless that is a userdata separated in an earlier cycle or in this one.
LEMMA FinishMarkClears ==
  ASSUME IInv, gcstate \in {"pause", "propagate", "finalize"},
         NEW before, NEW S, FinishMark(before, S), Suffices(before, S),
         NEW w \in Weak, NEW i \in Slots, slot[w][i] # slot'[w][i]
  PROVE  Dying(slot[w][i])
<1> USE DEF IInv
<1>1. PICK live1 \in {before \cup MarkAll(S, Alloc \ before)} :
      \E sep \in {{u \in Udata \cap Alloc : u \notin live1 /\ u \notin finalized}} :
      \E tm \in {tmudata \cup (sep \cap HasGC)} :
      \E live2 \in {live1 \cup MarkAll(tm \cup UNION {Children(u) : u \in tm}, Alloc \ live1)} :
      \E live \in {live2 \cup (Strings \cap UNION {Held(v) : v \in Weak \cap live2})} :
        EndMark(sep, tm, live2, live)
  BY Zenon DEF FinishMark
<1>2. PICK sep \in {{u \in Udata \cap Alloc : u \notin live1 /\ u \notin finalized}} :
      \E tm \in {tmudata \cup (sep \cap HasGC)} :
      \E live2 \in {live1 \cup MarkAll(tm \cup UNION {Children(u) : u \in tm}, Alloc \ live1)} :
      \E live : EndMark(sep, tm, live2, live)
  BY <1>1, Zenon
<1>3. PICK tm \in {tmudata \cup (sep \cap HasGC)} :
      \E live2 \in {live1 \cup MarkAll(tm \cup UNION {Children(u) : u \in tm}, Alloc \ live1)} :
      \E live : EndMark(sep, tm, live2, live)
  BY <1>2, Zenon
<1>4. PICK live2 \in {live1 \cup MarkAll(tm \cup UNION {Children(u) : u \in tm}, Alloc \ live1)} :
      \E live : EndMark(sep, tm, live2, live)
  BY <1>3, Zenon
<1>5. /\ live1 \subseteq Alloc /\ {Main, Registry, L} \subseteq live1
      /\ \A o \in live1 : o \in tmudata \/ Children(o) \subseteq live1
      /\ live2 \subseteq Alloc /\ live1 \subseteq live2
      /\ \A o \in live2 : Children(o) \subseteq live2
  <2>1. tmudata \subseteq tm /\ tm \subseteq Alloc
    <3>1. ND = Alloc BY DEF Phase, ND, Alloc
    <3> QED BY <3>1 DEF Closed
  <2>2. live1 = FromRoots(before, S) /\ live2 = FromPending(tm, live1)
    BY Zenon DEF FromRoots, FromPending
  <2> HIDE DEF IInv
  <2> QED BY <2>1, <2>2, LiveClosed
<1>6. Alloc \subseteq Obj /\ Roots \subseteq live1 BY <1>5 DEF Alloc, Roots
<1>7. StronglyReachable \subseteq live2
  BY <1>5, <1>6, ReachWithin DEF StronglyReachable
<1>8. ReachablePastPending \subseteq live1
  BY <1>5, <1>6, ReachWithin DEF ReachablePastPending
<1>9. PICK keys \in SUBSET Weak :
        slot' = [v \in Obj |-> [j \in Slots |->
                   IF v \in Weak \cap live2 /\ slot[v][j] # Nil
                      /\ Cleared(slot[v][j], v \in keys, live2, finalized \cup sep)
                   THEN Nil ELSE slot[v][j]]]
  BY <1>4, Zenon DEF EndMark
<1>10. Cleared(slot[w][i], w \in keys, live2, finalized \cup sep)
  <2>1. w \in Obj BY DEF Weak
  <2>2. slot'[w][i] = IF w \in Weak \cap live2 /\ slot[w][i] # Nil
                         /\ Cleared(slot[w][i], w \in keys, live2, finalized \cup sep)
                      THEN Nil ELSE slot[w][i]
    BY <1>9, <2>1
  <2> QED BY <2>2
<1>11. sep \cap live1 = {} /\ sep \subseteq Udata OBVIOUS
<1> QED BY <1>7, <1>8, <1>10, <1>11 DEF Cleared, Dying

\* No other step begins a sweep.
LEMMA WeakStep == IInv /\ [Next]_vars => [\A w \in Weak, i \in Slots :
       gcstate' = "sweepstring" /\ gcstate # gcstate' /\ slot[w][i] # slot'[w][i]
         => Dying(slot[w][i])]_vars
<1> SUFFICES ASSUME IInv, Next, gcstate' = "sweepstring", gcstate # gcstate',
                    NEW w \in Weak, NEW i \in Slots, slot[w][i] # slot'[w][i]
             PROVE  Dying(slot[w][i])
  OBVIOUS
<1>1. Atomic \/ FullGC
  <2>1. ~ Mutate
    BY DEF Mutate, New, Intern, CloseUpval, Store, Barrier, BarrierBack, BarrierForward,
           LinkUpval, Switch, Capture, FinalizerReturns
  <2>2. ~ (MarkRoot \/ SweepEnds \/ CycleEnds \/ Close \/ FreeAll)
    BY DEF MarkRoot, SweepEnds, CycleEnds, Close, FreeAll
  <2>3. ~ \E o \in Obj : Propagate(o) \/ Sweep(o) \/ GCTM(o)
    BY DEF Propagate, Sweep, GCTM
  <2> QED BY <2>1, <2>2, <2>3 DEF Next, Collect, vars
<1>2. PICK before \in SUBSET Obj : \E S : FinishMark(before, S) /\ Suffices(before, S)
  BY <1>1, AtomicSuffices, FullGCSuffices
<1>3. gcstate \in {"pause", "propagate", "finalize"}
  BY <1>1, AtomicSuffices, FullGCSuffices
<1>4. PICK S : FinishMark(before, S) /\ Suffices(before, S) BY <1>2
<1> QED BY <1>3, <1>4, FinishMarkClears

\* A weak table loses an entry at the end of a mark phase only if nothing but
\* weak references led to the object, or if it is a userdata whose life is over
\* or whose only way to the roots is a userdata that waits for its finalizer.
THEOREM WeakCorrect == Spec => WeakClearedIfDead
BY Invariance, WeakStep, PTL DEF Spec, WeakClearedIfDead, Dying
=============================================================================
