---------------------------- MODULE LuaRefProofs ----------------------------
(***************************************************************************)
(* Proofs about LuaRef, for any number of threads and LuaObjects, when the *)
(* VM has one LuaState, whose monitor then guards every luaL_ref and       *)
(* luaL_unref.                                                             *)
(***************************************************************************)
EXTENDS LuaRef, TLAPS

OneLuaState == \A s1, s2 \in State : s1 = s2

\* Slot r belongs to a call in progress.
Busy(r) == \E th \in Thread :
  \/ pc[th] = "store" /\ head[th] = r
  \/ pc[th] \in {"unref", "link", "free"} /\ ref[on[th]] = r

FreeSlots == {r \in DOMAIN t : /\ r # 0 /\ ~Busy(r)
                               /\ \A o \in Held : ref[o] # r}

\* Every LuaObject that was constructed and not finalized has its own slot.
HeldInv ==
  /\ \A o \in Held : ref[o] \in DOMAIN t /\ ref[o] # 0 /\ t[ref[o]] = val[o]
  /\ \A o1, o2 \in Held : ref[o1] = ref[o2] => o1 = o2
  /\ \A o \in Object : life[o] \in {"live", "garbage"} /\ val[o] = Nil =>
       ref[o] = LUA_REFNIL

\* X holds whatever its own members, and t[0], lead to.
Closed(X) == \A i \in X \cup {0} : t[i] \in X \cup {Nil}

\* The list reaches every free slot: there is no way round any of them.
Reaches == \A X \in SUBSET FreeSlots : Closed(X) => FreeSlots \subseteq X

\* The list comes to an end.
Ends == \E r \in FreeSlots \cup {0} : t[r] = Nil

\* The free slots point to free slots, no two to the same and at most one to
\* none: so when t[0] is nil, no free slot holds nil. The list that starts at
\* t[0] reaches them all and ends.
ListInv ==
  /\ 0 \in DOMAIN t
  /\ \A i \in FreeSlots \cup {0} : t[i] \in FreeSlots \cup {Nil}
  /\ \A i, j \in FreeSlots \cup {0} : t[i] = t[j] => i = j
  /\ Reaches
  /\ Ends

\* What a call in progress knows.
CallInv(th) ==
  /\ pc[th] \in {"ref", "pop", "grow", "store"} => life[on[th]] = "new"
  /\ pc[th] \in {"pop", "grow", "store"} => val[on[th]] # Nil
  /\ pc[th] = "pop" => head[th] = t[0] /\ head[th] # Nil
  /\ pc[th] = "grow" => t[0] = Nil
  /\ pc[th] = "store" =>
       head[th] \in Nat /\ head[th] # 0 /\ \A o \in Held : ref[o] # head[th]
  /\ pc[th] \in {"unref", "link", "free"} =>
       /\ life[on[th]] = "gone" /\ ref[on[th]] \in DOMAIN t /\ ref[on[th]] # 0
       /\ \A o \in Held : ref[o] # ref[on[th]]
  /\ pc[th] \in {"link", "free"} => head[th] = t[0]
  /\ pc[th] = "free" => t[ref[on[th]]] = t[0]

Alone == \A th1, th2 \in Thread : ~Idle(th1) /\ ~Idle(th2) => th1 = th2

IInv ==
  /\ TypeOK
  /\ Alone
  /\ \A s \in State : open[s] <=> vm = "open"
  /\ VMOutlivesCalls
  /\ vm = "open" => HeldInv /\ ListInv /\ \A th \in Thread : CallInv(th)
-----------------------------------------------------------------------------
\* The invariant holds before any call.
LEMMA InitInv == Init => IInv
<1> SUFFICES ASSUME Init PROVE IInv OBVIOUS
<1> USE ValueAssumption DEF Init, LUA_REFNIL, FREELIST_REF
<1>1. TypeOK BY DEF TypeOK
<1>2. Held = {} BY DEF Held
<1>3. HeldInv BY <1>2 DEF HeldInv
<1>4. ListInv
  <2>1. FreeSlots = {} BY DEF FreeSlots
  <2> QED BY <2>1 DEF ListInv, Reaches, Ends
<1>5. \A th \in Thread : CallInv(th) BY DEF CallInv
<1>6. Alone /\ VMOutlivesCalls BY DEF Alone, VMOutlivesCalls, Idle
<1> QED BY <1>1, <1>3, <1>4, <1>5, <1>6 DEF IInv
-----------------------------------------------------------------------------
\* A free monitor: no call is in progress at all.
LEMMA FreeMeansIdle ==
  ASSUME OneLuaState, TypeOK, NEW s \in State, Free(s)
  PROVE  /\ \A th \in Thread : pc[th] = "idle"
         /\ \A r : ~Busy(r)
BY StateAssumption DEF OneLuaState, TypeOK, Free, Holds, Idle, Busy

\* Only the thread that is in a call can be busy with a slot.
LEMMA BusyAlone ==
  ASSUME Alone, NEW th \in Thread, pc[th] # "idle"
  PROVE  /\ \A other \in Thread \ {th} : pc[other] = "idle"
         /\ \A r : Busy(r) <=> \/ pc[th] = "store" /\ head[th] = r
                               \/ pc[th] \in {"unref", "link", "free"} /\ ref[on[th]] = r
BY DEF Alone, Idle, Busy

\* A step that leaves the free slots and their links alone keeps the list.
LEMMA SameList ==
  ASSUME ListInv, FreeSlots' = FreeSlots, 0 \in DOMAIN t',
         \A i \in FreeSlots \cup {0} : t'[i] = t[i]
  PROVE  ListInv'
<1>1. Reaches'
  <2> SUFFICES ASSUME NEW X \in SUBSET FreeSlots, \A i \in X \cup {0} : t'[i] \in X \cup {Nil}
               PROVE  FreeSlots \subseteq X
    BY DEF Reaches, Closed
  <2>1. Closed(X) BY DEF Closed
  <2> QED BY <2>1 DEF ListInv, Reaches
<1>2. Ends' BY DEF ListInv, Ends
<1> QED BY <1>1, <1>2 DEF ListInv

\* A LuaObject constructor entering the monitor keeps the invariant.
LEMMA ConstructInv ==
  ASSUME IInv, OneLuaState, NEW th \in App, NEW o \in Object, NEW v \in Value \cup {Nil},
         Construct(th, o, v)
  PROVE  IInv'
<1> USE StateAssumption DEF IInv, Goto
<1>a. th \in Thread /\ StateOf[o] \in State BY DEF Thread
<1>b. /\ \A p \in Thread : pc[p] = "idle"
      /\ \A r : ~Busy(r)
  BY <1>a, FreeMeansIdle DEF Construct
<1>c. /\ life[o] = "none" /\ vm = "open"
      /\ val' = [val EXCEPT ![o] = v]
      /\ life' = [life EXCEPT ![o] = "new"]
      /\ pc' = [pc EXCEPT ![th] = "ref"]
      /\ on' = [on EXCEPT ![th] = o]
      /\ head' = [head EXCEPT ![th] = 0]
      /\ UNCHANGED <<t, ref, open, vm>>
  BY <1>a DEF Construct
<1>d. pc'[th] = "ref" /\ \A p \in Thread \ {th} : pc'[p] = "idle"
  BY <1>a, <1>b, <1>c DEF TypeOK
<1>1. TypeOK' BY <1>a, <1>c DEF TypeOK
<1>2. Alone' /\ VMOutlivesCalls' BY <1>c, <1>d DEF Alone, VMOutlivesCalls, Idle
<1>3. \A p \in Object : p \in Held' <=> p \in Held
  BY <1>c DEF Held, TypeOK
<1>4. HeldInv'
  <2>1. \A p \in Held : val'[p] = val[p] /\ p # o BY <1>c DEF Held, TypeOK
  <2>2. Held' = Held BY <1>3 DEF Held
  <2>3. \A p \in Object : life'[p] \in {"live", "garbage"} => p # o /\ life'[p] = life[p] /\ val'[p] = val[p]
    BY <1>c DEF TypeOK
  <2> QED BY <1>c, <2>1, <2>2, <2>3 DEF HeldInv
<1>5. ListInv'
  <2>1. \A r : ~Busy(r)' BY <1>d DEF Busy
  <2>2. FreeSlots' = FreeSlots BY <1>b, <1>c, <1>3, <2>1 DEF FreeSlots, Held
  <2>3. ListInv /\ 0 \in DOMAIN t' BY <1>c DEF ListInv
  <2> QED BY <1>c, <2>2, <2>3, SameList
<1>6. \A p \in Thread : CallInv(p)'
  <2>1. life'[on'[th]] = "new" BY <1>a, <1>c DEF TypeOK
  <2> QED BY <1>d, <2>1 DEF CallInv
<1> QED BY <1>c, <1>1, <1>2, <1>4, <1>5, <1>6

\* luaL_ref, reading the head of the free list, keeps the invariant.
LEMMA RefHeadInv ==
  ASSUME IInv, NEW th \in Thread, RefHead(th)
  PROVE  IInv'
<1> DEFINE o == on[th]
<1> USE ValueAssumption DEF IInv, Goto, LUA_REFNIL, FREELIST_REF
<1>a. /\ pc[th] = "ref" /\ vm = "open" /\ o \in Object /\ UNCHANGED <<t, val, on, open, vm>>
      /\ on' = on
  BY DEF RefHead, VMOutlivesCalls, Idle, TypeOK, Registered, Leave
<1>b. /\ \A p \in Thread \ {th} : pc[p] = "idle"
      /\ \A r : ~Busy(r)
  BY <1>a, BusyAlone
<1>c. HeldInv /\ ListInv /\ CallInv(th) /\ life[o] = "new" BY <1>a DEF CallInv
<1>d. 0 \in DOMAIN t /\ Get(0) = t[0] /\ t[0] \in Nat \cup {Nil}
  BY <1>c DEF ListInv, Get, FreeSlots, TypeOK
<1>1. CASE /\ val[o] = Nil
           /\ ref' = [ref EXCEPT ![o] = -1] /\ life' = [life EXCEPT ![o] = "live"]
           /\ pc' = [pc EXCEPT ![th] = "idle"] /\ head' = [head EXCEPT ![th] = 0]
  <2>0. \A p \in Thread : pc'[p] = "idle" BY <1>b, <1>1 DEF TypeOK
  <2>1. TypeOK' BY <1>a, <1>1 DEF TypeOK
  <2>2. Alone' /\ VMOutlivesCalls' BY <2>0 DEF Alone, VMOutlivesCalls, Idle
  <2>3. Held' = Held /\ \A p \in Held : ref'[p] = ref[p]
    BY <1>a, <1>1, <1>c DEF Held, TypeOK
  <2>4. HeldInv'
    <3>1. \A p \in Object : life'[p] \in {"live", "garbage"} /\ val[p] = Nil => ref'[p] = -1
      BY <1>1, <1>c DEF HeldInv, TypeOK
    <3> QED BY <1>a, <1>c, <2>3, <3>1 DEF HeldInv
  <2>5. ListInv'
    <3>1. \A r : ~Busy(r)' BY <2>0 DEF Busy
    <3>2. FreeSlots' = FreeSlots BY <1>a, <1>b, <2>3, <3>1 DEF FreeSlots
    <3> QED BY <1>a, <1>c, <1>d, <3>2, SameList
  <2>6. \A p \in Thread : CallInv(p)' BY <2>0 DEF CallInv
  <2> QED BY <1>a, <2>1, <2>2, <2>4, <2>5, <2>6
<1>2. CASE /\ val[o] # Nil /\ UNCHANGED <<life, ref>>
           /\ pc' = [pc EXCEPT ![th] = IF t[0] # Nil THEN "pop" ELSE "grow"]
           /\ head' = [head EXCEPT ![th] = IF t[0] # Nil THEN t[0] ELSE 0]
  <2>0. /\ \A p \in Thread \ {th} : pc'[p] = "idle"
        /\ pc'[th] = IF t[0] # Nil THEN "pop" ELSE "grow"
        /\ head'[th] = IF t[0] # Nil THEN t[0] ELSE 0
    BY <1>b, <1>2 DEF TypeOK
  <2>1. TypeOK' BY <1>a, <1>d, <1>2 DEF TypeOK
  <2>2. Alone' /\ VMOutlivesCalls' BY <1>a, <2>0 DEF Alone, VMOutlivesCalls, Idle
  <2>3. Held' = Held BY <1>a, <1>2 DEF Held
  <2>4. HeldInv' BY <1>a, <1>c, <1>2, <2>3 DEF HeldInv
  <2>5. ListInv'
    <3>1. \A r : ~Busy(r)' BY <2>0 DEF Busy
    <3>2. FreeSlots' = FreeSlots BY <1>a, <1>b, <1>2, <2>3, <3>1 DEF FreeSlots
    <3> QED BY <1>a, <1>c, <1>d, <3>2, SameList
  <2>6. \A p \in Thread : CallInv(p)'
    <3>1. CallInv(th)' BY <1>a, <1>c, <1>2, <2>0 DEF CallInv
    <3> QED BY <2>0, <3>1 DEF CallInv
  <2> QED BY <1>a, <2>1, <2>2, <2>4, <2>5, <2>6
<1>3. \/ /\ val[o] = Nil
         /\ ref' = [ref EXCEPT ![o] = -1] /\ life' = [life EXCEPT ![o] = "live"]
         /\ pc' = [pc EXCEPT ![th] = "idle"] /\ head' = [head EXCEPT ![th] = 0]
      \/ /\ val[o] # Nil /\ UNCHANGED <<life, ref>>
         /\ pc' = [pc EXCEPT ![th] = IF t[0] # Nil THEN "pop" ELSE "grow"]
         /\ head' = [head EXCEPT ![th] = IF t[0] # Nil THEN t[0] ELSE 0]
  BY <1>d DEF RefHead, Registered, Leave
<1> QED BY <1>1, <1>2, <1>3

\* luaL_ref, taking a free slot, keeps the invariant.
LEMMA RefPopInv ==
  ASSUME IInv, NEW th \in Thread, RefPop(th)
  PROVE  IInv'
<1> DEFINE h == head[th]
<1> USE ValueAssumption DEF IInv, Goto, FREELIST_REF
<1>a. /\ pc[th] = "pop" /\ vm = "open" /\ on' = on /\ head' = head
      /\ pc' = [pc EXCEPT ![th] = "store"]
      /\ UNCHANGED <<life, val, ref, open, vm>> /\ Set(0, Get(h))
  BY DEF RefPop, VMOutlivesCalls, Idle, TypeOK
<1>b. /\ \A p \in Thread \ {th} : pc[p] = "idle" /\ pc'[p] = "idle"
      /\ \A r : ~Busy(r)
      /\ pc'[th] = "store"
  BY <1>a, BusyAlone DEF TypeOK
<1>c. /\ HeldInv /\ ListInv /\ CallInv(th) /\ life[on[th]] = "new" /\ val[on[th]] # Nil
      /\ h = t[0] /\ h # Nil
  BY <1>a DEF CallInv
<1>d. h \in FreeSlots /\ h \in DOMAIN t /\ h # 0 /\ h \in Nat /\ 0 \in DOMAIN t
      /\ \A o \in Held : ref[o] # h
  BY <1>c DEF ListInv, FreeSlots, TypeOK
<1>e. /\ DOMAIN t' = DOMAIN t
      /\ \A i \in DOMAIN t : t'[i] = IF i = 0 THEN t[h] ELSE t[i]
      /\ t' \in [DOMAIN t -> Value \cup Nat \cup {Nil}]
  BY <1>a, <1>d DEF Set, Get, TypeOK
<1>1. TypeOK' BY <1>a, <1>e DEF TypeOK
<1>2. Alone' /\ VMOutlivesCalls' BY <1>a, <1>b DEF Alone, VMOutlivesCalls, Idle
<1>3. Held' = Held BY <1>a DEF Held
<1>4. HeldInv' BY <1>a, <1>c, <1>e, <1>3 DEF HeldInv
<1>5. ListInv'
  <2>1. \A r : Busy(r)' <=> r = h BY <1>a, <1>b DEF Busy
  <2>2. FreeSlots' = FreeSlots \ {h} BY <1>a, <1>b, <1>e, <1>3, <2>1 DEF FreeSlots
  <2>3. \A i, j \in FreeSlots \cup {0} : t[i] = t[j] => i = j BY <1>c DEF ListInv
  <2>4. \A i \in FreeSlots \cup {0} : i \in DOMAIN t /\ t[i] \in FreeSlots \cup {Nil}
    BY <1>c, <1>d DEF ListInv, FreeSlots
  <2>5. \A i \in FreeSlots \cup {0} : i # 0 => t[i] # h BY <1>c, <2>3
  <2>6. \A i \in FreeSlots' \cup {0} : t'[i] \in FreeSlots' \cup {Nil}
    BY <1>d, <1>e, <2>2, <2>4, <2>5
  <2>7. \A i, j \in FreeSlots' \cup {0} : t'[i] = t'[j] => i = j
    BY <1>d, <1>e, <2>2, <2>3, <2>4
  <2>8. Reaches'
    <3> SUFFICES ASSUME NEW X \in SUBSET (FreeSlots \ {h}),
                        \A i \in X \cup {0} : t'[i] \in X \cup {Nil}
                 PROVE  FreeSlots \ {h} \subseteq X
      BY <2>2 DEF Reaches, Closed
    <3>1. Closed(X \cup {h})
      <4>1. t[0] = h /\ t'[0] = t[h] BY <1>c, <1>d, <1>e
      <4>2. \A i \in X : t[i] = t'[i] BY <1>e, <2>4 DEF FreeSlots
      <4> QED BY <4>1, <4>2 DEF Closed
    <3>2. X \cup {h} \in SUBSET FreeSlots BY <1>d
    <3> QED BY <1>c, <3>1, <3>2 DEF ListInv, Reaches
  <2>9. Ends'
    <3>1. PICK r \in FreeSlots \cup {0} : t[r] = Nil BY <1>c DEF ListInv, Ends
    <3>2. r # 0 /\ r \in DOMAIN t BY <1>c, <2>4, <3>1
    <3>3. CASE r = h BY <1>d, <1>e, <3>1, <3>3 DEF Ends
    <3>4. CASE r # h BY <1>e, <2>2, <3>1, <3>2, <3>4 DEF Ends
    <3> QED BY <3>3, <3>4
  <2> QED BY <1>d, <1>e, <2>6, <2>7, <2>8, <2>9 DEF ListInv
<1>6. \A p \in Thread : CallInv(p)'
  <2>1. CallInv(th)' BY <1>a, <1>b, <1>c, <1>d, <1>3 DEF CallInv
  <2> QED BY <1>b, <2>1 DEF CallInv
<1> QED BY <1>a, <1>1, <1>2, <1>4, <1>5, <1>6

\* luaL_ref, choosing a slot past the end, keeps the invariant.
LEMMA RefGrowInv ==
  ASSUME IInv, NEW th \in Thread, RefGrow(th)
  PROVE  IInv'
<1> USE ValueAssumption DEF IInv, Goto
<1>a. PICK n \in Borders :
        /\ pc[th] = "grow" /\ vm = "open" /\ on' = on
        /\ pc' = [pc EXCEPT ![th] = "store"] /\ head' = [head EXCEPT ![th] = n + 1]
        /\ UNCHANGED <<t, life, val, ref, open, vm>>
  BY DEF RefGrow, VMOutlivesCalls, Idle, TypeOK
<1>b. /\ \A p \in Thread \ {th} : pc[p] = "idle" /\ pc'[p] = "idle"
      /\ \A r : ~Busy(r)
      /\ pc'[th] = "store" /\ head'[th] = n + 1
  BY <1>a, BusyAlone DEF TypeOK
<1>c. /\ HeldInv /\ ListInv /\ CallInv(th) /\ life[on[th]] = "new" /\ val[on[th]] # Nil
      /\ t[0] = Nil
  BY <1>a DEF CallInv
<1>d. n \in Nat /\ n + 1 \in Nat /\ n + 1 # 0 /\ (n + 1 \in DOMAIN t => t[n + 1] = Nil)
  BY DEF Borders, Get, TypeOK
<1>e. \A o \in Held : ref[o] # n + 1
  BY <1>c, <1>d DEF HeldInv, Held
<1>f. n + 1 \notin FreeSlots
  BY <1>c, <1>d DEF ListInv, FreeSlots
<1>1. TypeOK' BY <1>a, <1>d DEF TypeOK
<1>2. Alone' /\ VMOutlivesCalls' BY <1>a, <1>b DEF Alone, VMOutlivesCalls, Idle
<1>3. Held' = Held BY <1>a DEF Held
<1>4. HeldInv' BY <1>a, <1>c, <1>3 DEF HeldInv
<1>5. ListInv'
  <2>1. \A r : Busy(r)' <=> r = n + 1 BY <1>a, <1>b DEF Busy
  <2>2. \A r : r \in FreeSlots' <=> r \in FreeSlots
    BY <1>a, <1>b, <1>f, <1>3, <2>1 DEF FreeSlots
  <2>3. FreeSlots' = FreeSlots BY <2>2
  <2>4. ListInv /\ 0 \in DOMAIN t' BY <1>a, <1>c DEF ListInv
  <2> QED BY <1>a, <2>3, <2>4, SameList
<1>6. \A p \in Thread : CallInv(p)'
  <2>1. CallInv(th)' BY <1>a, <1>b, <1>c, <1>d, <1>e, <1>3 DEF CallInv
  <2> QED BY <1>b, <2>1 DEF CallInv
<1> QED BY <1>a, <1>1, <1>2, <1>4, <1>5, <1>6

\* luaL_ref, storing the value, keeps the invariant.
LEMMA RefStoreInv ==
  ASSUME IInv, NEW th \in Thread, RefStore(th)
  PROVE  IInv'
<1> DEFINE h == head[th]
           o == on[th]
<1> USE ValueAssumption DEF IInv, Goto
<1>a. /\ pc[th] = "store" /\ vm = "open" /\ o \in Object /\ on' = on
      /\ head' = [head EXCEPT ![th] = 0]
      /\ pc' = [pc EXCEPT ![th] = "idle"]
      /\ ref' = [ref EXCEPT ![o] = h] /\ life' = [life EXCEPT ![o] = "live"]
      /\ Set(h, val[o])
      /\ UNCHANGED <<val, open, vm>>
  BY DEF RefStore, Registered, Leave, VMOutlivesCalls, Idle, TypeOK
<1>b. /\ \A p \in Thread : pc'[p] = "idle"
      /\ \A r : Busy(r) <=> r = h
  BY <1>a, BusyAlone DEF TypeOK
<1>c. /\ HeldInv /\ ListInv /\ life[o] = "new" /\ val[o] # Nil
      /\ h \in Nat /\ h # 0 /\ \A p \in Held : ref[p] # h
  BY <1>a DEF CallInv
<1>d. val[o] \in Value \cup {Nil} BY <1>a DEF TypeOK
<1>e. /\ DOMAIN t' = DOMAIN t \cup {h}
      /\ \A i \in DOMAIN t' : t'[i] = IF i = h THEN val[o] ELSE t[i]
      /\ t' \in [DOMAIN t' -> Value \cup Nat \cup {Nil}]
  BY <1>a, <1>d DEF Set, TypeOK
<1>1. TypeOK'
  <2>1. DOMAIN t' \subseteq Nat BY <1>c, <1>e DEF TypeOK
  <2> QED BY <1>a, <1>c, <1>e, <2>1 DEF TypeOK
<1>2. Alone' /\ VMOutlivesCalls' BY <1>b DEF Alone, VMOutlivesCalls, Idle
<1>3. /\ Held' = Held \cup {o} /\ o \notin Held /\ Held \subseteq Object
      /\ \A p \in Held : ref'[p] = ref[p]
      /\ ref'[o] = h
  BY <1>a, <1>c DEF Held, TypeOK
<1>4. HeldInv'
  <2>1. \A p \in Held' : ref'[p] \in DOMAIN t' /\ ref'[p] # 0 /\ t'[ref'[p]] = val[p]
    BY <1>c, <1>e, <1>3 DEF HeldInv
  <2>2. \A p, q \in Held' : ref'[p] = ref'[q] => p = q
    BY <1>c, <1>3 DEF HeldInv
  <2>3. \A p \in Object : life'[p] \in {"live", "garbage"} /\ val[p] = Nil => ref'[p] = LUA_REFNIL
    BY <1>a, <1>c DEF HeldInv, TypeOK
  <2> QED BY <1>a, <2>1, <2>2, <2>3 DEF HeldInv
<1>5. ListInv'
  <2>1. \A r : ~Busy(r)' BY <1>b DEF Busy
  <2>2. \A r : r \in FreeSlots' <=> r \in FreeSlots
    <3>1. \A r : (\A p \in Held' : ref'[p] # r) <=> (r # h /\ \A p \in Held : ref[p] # r)
      BY <1>3
    <3> QED BY <1>b, <1>e, <2>1, <3>1 DEF FreeSlots
  <2>3. FreeSlots' = FreeSlots BY <2>2
  <2>4. \A i \in FreeSlots \cup {0} : i \in DOMAIN t' /\ t'[i] = t[i]
    BY <1>b, <1>c, <1>e DEF FreeSlots, ListInv
  <2>5. ListInv /\ 0 \in DOMAIN t' BY <1>c, <1>e DEF ListInv
  <2> QED BY <2>3, <2>4, <2>5, SameList
<1>6. \A p \in Thread : CallInv(p)' BY <1>b DEF CallInv
<1> QED BY <1>a, <1>1, <1>2, <1>4, <1>5, <1>6

\* Dropping a LuaObject keeps the invariant.
LEMMA DropInv ==
  ASSUME IInv, NEW o \in Object, Drop(o)
  PROVE  IInv'
<1> USE DEF IInv, Drop
<1>1. TypeOK' BY DEF TypeOK
<1>2. Alone' /\ VMOutlivesCalls' BY DEF Alone, VMOutlivesCalls, Idle
<1>l. \A p \in Object : /\ life'[p] \in {"live", "garbage"} <=> life[p] \in {"live", "garbage"}
                        /\ life[p] \in {"new", "gone"} => life'[p] = life[p]
  BY DEF TypeOK
<1>3. Held' = Held BY <1>l DEF Held
<1>4. vm = "open" => HeldInv' BY <1>3, <1>l DEF HeldInv
<1>5. FreeSlots' = FreeSlots BY <1>3 DEF FreeSlots, Busy
<1>6. vm = "open" => ListInv'
  <2> SUFFICES ASSUME vm = "open" PROVE ListInv' OBVIOUS
  <2>1. ListInv /\ 0 \in DOMAIN t' BY DEF ListInv
  <2> QED BY <1>5, <2>1, SameList
<1>7. vm = "open" => \A th \in Thread : CallInv(th)'
  BY <1>3, <1>l DEF CallInv, TypeOK
<1> QED BY <1>1, <1>2, <1>4, <1>6, <1>7

\* LuaObject.finalize entering the monitor keeps the invariant.
LEMMA FinalizeInv ==
  ASSUME IInv, OneLuaState, NEW o \in Object, Finalize(o)
  PROVE  IInv'
<1> USE StateAssumption DEF IInv, Goto, LUA_REFNIL
<1>a. /\ Finalizer \in Thread /\ StateOf[o] \in State
      /\ life[o] = "garbage" /\ life' = [life EXCEPT ![o] = "gone"]
      /\ UNCHANGED <<t, val, ref, open, vm>>
  BY DEF Finalize, Thread
<1>b. /\ \A th \in Thread : pc[th] = "idle"
      /\ \A r : ~Busy(r)
  BY <1>a, FreeMeansIdle DEF Finalize
<1>c. /\ \A p \in Object : life'[p] = IF p = o THEN "gone" ELSE life[p]
      /\ Held' = Held \ {o} /\ Held \subseteq Object
  BY <1>a DEF Held, TypeOK
<1>d. vm = "open" => HeldInv'
  BY <1>a, <1>c DEF HeldInv
<1>1. CASE /\ open[StateOf[o]] /\ ref[o] >= 0
           /\ pc' = [pc EXCEPT ![Finalizer] = "unref"]
           /\ on' = [on EXCEPT ![Finalizer] = o] /\ head' = [head EXCEPT ![Finalizer] = 0]
  <2>0. /\ pc'[Finalizer] = "unref" /\ on'[Finalizer] = o
        /\ \A p \in Thread \ {Finalizer} : pc'[p] = "idle"
    BY <1>a, <1>b, <1>1 DEF TypeOK
  <2>v. vm = "open" BY <1>a, <1>1
  <2>h. o \in Held /\ ref[o] \in DOMAIN t /\ ref[o] # 0
        /\ \A p \in Held \ {o} : ref[p] # ref[o]
    <3>1. val[o] # Nil BY <1>a, <1>1, <2>v DEF HeldInv
    <3>2. o \in Held BY <1>a, <3>1 DEF Held
    <3> QED BY <2>v, <3>2 DEF HeldInv
  <2>1. TypeOK' BY <1>a, <1>1 DEF TypeOK
  <2>2. Alone' /\ VMOutlivesCalls' BY <1>a, <2>v, <2>0 DEF Alone, VMOutlivesCalls, Idle
  <2>3. ListInv'
    <3>1. \A r : Busy(r)' <=> r = ref[o] BY <1>a, <2>0 DEF Busy
    <3>2. \A r : r \in FreeSlots' <=> r \in FreeSlots
      BY <1>a, <1>b, <1>c, <2>h, <3>1 DEF FreeSlots
    <3>3. FreeSlots' = FreeSlots BY <3>2
    <3>4. ListInv /\ 0 \in DOMAIN t' BY <1>a, <2>v DEF ListInv
    <3> QED BY <1>a, <3>3, <3>4, SameList
  <2>4. \A p \in Thread : CallInv(p)'
    <3>1. CallInv(Finalizer)' BY <1>a, <1>c, <2>0, <2>h DEF CallInv
    <3> QED BY <2>0, <3>1 DEF CallInv
  <2> QED BY <1>a, <1>d, <2>1, <2>2, <2>3, <2>4
<1>2. CASE /\ ~(open[StateOf[o]] /\ ref[o] >= 0)
           /\ UNCHANGED <<pc, on, head>>
  <2>h. vm = "open" => o \notin Held
    BY <1>a, <1>2 DEF HeldInv, TypeOK
  <2>1. TypeOK' BY <1>a, <1>2 DEF TypeOK
  <2>2. Alone' /\ VMOutlivesCalls' BY <1>a, <1>2 DEF Alone, VMOutlivesCalls, Idle
  <2>3. vm = "open" => ListInv'
    <3> SUFFICES ASSUME vm = "open" PROVE ListInv' OBVIOUS
    <3>1. Held' = Held BY <1>c, <2>h
    <3>2. \A r : Busy(r)' <=> Busy(r) BY <1>a, <1>2 DEF Busy
    <3>3. FreeSlots' = FreeSlots BY <1>a, <3>1, <3>2 DEF FreeSlots
    <3>4. ListInv /\ 0 \in DOMAIN t' BY <1>a DEF ListInv
    <3> QED BY <1>a, <3>3, <3>4, SameList
  <2>4. \A p \in Thread : CallInv(p)' BY <1>b, <1>2 DEF CallInv
  <2> QED BY <1>a, <1>d, <2>1, <2>2, <2>3, <2>4
<1> QED BY <1>1, <1>2 DEF Finalize

\* luaL_unref, reading the head of the free list, keeps the invariant.
LEMMA UnrefHeadInv ==
  ASSUME IInv, NEW th \in Thread, UnrefHead(th)
  PROVE  IInv'
<1> USE DEF IInv, Goto, FREELIST_REF
<1>a. /\ pc[th] = "unref" /\ vm = "open" /\ on' = on
      /\ pc' = [pc EXCEPT ![th] = "link"] /\ head' = [head EXCEPT ![th] = Get(0)]
      /\ UNCHANGED <<t, life, val, ref, open, vm>>
  BY DEF UnrefHead, VMOutlivesCalls, Idle, TypeOK
<1>b. \A p \in Thread \ {th} : pc[p] = "idle" /\ pc'[p] = "idle"
  BY <1>a, BusyAlone DEF TypeOK
<1>c. /\ HeldInv /\ ListInv /\ CallInv(th) /\ Get(0) = t[0] /\ t[0] \in Nat \cup {Nil}
  BY <1>a DEF ListInv, Get, FreeSlots, TypeOK
<1>d. pc'[th] = "link" /\ head'[th] = t[0] BY <1>a, <1>c DEF TypeOK
<1>1. TypeOK' BY <1>a, <1>c DEF TypeOK
<1>2. Alone' /\ VMOutlivesCalls' BY <1>a, <1>b DEF Alone, VMOutlivesCalls, Idle
<1>3. Held' = Held BY <1>a DEF Held
<1>4. HeldInv' BY <1>a, <1>c, <1>3 DEF HeldInv
<1>5. ListInv'
  <2>1. \A r : Busy(r)' <=> Busy(r) BY <1>a, <1>b, <1>d DEF Busy
  <2>2. FreeSlots' = FreeSlots BY <1>a, <1>3, <2>1 DEF FreeSlots
  <2>3. 0 \in DOMAIN t' BY <1>a, <1>c DEF ListInv
  <2> QED BY <1>a, <1>c, <2>2, <2>3, SameList
<1>6. \A p \in Thread : CallInv(p)'
  <2>1. CallInv(th)' BY <1>a, <1>c, <1>d, <1>3 DEF CallInv
  <2> QED BY <1>b, <2>1 DEF CallInv
<1> QED BY <1>a, <1>1, <1>2, <1>4, <1>5, <1>6

\* luaL_unref, linking the slot, keeps the invariant.
LEMMA UnrefLinkInv ==
  ASSUME IInv, NEW th \in Thread, UnrefLink(th)
  PROVE  IInv'
<1> DEFINE r0 == ref[on[th]]
<1> USE DEF IInv, Goto
<1>a. /\ pc[th] = "link" /\ vm = "open" /\ on' = on /\ head' = head
      /\ pc' = [pc EXCEPT ![th] = "free"] /\ Set(r0, head[th])
      /\ UNCHANGED <<life, val, ref, open, vm>>
  BY DEF UnrefLink, VMOutlivesCalls, Idle, TypeOK
<1>b. /\ \A p \in Thread \ {th} : pc[p] = "idle" /\ pc'[p] = "idle"
      /\ pc'[th] = "free" /\ \A r : Busy(r) <=> r = r0
  BY <1>a, BusyAlone DEF TypeOK
<1>c. /\ HeldInv /\ ListInv /\ CallInv(th) /\ life[on[th]] = "gone"
      /\ r0 \in DOMAIN t /\ r0 # 0 /\ \A p \in Held : ref[p] # r0
      /\ head[th] = t[0] /\ 0 \in DOMAIN t
  BY <1>a DEF CallInv, ListInv
<1>e. /\ DOMAIN t' = DOMAIN t
      /\ \A i \in DOMAIN t : t'[i] = IF i = r0 THEN t[0] ELSE t[i]
      /\ t' \in [DOMAIN t -> Value \cup Nat \cup {Nil}]
  BY <1>a, <1>c DEF Set, TypeOK
<1>1. TypeOK' BY <1>a, <1>e DEF TypeOK
<1>2. Alone' /\ VMOutlivesCalls' BY <1>a, <1>b DEF Alone, VMOutlivesCalls, Idle
<1>3. Held' = Held BY <1>a DEF Held
<1>4. HeldInv' BY <1>a, <1>c, <1>e, <1>3 DEF HeldInv
<1>5. ListInv'
  <2>1. \A r : Busy(r)' <=> r = r0 BY <1>a, <1>b DEF Busy
  <2>2. FreeSlots' = FreeSlots BY <1>a, <1>b, <1>e, <1>3, <2>1 DEF FreeSlots
  <2>3. \A i \in FreeSlots \cup {0} : i \in DOMAIN t /\ i # r0
    BY <1>b, <1>c DEF FreeSlots
  <2>4. \A i \in FreeSlots \cup {0} : t'[i] = t[i] BY <1>e, <2>3
  <2> QED BY <1>c, <1>e, <2>2, <2>4, SameList
<1>6. \A p \in Thread : CallInv(p)'
  <2>1. t'[0] = t[0] /\ t'[r0] = t[0] BY <1>c, <1>e
  <2>2. CallInv(th)' BY <1>a, <1>b, <1>c, <1>e, <1>3, <2>1 DEF CallInv
  <2> QED BY <1>b, <2>2 DEF CallInv
<1> QED BY <1>a, <1>1, <1>2, <1>4, <1>5, <1>6

\* luaL_unref, making the slot the head, keeps the invariant.
LEMMA UnrefFreeInv ==
  ASSUME IInv, NEW th \in Thread, UnrefFree(th)
  PROVE  IInv'
<1> DEFINE r0 == ref[on[th]]
<1> USE ValueAssumption DEF IInv, Goto, FREELIST_REF
<1>a. /\ pc[th] = "free" /\ vm = "open" /\ on' = on
      /\ head' = [head EXCEPT ![th] = 0]
      /\ pc' = [pc EXCEPT ![th] = "idle"] /\ Set(0, r0)
      /\ UNCHANGED <<life, val, ref, open, vm>>
  BY DEF UnrefFree, Leave, VMOutlivesCalls, Idle, TypeOK
<1>b. /\ \A p \in Thread : pc'[p] = "idle"
      /\ \A r : Busy(r) <=> r = r0
  BY <1>a, BusyAlone DEF TypeOK
<1>c. /\ HeldInv /\ ListInv /\ r0 \in DOMAIN t /\ r0 # 0 /\ r0 \in Nat
      /\ \A p \in Held : ref[p] # r0
      /\ t[r0] = t[0] /\ 0 \in DOMAIN t
  BY <1>a DEF CallInv, ListInv, TypeOK
<1>e. /\ DOMAIN t' = DOMAIN t
      /\ \A i \in DOMAIN t : t'[i] = IF i = 0 THEN r0 ELSE t[i]
      /\ t' \in [DOMAIN t -> Value \cup Nat \cup {Nil}]
  BY <1>a, <1>c DEF Set, TypeOK
<1>1. TypeOK' BY <1>a, <1>e DEF TypeOK
<1>2. Alone' /\ VMOutlivesCalls' BY <1>b DEF Alone, VMOutlivesCalls, Idle
<1>3. Held' = Held BY <1>a DEF Held
<1>4. HeldInv' BY <1>a, <1>c, <1>e, <1>3 DEF HeldInv
<1>5. ListInv'
  <2>1. \A r : ~Busy(r)' BY <1>b DEF Busy
  <2>2. FreeSlots' = FreeSlots \cup {r0} /\ r0 \notin FreeSlots
    BY <1>a, <1>b, <1>c, <1>e, <1>3, <2>1 DEF FreeSlots
  <2>3. \A i, j \in FreeSlots \cup {0} : t[i] = t[j] => i = j BY <1>c DEF ListInv
  <2>4. \A i \in FreeSlots \cup {0} : i \in DOMAIN t /\ t[i] \in FreeSlots \cup {Nil}
    BY <1>c DEF ListInv, FreeSlots
  <2>5. 0 \notin FreeSlots /\ r0 # Nil BY <1>c DEF FreeSlots
  <2>6. \A i \in FreeSlots' \cup {0} : t'[i] \in FreeSlots' \cup {Nil}
    BY <1>c, <1>e, <2>2, <2>4
  <2>7. \A i \in FreeSlots' : t'[i] # r0
    BY <1>c, <1>e, <2>2, <2>4, <2>5
  <2>8. \A i, j \in FreeSlots' : t'[i] = t'[j] => i = j
    <3>1. \A i \in FreeSlots : t'[i] = t[i] /\ t[i] # t[0] BY <1>e, <2>3, <2>4, <2>5
    <3>2. t'[r0] = t[0] BY <1>c, <1>e
    <3> QED BY <2>2, <2>3, <3>1, <3>2
  <2>9. t'[0] = r0 BY <1>c, <1>e
  <2>10. Reaches'
    <3> SUFFICES ASSUME NEW X \in SUBSET (FreeSlots \cup {r0}),
                        \A i \in X \cup {0} : t'[i] \in X \cup {Nil}
                 PROVE  FreeSlots \cup {r0} \subseteq X
      BY <2>2 DEF Reaches, Closed
    <3>1. r0 \in X BY <2>5, <2>9
    <3>2. X \ {r0} \in SUBSET FreeSlots OBVIOUS
    <3>3. \A i \in X \ {r0} : t[i] = t'[i] /\ t'[i] # r0
      BY <1>e, <2>2, <2>4, <2>5, <2>7, <3>2
    <3>4. t[0] = t'[r0] /\ t[0] # r0 BY <1>c, <1>e, <2>2, <2>4, <2>5
    <3>5. Closed(X \ {r0}) BY <3>1, <3>3, <3>4 DEF Closed
    <3> QED BY <1>c, <3>1, <3>2, <3>5 DEF ListInv, Reaches
  <2>11. Ends'
    <3>1. PICK r \in FreeSlots \cup {0} : t[r] = Nil BY <1>c DEF ListInv, Ends
    <3>2. CASE r = 0 BY <1>c, <1>e, <2>2, <3>1, <3>2 DEF Ends
    <3>3. CASE r # 0 BY <1>e, <2>2, <2>4, <3>1, <3>3 DEF Ends
    <3> QED BY <3>2, <3>3
  <2> QED BY <1>c, <1>e, <2>6, <2>7, <2>8, <2>9, <2>10, <2>11 DEF ListInv
<1>6. \A p \in Thread : CallInv(p)' BY <1>b DEF CallInv
<1> QED BY <1>a, <1>1, <1>2, <1>4, <1>5, <1>6

\* LuaState.close keeps the invariant.
LEMMA CloseInv ==
  ASSUME IInv, OneLuaState, NEW s \in State, Close(s)
  PROVE  IInv'
<1> USE DEF IInv, Close
<1>a. \A th \in Thread : pc[th] = "idle" BY FreeMeansIdle
<1>1. TypeOK' BY DEF TypeOK, FREELIST_REF
<1>2. Alone' /\ VMOutlivesCalls' BY <1>a DEF Alone, VMOutlivesCalls, Idle
<1>3. \A x \in State : open'[x] <=> vm' = "open" BY DEF OneLuaState, TypeOK
<1> QED BY <1>1, <1>2, <1>3

\* With one LuaState the invariant is inductive.
LEMMA NextInv == OneLuaState /\ IInv /\ [Next]_vars => IInv'
<1> SUFFICES ASSUME OneLuaState, IInv, [Next]_vars PROVE IInv' OBVIOUS
<1>1. CASE UNCHANGED vars
  <2> USE <1>1 DEF IInv, vars
  <2>1. TypeOK' BY DEF TypeOK
  <2>2. Alone' /\ VMOutlivesCalls' BY DEF Alone, VMOutlivesCalls, Idle
  <2>3. Held' = Held BY DEF Held
  <2>4. HeldInv <=> HeldInv' BY <2>3 DEF HeldInv
  <2>5. ListInv <=> ListInv'
    <3>1. FreeSlots' = FreeSlots BY <2>3 DEF FreeSlots, Busy
    <3>2. Reaches' <=> Reaches BY <3>1 DEF Reaches, Closed
    <3>3. Ends' <=> Ends BY <3>1 DEF Ends
    <3> QED BY <3>1, <3>2, <3>3 DEF ListInv
  <2>6. \A th \in Thread : CallInv(th) <=> CallInv(th)' BY <2>3 DEF CallInv
  <2> QED BY <2>1, <2>2, <2>4, <2>5, <2>6
<1>2. CASE \E th \in Thread : Lref(th)
  BY <1>2, RefHeadInv, RefPopInv, RefGrowInv, RefStoreInv DEF Lref
<1>3. CASE \E th \in Thread : LunRef(th)
  BY <1>3, UnrefHeadInv, UnrefLinkInv, UnrefFreeInv DEF LunRef
<1>4. CASE \E th \in App, o \in Object, v \in Value \cup {Nil} : Construct(th, o, v)
  BY <1>4, ConstructInv
<1>5. CASE \E o \in Object : Drop(o) \/ Finalize(o)
  BY <1>5, DropInv, FinalizeInv
<1>6. CASE \E s \in State : Close(s)
  BY <1>6, CloseInv
<1> QED BY <1>1, <1>2, <1>3, <1>4, <1>5, <1>6 DEF Next

\* With one LuaState per VM, luaL_ref and luaL_unref keep the references of
\* all LuaObjects apart and the free list free of duplicates.
THEOREM Invariance == OneLuaState => (Spec => []IInv)
<1> SUFFICES ASSUME OneLuaState PROVE Spec => []IInv OBVIOUS
<1>1. IInv /\ [Next]_vars => IInv' BY NextInv
<1> QED BY <1>1, InitInv, PTL DEF Spec

\* luaL_ref returns natural numbers or LUA_REFNIL, and stores nothing else.
THEOREM TypeCorrect == OneLuaState => (Spec => []TypeOK)
<1> SUFFICES ASSUME OneLuaState PROVE Spec => []TypeOK OBVIOUS
<1>1. IInv => TypeOK BY DEF IInv
<1> QED BY <1>1, Invariance, PTL

\* LuaObject.push pushes the value the LuaObject was constructed for, until
\* it is finalized, whatever other objects are constructed and finalized.
THEOREM PushCorrect == OneLuaState => (Spec => []PushesItsValue)
<1> SUFFICES ASSUME OneLuaState PROVE Spec => []PushesItsValue OBVIOUS
<1>1. IInv => PushesItsValue
  <2> SUFFICES ASSUME IInv, vm = "open" PROVE PushesItsValue BY DEF PushesItsValue
  <2> QED BY DEF IInv, HeldInv, PushesItsValue, Get
<1> QED BY <1>1, Invariance, PTL

\* No luaL_ref or luaL_unref runs on a VM that LuaState.close has ended.
THEOREM VMOutlivesCallsCorrect == OneLuaState => (Spec => []VMOutlivesCalls)
<1> SUFFICES ASSUME OneLuaState PROVE Spec => []VMOutlivesCalls OBVIOUS
<1>1. IInv => VMOutlivesCalls BY DEF IInv
<1> QED BY <1>1, Invariance, PTL

\* Between calls the slots that lead from t[0] to nil are the free slots.
LEMMA ChainIsFree ==
  ASSUME IInv, vm = "open", \A th \in Thread : Idle(th)
  PROVE  Chain = FreeSlots
<1> USE ValueAssumption DEF IInv
<1>1. ListInv /\ DOMAIN t \subseteq Nat BY DEF TypeOK
<1>2. FreeSlots \subseteq DOMAIN t \ {0} BY DEF FreeSlots
<1>3. 0 \in DOMAIN t /\ Nil \notin DOMAIN t BY <1>1 DEF ListInv
<1>4. \A i \in DOMAIN t : Get(i) = t[i] BY DEF Get
<1>5. \A r \in Chain : r \in FreeSlots
  <2>1. \A i \in FreeSlots \cup {0} : Get(i) \in DOMAIN t => Get(i) \in FreeSlots
    BY <1>1, <1>2, <1>3, <1>4 DEF ListInv
  <2>2. FreeSlots \in SUBSET DOMAIN t BY <1>2
  <2> QED BY <2>1, <2>2 DEF Chain
<1>6. \A r \in FreeSlots : r \in Chain
  <2> SUFFICES ASSUME NEW r \in FreeSlots, NEW X \in SUBSET DOMAIN t,
                      \A i \in X \cup {0} : Get(i) \in DOMAIN t => Get(i) \in X
               PROVE  r \in X
    BY <1>2 DEF Chain
  <2>1. \A i \in (X \cap FreeSlots) \cup {0} : t[i] \in (X \cap FreeSlots) \cup {Nil}
    BY <1>1, <1>2, <1>3, <1>4 DEF ListInv
  <2>2. Closed(X \cap FreeSlots) BY <2>1 DEF Closed
  <2>3. FreeSlots \subseteq X \cap FreeSlots BY <1>1, <2>2 DEF ListInv, Reaches
  <2> QED BY <2>3
<1> QED BY <1>5, <1>6

\* Between calls the free list holds every slot of the registry that no
\* LuaObject refers to and ends with nil: luaL_unref loses no reference and
\* luaL_ref hands none out twice.
THEOREM FreeListCorrect == OneLuaState => (Spec => []FreeListWhole)
<1> SUFFICES ASSUME OneLuaState PROVE Spec => []FreeListWhole OBVIOUS
<1>1. IInv => FreeListWhole
  <2> SUFFICES ASSUME IInv, vm = "open", \A th \in Thread : Idle(th)
               PROVE  /\ Chain = DOMAIN t \ ({0} \cup {ref[o] : o \in Held})
                      /\ \E r \in Chain \cup {0} : Get(r) = Nil
    BY DEF FreeListWhole
  <2>1. Chain = FreeSlots BY ChainIsFree
  <2>2. \A r : ~Busy(r) BY DEF Busy, Idle
  <2>3. FreeSlots = DOMAIN t \ ({0} \cup {ref[o] : o \in Held})
    BY <2>2 DEF FreeSlots
  <2>4. PICK r \in FreeSlots \cup {0} : t[r] = Nil BY DEF IInv, ListInv, Ends
  <2>5. r \in DOMAIN t BY <2>4 DEF IInv, ListInv, FreeSlots
  <2> QED BY <2>1, <2>3, <2>4, <2>5 DEF Get
<1> QED BY <1>1, Invariance, PTL
=============================================================================
