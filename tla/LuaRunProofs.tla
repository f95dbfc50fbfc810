---------------------------- MODULE LuaRunProofs ----------------------------
(***************************************************************************)
(* Proofs about LuaRun: the cache of absent metamethods is honest, for     *)
(* every function and every argument.  Nothing is assumed of the code that *)
(* runs: it need not have passed the checker.                              *)
(***************************************************************************)
EXTENDS LuaRun, SequenceTheorems, WellFoundedInduction, TLAPS

\* The cache of one table.
HonestTable(t) ==
  /\ DOMAIN t = {"map", "meta", "flags"}
  /\ \A event \in t.flags : Str(event) \in DOMAIN t.map => t.map[Str(event)] = NilV

\* The tables are a sequence, and the caches of all of them are honest.
HonestTables(tabs) ==
  \E n \in Nat : /\ tabs = [i \in 1..n |-> tabs[i]]
                 /\ \A i \in 1..n : HonestTable(tabs[i])

\* What is known of a machine.
Good(x) == "tabs" \in DOMAIN x /\ HonestTables(x.tabs)

IInv == m # none => Good(m)
-----------------------------------------------------------------------------
(* Tables.                                                                 *)

\* A new table has an empty cache.
LEMMA NewTableHonest ==
  ASSUME NEW fields
  PROVE  HonestTable(NewTable(fields))
BY DEF NewTable, HonestTable

\* One more table.
LEMMA AppendedHonest ==
  ASSUME NEW tabs, HonestTables(tabs), NEW t, HonestTable(t)
  PROVE  HonestTables(Append(tabs, t))
<1>1. PICK n \in Nat : tabs = [i \in 1..n |-> tabs[i]] /\ \A i \in 1..n : HonestTable(tabs[i])
  BY DEF HonestTables
<1> DEFINE S == {tabs[i] : i \in 1..n} \cup {t}
           new == Append(tabs, t)
<1>2. tabs \in Seq(S) /\ Len(tabs) = n
  <2>1. \A i \in 1..n : tabs[i] \in S OBVIOUS
  <2> HIDE DEF S
  <2> QED BY <1>1, <2>1
<1>3. t \in S OBVIOUS
<1> HIDE DEF S
<1>4. /\ DOMAIN new = 1..(n + 1) /\ new = [i \in 1..(n + 1) |-> new[i]]
      /\ (\A i \in 1..n : new[i] = tabs[i]) /\ new[n + 1] = t
  <2>1. /\ new \in Seq(S) /\ Len(new) = n + 1
        /\ (\A i \in 1..n : new[i] = tabs[i]) /\ new[n + 1] = t
    BY <1>2, <1>3, AppendProperties
  <2> HIDE DEF new
  <2>2. DOMAIN new = 1..(n + 1) /\ new = [i \in 1..(n + 1) |-> new[i]] BY <2>1
  <2> QED BY <2>1, <2>2
<1> HIDE DEF new
<1>5. ASSUME NEW i \in 1..(n + 1) PROVE HonestTable(new[i])
  <2>1. CASE i \in 1..n BY <1>1, <1>4, <2>1
  <2>2. CASE i \notin 1..n
    <3>1. i = n + 1 BY <2>2
    <3> QED BY <1>4, <3>1
  <2> QED BY <2>1, <2>2
<1>6. HonestTables(new) BY <1>4, <1>5 DEF HonestTables
<1> QED BY <1>6 DEF new

\* One table changes.
LEMMA ChangedHonest ==
  ASSUME NEW tabs, HonestTables(tabs), NEW new, NEW k,
         DOMAIN new = DOMAIN tabs, new = [i \in DOMAIN new |-> new[i]],
         \A i \in DOMAIN tabs : i # k => new[i] = tabs[i],
         k \in DOMAIN tabs /\ HonestTable(tabs[k]) => HonestTable(new[k])
  PROVE  HonestTables(new)
<1>1. PICK n \in Nat : tabs = [i \in 1..n |-> tabs[i]] /\ \A i \in 1..n : HonestTable(tabs[i])
  BY DEF HonestTables
<1>2. DOMAIN tabs = 1..n BY <1>1
<1>3. \A i \in 1..n : HonestTable(new[i]) BY <1>1, <1>2
<1> QED BY <1>2, <1>3 DEF HonestTables

\* The rest of the machine changes.
LEMMA Elsewhere ==
  ASSUME NEW x, Good(x), NEW y, "tabs" \in DOMAIN y, y.tabs = x.tabs
  PROVE  Good(y)
BY DEF Good

-----------------------------------------------------------------------------
(* The operators of LuaVM that read and write a machine.                   *)

\* The frame of the function that runs is no table.
LEMMA SetTopGood == ASSUME NEW x, Good(x), NEW fr PROVE Good(SetTop(x, fr))
<1>1. "tabs" \in DOMAIN SetTop(x, fr) /\ SetTop(x, fr).tabs = x.tabs BY DEF SetTop, Good
<1> QED BY <1>1, Elsewhere

\* A register that is open is a cell.
LEMMA SetRegGood == ASSUME NEW x, Good(x), NEW i, NEW v PROVE Good(SetReg(x, i, v))
<1> DEFINE cells == [x EXCEPT !.cells[Top(x).open[i]] = v]
<1>1. "tabs" \in DOMAIN cells /\ cells.tabs = x.tabs BY DEF Good
<1>2. Good(cells) BY <1>1, Elsewhere
<1> HIDE DEF cells
<1>3. SetReg(x, i, v) = cells \/ \E fr : SetReg(x, i, v) = SetTop(x, fr) BY DEF SetReg, cells
<1> QED BY <1>2, <1>3, SetTopGood

\* A jump only moves the program counter.
LEMMA JumpGood == ASSUME NEW x, Good(x), NEW n PROVE Good(Jump(x, n))
<1>1. "tabs" \in DOMAIN Jump(x, n) /\ Jump(x, n).tabs = x.tabs BY DEF Jump, Good
<1> QED BY <1>1, Elsewhere

\* An error ends the run.
LEMMA RaiseGood == ASSUME NEW x, Good(x) PROVE Good(Raise(x))
<1>1. "tabs" \in DOMAIN Raise(x) /\ Raise(x).tabs = x.tabs BY DEF Raise, Good
<1> QED BY <1>1, Elsewhere

\* Several registers are set.
LEMMA SetRegsGood == ASSUME NEW x, Good(x), NEW i, NEW vs PROVE Good(SetRegs(x, i, vs))
<1>1. \E fr, cells : SetRegs(x, i, vs) = [SetTop(x, fr) EXCEPT !.cells = cells] BY DEF SetRegs
<1>2. PICK fr, cells : SetRegs(x, i, vs) = [SetTop(x, fr) EXCEPT !.cells = cells] BY <1>1
<1>3. Good(SetTop(x, fr)) BY SetTopGood
<1>4. /\ "tabs" \in DOMAIN SetRegs(x, i, vs) /\ SetRegs(x, i, vs).tabs = SetTop(x, fr).tabs
  BY <1>2, <1>3 DEF Good
<1> QED BY <1>3, <1>4, Elsewhere

\* Upvalues are opened and closed.
LEMMA UpvaluesGood ==
  ASSUME NEW x, Good(x)
  PROVE  /\ \A level : Good(luaF_close(x, level))
         /\ \A regs : Good(luaF_findupval(x, regs))
<1>1. ASSUME NEW level PROVE Good(luaF_close(x, level)) BY SetTopGood DEF luaF_close
<1>2. ASSUME NEW regs PROVE Good(luaF_findupval(x, regs))
  <2>1. PICK y, fr, cells : luaF_findupval(x, regs) = SetTop(y, fr) /\ y = [x EXCEPT !.cells = cells]
    BY DEF luaF_findupval
  <2>2. "tabs" \in DOMAIN y /\ y.tabs = x.tabs BY <2>1 DEF Good
  <2> QED BY <2>1, <2>2, Elsewhere, SetTopGood
<1> QED BY <1>1, <1>2

\* What a concatenation waits for is no table.
LEMMA ConcatenatingGood ==
  ASSUME NEW x, Good(x), NEW vs, NEW ra PROVE Good(Concatenating(x, vs, ra))
<1>1. /\ "tabs" \in DOMAIN Concatenating(x, vs, ra)
      /\ Concatenating(x, vs, ra).tabs = x.tabs
  BY DEF Concatenating, Good
<1> QED BY <1>1, Elsewhere

\* A table that is written has an empty cache.
LEMMA SetFieldGood ==
  ASSUME NEW x, Good(x), NEW t, NEW key, NEW v
  PROVE  Good(SetField(x, t, key, v))
<1> DEFINE k == t[2]
           map == (key :> v) @@ x.tabs[k].map
           y == SetField(x, t, key, v)
<1>1. "tabs" \in DOMAIN y BY DEF SetField, SetTable, Good
<1>2. y.tabs = [[x.tabs EXCEPT ![k].map = map] EXCEPT ![k].flags = {}]
  BY DEF SetField, SetTable, Good
<1> HIDE DEF k, map, y
<1>3. DOMAIN y.tabs = DOMAIN x.tabs /\ y.tabs = [i \in DOMAIN y.tabs |-> y.tabs[i]] BY <1>2
<1>4. \A i \in DOMAIN x.tabs : i # k => y.tabs[i] = x.tabs[i] BY <1>2
<1>5. ASSUME k \in DOMAIN x.tabs, HonestTable(x.tabs[k]) PROVE HonestTable(y.tabs[k])
  <2>1. y.tabs[k] = [[x.tabs[k] EXCEPT !.map = map] EXCEPT !.flags = {}] BY <1>2, <1>5
  <2>2. DOMAIN y.tabs[k] = {"map", "meta", "flags"} /\ y.tabs[k].flags = {}
    BY <1>5, <2>1 DEF HonestTable
  <2> QED BY <2>2 DEF HonestTable
<1>6. HonestTables(x.tabs) BY DEF Good
<1>7. HonestTables(y.tabs) BY <1>3, <1>4, <1>5, <1>6, ChangedHonest
<1> QED BY <1>1, <1>7 DEF Good, y

\* What fasttm notes is true.
LEMMA FasttmGood ==
  ASSUME NEW x, Good(x), NEW mt, NEW event
  PROVE  Good(fasttm(x, mt, event).m)
<1> DEFINE y == [x EXCEPT !.tabs[mt].flags = @ \cup {event}]
<1>1. ASSUME GetTable(x, <<"tab", mt>>, Str(event)) = NilV PROVE Good(y)
  <2>1. "tabs" \in DOMAIN y /\ y.tabs = [x.tabs EXCEPT ![mt].flags = x.tabs[mt].flags \cup {event}]
    BY DEF Good
  <2> HIDE DEF y
  <2>2. DOMAIN y.tabs = DOMAIN x.tabs /\ y.tabs = [i \in DOMAIN y.tabs |-> y.tabs[i]] BY <2>1
  <2>3. \A i \in DOMAIN x.tabs : i # mt => y.tabs[i] = x.tabs[i] BY <2>1
  <2>4. Str(event) \in DOMAIN x.tabs[mt].map => x.tabs[mt].map[Str(event)] = NilV
    BY <1>1 DEF GetTable
  <2>5. ASSUME mt \in DOMAIN x.tabs, HonestTable(x.tabs[mt]) PROVE HonestTable(y.tabs[mt])
    <3>1. y.tabs[mt] = [x.tabs[mt] EXCEPT !.flags = x.tabs[mt].flags \cup {event}] BY <2>1, <2>5
    <3>2. /\ DOMAIN y.tabs[mt] = {"map", "meta", "flags"}
          /\ y.tabs[mt].map = x.tabs[mt].map /\ y.tabs[mt].flags = x.tabs[mt].flags \cup {event}
      BY <2>5, <3>1 DEF HonestTable
    <3> QED BY <2>4, <2>5, <3>2 DEF HonestTable
  <2>6. HonestTables(x.tabs) BY DEF Good
  <2>7. HonestTables(y.tabs) BY <2>2, <2>3, <2>5, <2>6, ChangedHonest
  <2> QED BY <2>1, <2>7 DEF Good
<1>2. \/ fasttm(x, mt, event).m = x
      \/ fasttm(x, mt, event).m = y /\ GetTable(x, <<"tab", mt>>, Str(event)) = NilV
  BY DEF fasttm
<1> HIDE DEF y
<1> QED BY <1>1, <1>2

-----------------------------------------------------------------------------
(* Calls.                                                                  *)

\* A test jumps.
LEMMA TestGood == ASSUME NEW x, Good(x), NEW holds PROVE Good(Test(x, holds))
BY JumpGood DEF Test

\* The results of a call are stored, tested or concatenated.
LEMMA DeliverGood ==
  ASSUME NEW x, Good(x), NEW ra, NEW n, NEW vs, NEW cont
  PROVE  Good(Deliver(x, ra, n, vs, cont))
<1> DEFINE wanted == IF n = LUA_MULTRET THEN vs
                     ELSE [j \in 1..n |-> IF j <= Len(vs) THEN vs[j] ELSE NilV]
           set == SetRegs(x, ra, wanted)
           whole == [set EXCEPT !.frames[Len(x.frames)].top = ra + Len(vs)]
<1>1. Good(set) BY SetRegsGood
<1> HIDE DEF set, wanted
<1>2. Good(whole)
  <2>1. "tabs" \in DOMAIN whole /\ whole.tabs = set.tabs BY <1>1 DEF Good
  <2> HIDE DEF whole
  <2> QED BY <1>1, <2>1, Elsewhere
<1> HIDE DEF whole
<1>3. \/ Deliver(x, ra, n, vs, cont) \in {set, whole}
      \/ \E to : Deliver(x, ra, n, vs, cont) = Jump(set, to)
      \/ \E to, i, v : Deliver(x, ra, n, vs, cont) = Jump(SetReg(set, i, v), to)
      \/ \E holds : Deliver(x, ra, n, vs, cont) = Test(x, holds)
      \/ \E ws : Deliver(x, ra, n, vs, cont) = Concatenating(x, ws, ra)
  <2> DEFINE r == Deliver(x, ra, n, vs, cont)
             next == Top(x).p.code[Top(x).pc + 1]
  <2>1. CASE cont[1] = "regs"
    <3>1. r = IF n = LUA_MULTRET THEN whole ELSE set BY <2>1 DEF Deliver, set, whole, wanted
    <3> QED BY <3>1
  <2>2. CASE cont[1] = "loop"
    <3>1. r = IF Reg(set, ra) = NilV THEN Jump(set, 1)
              ELSE Jump(SetReg(set, ra - 1, Reg(set, ra)), next.b + 1)
      BY <2>2 DEF Deliver, set, wanted
    <3> HIDE DEF r, next
    <3> QED BY <3>1 DEF r
  <2>3. CASE cont[1] = "test"
    <3>1. r = Test(x, IsFalse(wanted[1]) # cont[2]) BY <2>3 DEF Deliver, wanted
    <3> HIDE DEF r
    <3> QED BY <3>1 DEF r
  <2>4. CASE cont[1] \notin {"regs", "loop", "test"}
    <3>1. r = Concatenating(x, cont[2] \o wanted, ra) BY <2>4 DEF Deliver, wanted
    <3> HIDE DEF r
    <3> QED BY <3>1 DEF r
  <2> QED BY <2>1, <2>2, <2>3, <2>4
<1> QED BY <1>1, <1>2, <1>3, JumpGood, SetRegGood, TestGood, ConcatenatingGood

\* A table gets a metatable.
SetMeta(x, k, meta) == [x EXCEPT !.tabs[k].meta = meta]

\* That changes no field and no cache.
LEMMA SetMetaGood == ASSUME NEW x, Good(x), NEW k, NEW meta PROVE Good(SetMeta(x, k, meta))
<1> DEFINE y == SetMeta(x, k, meta)
<1>1. "tabs" \in DOMAIN y /\ y.tabs = [x.tabs EXCEPT ![k].meta = meta] BY DEF SetMeta, Good
<1> HIDE DEF y
<1>2. DOMAIN y.tabs = DOMAIN x.tabs /\ y.tabs = [i \in DOMAIN y.tabs |-> y.tabs[i]] BY <1>1
<1>3. \A i \in DOMAIN x.tabs : i # k => y.tabs[i] = x.tabs[i] BY <1>1
<1>4. ASSUME k \in DOMAIN x.tabs, HonestTable(x.tabs[k]) PROVE HonestTable(y.tabs[k])
  <2>1. y.tabs[k] = [x.tabs[k] EXCEPT !.meta = meta] BY <1>1, <1>4
  <2>2. /\ DOMAIN y.tabs[k] = {"map", "meta", "flags"}
        /\ y.tabs[k].map = x.tabs[k].map /\ y.tabs[k].flags = x.tabs[k].flags
    BY <1>4, <2>1 DEF HonestTable
  <2> QED BY <1>4, <2>2 DEF HonestTable
<1>5. HonestTables(x.tabs) BY DEF Good
<1>6. HonestTables(y.tabs) BY <1>2, <1>3, <1>4, <1>5, ChangedHonest
<1> QED BY <1>1, <1>6 DEF Good, y

\* The C functions keep the caches honest: rawset empties the one it writes.
LEMMA CFunctionGood ==
  ASSUME NEW x, Good(x), NEW f, NEW args
  PROVE  Good(CFunction(x, f, args).m)
<1> DEFINE a(i) == IF i <= Len(args) THEN args[i] ELSE NilV
           r == CFunction(x, f, args).m
<1>1. CASE f \in {"id", "two", "upto"}
  <2>1. r = x BY <1>1 DEF CFunction
  <2> QED BY <2>1
<1>2. CASE f = "setmetatable"
  <2>1. r = SetMeta(x, a(1)[2], IF a(2) = NilV THEN 0 ELSE a(2)[2]) BY <1>2 DEF CFunction, SetMeta
  <2> HIDE DEF r, a
  <2>2. Good(r) BY <2>1, SetMetaGood
  <2> QED BY <2>2 DEF r
<1>3. CASE f \notin {"id", "two", "upto", "setmetatable"}
  <2>1. r = SetField(x, a(1), a(2), a(3)) BY <1>3 DEF CFunction, SetField
  <2> HIDE DEF r, a
  <2>2. Good(r) BY <2>1, SetFieldGood
  <2> QED BY <2>2 DEF r
<1> QED BY <1>1, <1>2, <1>3

\* A machine with other frames, or one more table.
WithFrames(x, frames) == [x EXCEPT !.frames = frames]
WithTable(x, fields) == [x EXCEPT !.tabs = Append(@, NewTable(fields))]

\* Both are good.
LEMMA WithGood ==
  ASSUME NEW x, Good(x)
  PROVE  /\ \A frames : Good(WithFrames(x, frames))
         /\ \A fields : Good(WithTable(x, fields))
<1>1. ASSUME NEW frames PROVE Good(WithFrames(x, frames))
  <2>1. "tabs" \in DOMAIN WithFrames(x, frames) /\ WithFrames(x, frames).tabs = x.tabs
    BY DEF WithFrames, Good
  <2> QED BY <2>1, Elsewhere
<1>2. ASSUME NEW fields PROVE Good(WithTable(x, fields))
  <2>1. /\ "tabs" \in DOMAIN WithTable(x, fields)
        /\ WithTable(x, fields).tabs = Append(x.tabs, NewTable(fields))
    BY DEF WithTable, Good
  <2>2. HonestTables(x.tabs) BY DEF Good
  <2>3. HonestTables(WithTable(x, fields).tabs) BY <2>1, <2>2, NewTableHonest, AppendedHonest
  <2> QED BY <2>1, <2>3 DEF Good
<1> QED BY <1>1, <1>2

\* A call runs a C function, or pushes a frame.
LEMMA CallGood ==
  ASSUME NEW x, Good(x), NEW f0, NEW args0, NEW ra, NEW n, NEW cont
  PROVE  Good(Call(x, f0, args0, ra, n, cont))
<1> DEFINE r == Call(x, f0, args0, ra, n, cont)
           called(f, args) ==
             Deliver(CFunction(x, f, args).m, ra, n, CFunction(x, f, args).vs, cont)
<1>1. \/ \E f, args : r = called(f, args)
      \/ \E frames : r = WithFrames(x, frames)
      \/ \E frames, fields : r = WithFrames(WithTable(x, fields), frames)
      \/ r = Raise(x)
  BY DEF Call, WithFrames, WithTable
<1>2. \A f, args : Good(called(f, args)) BY CFunctionGood, DeliverGood
<1> HIDE DEF r, called
<1>3. Good(r) BY <1>1, <1>2, WithGood, RaiseGood
<1> QED BY <1>3 DEF r

\* The frame is gone, and the results are delivered or are those of the run.
LEMMA ReturnGood == ASSUME NEW x, Good(x), NEW vs PROVE Good(Return(x, vs))
<1> DEFINE rest == [x EXCEPT !.frames = Front(@)]
           last == [rest EXCEPT !.status = "done", !.res = vs]
<1>1. "tabs" \in DOMAIN rest /\ rest.tabs = x.tabs BY DEF Good
<1>2. Return(x, vs) = last \/ \E ra, n, cont : Return(x, vs) = Deliver(rest, ra, n, vs, cont)
  BY DEF Return
<1> HIDE DEF rest
<1>3. Good(rest) BY <1>1, Elsewhere
<1>4. "tabs" \in DOMAIN last /\ last.tabs = rest.tabs BY <1>3 DEF Good
<1> HIDE DEF last
<1>5. Good(last) BY <1>3, <1>4, Elsewhere
<1> QED BY <1>2, <1>3, <1>5, DeliverGood

-----------------------------------------------------------------------------
(* Reading and writing tables.                                             *)

\* A field that is made is written.
LEMMA FieldGood == ASSUME NEW x, Good(x), NEW t, NEW key PROVE Good(Field(x, t, key))
<1>1. Field(x, t, key) = SetField(x, t, key, GetTable(x, t, key)) BY DEF Field, SetField
<1> QED BY <1>1, SetFieldGood

\* A read may note that a metamethod is absent, or call it.
LEMMA GettableGood ==
  ASSUME NEW x, Good(x), NEW t0, NEW key, NEW ra
  PROVE  Good(luaV_gettable(x, t0, key, ra))
<1> DEFINE r == luaV_gettable(x, t0, key, ra)
<1>1. \/ r = Raise(x)
      \/ \E t : r = SetReg(x, ra, GetTable(x, t, key))
      \/ \E t : r = SetReg(fasttm(x, Meta(x, t), "__index").m, ra, NilV)
      \/ \E f, args : r = Call(x, f, args, ra, 1, Regs1)
  BY DEF luaV_gettable
<1> HIDE DEF r
<1>2. Good(r) BY <1>1, RaiseGood, SetRegGood, FasttmGood, CallGood
<1> QED BY <1>2 DEF r

\* One step of a write goes on with a good machine.
LEMMA FollowedGood ==
  ASSUME NEW a, NEW key, Good(a.m)
  PROVE  /\ Good(Made(a, key)) /\ Good(NewIndex(a, key).m)
         /\ Good(Followed(a, key).m)
<1>1. Good(Made(a, key)) BY FieldGood DEF Made
<1>2. Good(NewIndex(a, key).m) BY <1>1, FasttmGood DEF NewIndex
<1>3. Followed(a, key).m \in {a.m, Made(a, key)} BY DEF Followed
<1> QED BY <1>1, <1>2, <1>3

\* The objects that a write goes through.
Accesses(p, n, x, t, key) ==
  p = [i \in 0..n |-> IF i = 0 THEN [m |-> x, t |-> t] ELSE Followed(p[i - 1], key)]

\* A nonempty set of naturals has a least element: what holds of 0 and, with
\* each number, of the next one, holds of all up to n.
LEMMA UpTo ==
  ASSUME NEW n \in Nat, NEW T, T \subseteq 0..n, 0 \in T,
         \A k \in 1..n : k - 1 \in T => k \in T
  PROVE  T = 0..n
<1> DEFINE Rest == (0..n) \ T
           Less == OpToRel(<, Nat)
<1>1. SUFFICES ASSUME Rest # {} PROVE FALSE OBVIOUS
<1>2. IsWellFoundedOn(Less, Nat) BY NatLessThanWellFounded
<1> HIDE DEF Less
<1>3. Rest \subseteq Nat OBVIOUS
<1> HIDE DEF Rest
<1>4. PICK k \in Rest : \A j \in Rest : <<j, k>> \notin Less BY <1>1, <1>2, <1>3, WFMin
<1>5. \A j \in Rest : ~(j < k) BY <1>3, <1>4 DEF Less, OpToRel
<1>6. k \in 1..n /\ k - 1 \in 0..n /\ k - 1 < k BY <1>4 DEF Rest
<1>7. k - 1 \in T BY <1>5, <1>6 DEF Rest
<1>8. k \in T BY <1>6, <1>7
<1> QED BY <1>4, <1>8 DEF Rest

\* There is such a function.
LEMMA AccessesExist ==
  ASSUME NEW n \in Nat, NEW x, NEW t, NEW key
  PROVE  \E p : Accesses(p, n, x, t, key)
<1> DEFINE T == {k \in 0..n : \E p : Accesses(p, k, x, t, key)}
<1>1. 0 \in T
  <2>1. PICK p : p = [k \in 0..0 |-> [m |-> x, t |-> t]] OBVIOUS
  <2>2. Accesses(p, 0, x, t, key) BY <2>1 DEF Accesses
  <2> QED BY <2>2
<1>2. ASSUME NEW k \in 1..n, k - 1 \in T PROVE k \in T
  <2>1. PICK p : Accesses(p, k - 1, x, t, key) BY <1>2
  <2>2. PICK q : q = [i \in 0..k |-> IF i = k THEN Followed(p[k - 1], key) ELSE p[i]] OBVIOUS
  <2>3. Accesses(q, k, x, t, key) BY <2>1, <2>2 DEF Accesses
  <2> QED BY <2>3
<1>3. T = 0..n BY <1>1, <1>2, UpTo
<1> QED BY <1>3

\* A write comes to its last object with a good machine.
LEMMA AccessGood ==
  ASSUME NEW x, Good(x), NEW t, NEW key
  PROVE  Good(Access(x, t, key).m)
<1> DEFINE n == MAXTAGLOOP - 1
<1>1. n \in Nat BY MaxTagLoopAssumption
<1> HIDE DEF n
<1>2. \E p : Accesses(p, n, x, t, key) BY <1>1, AccessesExist
<1>3. PICK p : Accesses(p, n, x, t, key) /\ Access(x, t, key) = p[n]
  BY <1>2 DEF Access, Accesses, n
<1> DEFINE T == {k \in 0..n : Good(p[k].m)}
<1>4. 0 \in T BY <1>1, <1>3 DEF Accesses
<1>5. ASSUME NEW k \in 1..n, k - 1 \in T PROVE k \in T
  <2>1. p[k] = Followed(p[k - 1], key) BY <1>1, <1>3 DEF Accesses
  <2>2. Good(p[k].m) BY <1>5, <2>1, FollowedGood
  <2> QED BY <1>1, <2>2
<1>6. T = 0..n BY <1>1, <1>4, <1>5, UpTo
<1> QED BY <1>1, <1>3, <1>6

\* A write empties the cache of the table it writes.
LEMMA SettableGood ==
  ASSUME NEW x, Good(x), NEW t, NEW key, NEW v
  PROVE  Good(luaV_settable(x, t, key, v))
<1> DEFINE r == luaV_settable(x, t, key, v)
           a == Access(x, t, key)
<1>1. Good(a.m) BY AccessGood
<1>2. \/ r = Raise(a.m)
      \/ r = SetField(Made(a, key), a.t, key, v)
      \/ r = SetField(NewIndex(a, key).m, a.t, key, v)
      \/ \E f, args : r = Call(Made(a, key), f, args, 0, 0, Regs1)
  BY DEF luaV_settable
<1> HIDE DEF r, a
<1>3. Good(Made(a, key)) /\ Good(NewIndex(a, key).m) BY <1>1, FollowedGood
<1>4. Good(r) BY <1>1, <1>2, <1>3, RaiseGood, SetFieldGood, CallGood
<1> QED BY <1>4 DEF r

-----------------------------------------------------------------------------
(* Instructions.                                                           *)

\* Arithmetic and concatenation.
LEMMA ArithGood ==
  ASSUME NEW x, Good(x)
  PROVE  /\ \A op, b, c, ra : Good(Arith(x, op, b, c, ra))
         /\ \A vs, ra : Good(luaV_concat(x, vs, ra))
<1>1. ASSUME NEW op, NEW b, NEW c, NEW ra PROVE Good(Arith(x, op, b, c, ra))
  BY SetRegGood, RaiseGood, CallGood DEF Arith
<1>2. ASSUME NEW vs, NEW ra PROVE Good(luaV_concat(x, vs, ra))
  BY SetRegGood, RaiseGood, CallGood, ConcatenatingGood DEF luaV_concat
<1> QED BY <1>1, <1>2

\* Comparisons.
LEMMA CompareGood ==
  ASSUME NEW x, Good(x), NEW b, NEW c, NEW want
  PROVE  /\ Good(luaV_equalval(x, b, c, want)) /\ Good(luaV_lessthan(x, b, c, want))
         /\ Good(lessequal(x, b, c, want))
<1>1. Good(luaV_equalval(x, b, c, want))
  <2> DEFINE f1 == fasttm(x, Meta(x, b), "__eq")
             f2 == fasttm(f1.m, Meta(x, c), "__eq")
             r == luaV_equalval(x, b, c, want)
  <2>1. \E y \in {x, f1.m, f2.m} :
          \/ \E holds : r = Test(y, holds)
          \/ \E f, args : r = Call(y, f, args, 0, 1, <<"test", want>>)
    BY DEF luaV_equalval
  <2>2. Good(f1.m) BY FasttmGood
  <2> HIDE DEF f1
  <2>3. Good(f2.m) BY <2>2, FasttmGood
  <2> HIDE DEF f2, r
  <2>4. Good(r) BY <2>1, <2>2, <2>3, TestGood, CallGood
  <2> QED BY <2>4 DEF r
<1>2. \A d, e, w : Good(luaV_lessthan(x, d, e, w))
  <2> SUFFICES ASSUME NEW d, NEW e, NEW w PROVE Good(luaV_lessthan(x, d, e, w)) OBVIOUS
  <2> QED BY TestGood, CallGood, RaiseGood DEF luaV_lessthan
<1>3. Good(lessequal(x, b, c, want)) BY <1>2, TestGood, CallGood DEF lessequal
<1> QED BY <1>1, <1>2, <1>3

\* A closure opens upvalues.
LEMMA ClosureGood == ASSUME NEW x, Good(x), NEW i PROVE Good(Closure(x, i))
<1>1. \E regs, funs, v, n :
        Closure(x, i) = Jump(SetReg([luaF_findupval(x, regs) EXCEPT !.funs = funs], i.a, v), n)
  BY DEF Closure
<1>2. PICK regs, funs, v, n :
        Closure(x, i) = Jump(SetReg([luaF_findupval(x, regs) EXCEPT !.funs = funs], i.a, v), n)
  BY <1>1
<1> DEFINE opened == luaF_findupval(x, regs)
           made == [opened EXCEPT !.funs = funs]
<1>3. Good(opened) BY UpvaluesGood
<1> HIDE DEF opened
<1>4. "tabs" \in DOMAIN made /\ made.tabs = opened.tabs BY <1>3 DEF Good
<1>5. Closure(x, i) = Jump(SetReg(made, i.a, v), n) BY <1>2 DEF opened
<1> HIDE DEF made
<1>6. Good(made) BY <1>3, <1>4, Elsewhere
<1> QED BY <1>5, <1>6, SetRegGood, JumpGood

\* The numeric loop.
LEMMA ForGood ==
  ASSUME NEW x, Good(x), NEW i
  PROVE  Good(ForLoop(x, i)) /\ Good(ForPrep(x, i))
<1>1. Good(ForLoop(x, i)) BY SetRegGood, JumpGood DEF ForLoop
<1>2. Good(ForPrep(x, i)) BY SetRegGood, JumpGood, RaiseGood DEF ForPrep
<1> QED BY <1>1, <1>2

\* Fields are added to a table.
WithFields(x, k, vals) ==
    [x EXCEPT !.tabs[k].map =
         [f \in DOMAIN vals \cup DOMAIN @ |-> IF f \in DOMAIN vals THEN vals[f] ELSE @[f]]]

\* At numbers, there is no metamethod.
LEMMA WithFieldsGood ==
  ASSUME NEW x, Good(x), NEW k, NEW vals, \A key \in DOMAIN vals : key[1] = "num"
  PROVE  Good(WithFields(x, k, vals))
<1> DEFINE y == WithFields(x, k, vals)
           old == x.tabs[k].map
           map == [f \in DOMAIN vals \cup DOMAIN old |-> IF f \in DOMAIN vals THEN vals[f] ELSE old[f]]
<1>1. "tabs" \in DOMAIN y /\ y.tabs = [x.tabs EXCEPT ![k].map = map] BY DEF WithFields, Good
<1> HIDE DEF y
<1>2. DOMAIN y.tabs = DOMAIN x.tabs /\ y.tabs = [j \in DOMAIN y.tabs |-> y.tabs[j]] BY <1>1
<1>3. \A j \in DOMAIN x.tabs : j # k => y.tabs[j] = x.tabs[j] BY <1>1
<1>4. ASSUME NEW event, Str(event) \in DOMAIN map
      PROVE  Str(event) \in DOMAIN x.tabs[k].map /\ map[Str(event)] = x.tabs[k].map[Str(event)]
  <2>1. Str(event)[1] = "str" BY DEF Str
  <2>2. Str(event) \notin DOMAIN vals BY <2>1
  <2> QED BY <1>4, <2>2
<1> HIDE DEF map
<1>5. ASSUME k \in DOMAIN x.tabs, HonestTable(x.tabs[k]) PROVE HonestTable(y.tabs[k])
  <2>1. y.tabs[k] = [x.tabs[k] EXCEPT !.map = map] BY <1>1, <1>5
  <2>2. /\ DOMAIN y.tabs[k] = {"map", "meta", "flags"}
        /\ y.tabs[k].map = map /\ y.tabs[k].flags = x.tabs[k].flags
    BY <1>5, <2>1 DEF HonestTable
  <2> QED BY <1>4, <1>5, <2>2 DEF HonestTable
<1>6. HonestTables(x.tabs) BY DEF Good
<1>7. HonestTables(y.tabs) BY <1>2, <1>3, <1>5, <1>6, ChangedHonest
<1> QED BY <1>1, <1>7 DEF Good, y

\* The items of a constructor are at numbers.
LEMMA SetListGood == ASSUME NEW x, Good(x), NEW i PROVE Good(SetList(x, i))
<1> DEFINE n == IF i.b = 0 THEN Top(x).top - i.a - 1 ELSE i.b
           c == IF i.c = 0 THEN Top(x).p.code[Top(x).pc + 1].a ELSE i.c
           first == (c - 1) * LFIELDS_PER_FLUSH
           vals == [k \in {Num(first + j) : j \in 1..n} |-> Reg(x, i.a + k[2] - first)]
<1>1. SetList(x, i) = Jump(WithFields(x, Reg(x, i.a)[2], vals), IF i.c = 0 THEN 1 ELSE 0)
  BY DEF SetList, WithFields
<1> HIDE DEF first, n
<1>2. \A key \in DOMAIN vals : key[1] = "num" BY DEF Num
<1> HIDE DEF vals
<1>3. Good(WithFields(x, Reg(x, i.a)[2], vals)) BY <1>2, WithFieldsGood
<1> QED BY <1>1, <1>3, JumpGood

\* The arguments of a function with varargs.
LEMMA VarArgGood == ASSUME NEW x, Good(x), NEW i PROVE Good(VarArg(x, i))
<1>1. \E vs, frames : VarArg(x, i) \in {SetRegs(x, i.a, vs), WithFrames(SetRegs(x, i.a, vs), frames)}
  BY DEF VarArg, WithFrames
<1> QED BY <1>1, SetRegsGood, WithGood

\* Moves between registers, constants, upvalues and globals.
LEMMA MovesGood ==
  ASSUME NEW x, Good(x), NEW i,
         i.op \in {"MOVE", "LOADK", "LOADBOOL", "LOADNIL", "GETUPVAL", "SETUPVAL",
                   "GETGLOBAL", "SETGLOBAL"}
  PROVE  Good(Moves(x, i))
<1>1. CASE i.op \in {"MOVE", "LOADK", "LOADBOOL", "LOADNIL", "GETUPVAL"}
  BY <1>1, SetRegGood, SetRegsGood, JumpGood DEF Moves
<1>2. CASE i.op = "SETUPVAL"
  <2>1. "tabs" \in DOMAIN Moves(x, i) /\ Moves(x, i).tabs = x.tabs BY <1>2 DEF Moves, Good
  <2> QED BY <2>1, Elsewhere
<1>3. CASE i.op \in {"GETGLOBAL", "SETGLOBAL"} BY <1>3, GettableGood, SettableGood DEF Moves
<1> QED BY <1>1, <1>2, <1>3

\* Tables.
LEMMA TablesGood ==
  ASSUME NEW x, Good(x), NEW i,
         i.op \in {"GETTABLE", "SETTABLE", "NEWTABLE", "SELF", "SETLIST"}
  PROVE  Good(Tables(x, i))
<1>1. CASE i.op \in {"GETTABLE", "SETTABLE"} BY <1>1, GettableGood, SettableGood DEF Tables
<1>2. CASE i.op = "NEWTABLE"
  <2>1. \E fields, v : Tables(x, i) = SetReg(WithTable(x, fields), i.a, v)
    BY <1>2 DEF Tables, WithTable
  <2> QED BY <2>1, WithGood, SetRegGood
<1>3. CASE i.op = "SELF" BY <1>3, SetRegGood, GettableGood DEF Tables
<1>4. CASE i.op = "SETLIST" BY <1>4, SetListGood DEF Tables
<1> QED BY <1>1, <1>2, <1>3, <1>4

\* Arithmetic, length, negation, concatenation.
LEMMA OperationsGood == ASSUME NEW x, Good(x), NEW i PROVE Good(Operations(x, i))
<1>1. CASE i.op \in {"NOT", "LEN"} BY <1>1, SetRegGood, RaiseGood DEF Operations
<1>2. CASE i.op \notin {"NOT", "LEN"} BY <1>2, ArithGood DEF Operations
<1> QED BY <1>1, <1>2

\* Jumps, tests and loops.
LEMMA BranchesGood ==
  ASSUME NEW x, Good(x), NEW i,
         i.op \in {"JMP", "EQ", "LT", "LE", "TEST", "TESTSET", "FORLOOP", "FORPREP", "TFORLOOP"}
  PROVE  Good(Branches(x, i))
<1>1. CASE i.op = "JMP" BY <1>1, JumpGood DEF Branches
<1>2. CASE i.op \in {"EQ", "LT", "LE"} BY <1>2, CompareGood DEF Branches
<1>3. CASE i.op \in {"TEST", "TESTSET"} BY <1>3, TestGood, SetRegGood DEF Branches
<1>4. CASE i.op \in {"FORLOOP", "FORPREP"} BY <1>4, ForGood DEF Branches
<1>5. CASE i.op = "TFORLOOP" BY <1>5, CallGood, SetRegsGood DEF Branches
<1> QED BY <1>1, <1>2, <1>3, <1>4, <1>5

\* The frame of the caller makes place for that of the function.
LEMMA TailCallGood == ASSUME NEW x, Good(x), NEW i, NEW args PROVE Good(TailCall(x, i, args))
<1>1. \/ TailCall(x, i, args) = Call(x, Reg(x, i.a), args, i.a, LUA_MULTRET, Regs1)
      \/ \E frames, ra, n, cont :
           TailCall(x, i, args) = Call(WithFrames(luaF_close(x, 0), frames), Reg(x, i.a), args,
                                       ra, n, cont)
  BY DEF TailCall, WithFrames
<1>2. Good(luaF_close(x, 0)) BY UpvaluesGood
<1> QED BY <1>1, <1>2, WithGood, CallGood

\* Calls, returns and closures.
LEMMA FunctionsGood ==
  ASSUME NEW x, Good(x), NEW i,
         i.op \in {"CALL", "TAILCALL", "RETURN", "CLOSE", "CLOSURE", "VARARG"}
  PROVE  Good(Functions(x, i))
<1>1. CASE i.op = "CALL" BY <1>1, CallGood DEF Functions
<1>2. CASE i.op = "TAILCALL" BY <1>2, TailCallGood DEF Functions
<1>3. CASE i.op \in {"RETURN", "CLOSE"} BY <1>3, UpvaluesGood, ReturnGood DEF Functions
<1>4. CASE i.op = "CLOSURE" BY <1>4, ClosureGood DEF Functions
<1>5. CASE i.op = "VARARG" BY <1>5, VarArgGood DEF Functions
<1> QED BY <1>1, <1>2, <1>3, <1>4, <1>5

\* Every instruction keeps the caches honest.
LEMMA ExecuteGood == ASSUME NEW x, Good(x) PROVE Good(Execute(x))
<1> DEFINE i == Top(x).p.code[Top(x).pc + 1]
           y == Jump(x, 1)
<1>1. Good(y) BY JumpGood
<1>2. Execute(x) =
        CASE i.op \in {"MOVE", "LOADK", "LOADBOOL", "LOADNIL", "GETUPVAL", "SETUPVAL",
                       "GETGLOBAL", "SETGLOBAL"} -> Moves(y, i)
          [] i.op \in {"GETTABLE", "SETTABLE", "NEWTABLE", "SELF", "SETLIST"} -> Tables(y, i)
          [] i.op \in {"JMP", "EQ", "LT", "LE", "TEST", "TESTSET", "FORLOOP", "FORPREP",
                       "TFORLOOP"} -> Branches(y, i)
          [] i.op \in {"CALL", "TAILCALL", "RETURN", "CLOSE", "CLOSURE", "VARARG"} ->
               Functions(y, i)
          [] OTHER -> Operations(y, i)
  BY DEF Execute
<1> HIDE DEF y, i
<1> QED BY <1>1, <1>2, MovesGood, TablesGood, BranchesGood, FunctionsGood, OperationsGood

\* So does what goes on with a concatenation.
LEMMA AdvanceGood == ASSUME NEW x, Good(x) PROVE Good(Advance(x))
<1>1. \/ Advance(x) = Execute(x)
      \/ \E frames, vs, ra : Advance(x) = luaV_concat(WithFrames(x, frames), vs, ra)
  BY DEF Advance, WithFrames
<1> QED BY <1>1, ExecuteGood, WithGood, ArithGood

-----------------------------------------------------------------------------
(* The theorem.                                                            *)

\* A machine starts with one table, which has no cache yet.
LEMMA MachineGood == ASSUME NEW f, NEW args PROVE Good(Machine(f, args))
<1>1. Machine(f, args).tabs = <<NewTable(Globals)>> /\ "tabs" \in DOMAIN Machine(f, args)
  BY DEF Machine
<1> DEFINE t == NewTable(Globals)
<1>2. HonestTable(t) BY NewTableHonest
<1> HIDE DEF t
<1>3. HonestTables(<<t>>) BY <1>2 DEF HonestTables
<1> QED BY <1>1, <1>3 DEF Good, t

\* What is known of the machine says that its caches are honest.
LEMMA GoodHonest == IInv => FlagsHonest
<1> SUFFICES ASSUME IInv, m # none, NEW i \in DOMAIN m.tabs, NEW event \in m.tabs[i].flags
             PROVE  GetTable(m, <<"tab", i>>, Str(event)) = NilV
  BY DEF FlagsHonest
<1>1. HonestTables(m.tabs) BY DEF IInv, Good
<1>2. HonestTable(m.tabs[i]) BY <1>1 DEF HonestTables
<1> QED BY <1>2 DEF HonestTable, GetTable

\* The cache of absent metamethods never hides one that is there: for every
\* function, also one the compiler would not make, every argument and every
\* global, whatever tables and metatables it builds.
THEOREM CacheHonest == RunSpec => []FlagsHonest
<1>1. RunInit => IInv BY DEF RunInit, IInv
<1>2. IInv /\ [RunNext]_m => IInv'
  <2> SUFFICES ASSUME IInv, [RunNext]_m PROVE IInv' OBVIOUS
  <2>1. CASE m = none /\ \E f, args : m' = Machine(f, args) BY <2>1, MachineGood DEF IInv
  <2>2. CASE Instruction BY <2>2, AdvanceGood DEF IInv, Instruction
  <2>3. CASE UNCHANGED m BY <2>3 DEF IInv
  <2> QED BY <2>1, <2>2, <2>3 DEF RunNext
<1>3. IInv => FlagsHonest BY GoodHonest
<1> QED BY <1>1, <1>2, <1>3, PTL DEF RunSpec
=============================================================================
