---------------------------- MODULE LuaDoProofs ----------------------------
(***************************************************************************)
(* Proofs about LuaDo, for any number of coroutines and any limits.  The   *)
(* invariant says how the C stack, the CallInfos and the counters of the   *)
(* threads belong together, in the middle of an error too.                 *)
(***************************************************************************)
EXTENDS LuaDo, FiniteSetTheorems, SequenceTheorems, TLAPS

\* How the C stack is built: Java is at its bottom, metamethods, handlers and
\* pcall stay in the thread, and a switch is made by the thread below.
Shape == \A k \in DOMAIN cstack :
  /\ k = 1 => cstack[k].kind = "java" /\ cstack[k].from = None
  /\ k > 1 => IF cstack[k].kind \in {"java", "resume"}
              THEN cstack[k].from = cstack[k - 1].th
              ELSE cstack[k].th = cstack[k - 1].th
  /\ cstack[k].kind = "java" => cstack[k].th = Main
  /\ cstack[k].kind = "resume" => cstack[k].th \in Co /\ cstack[k].floor = 0

\* Below every activation there is a jump buffer of its thread, with no other
\* thread in between.
Jumps(j, k) ==
  /\ Protects(cstack[j])
  /\ \A i \in j .. k : cstack[i].th = cstack[k].th
  /\ \A i \in j + 1 .. k : ~Protects(cstack[i])
JumpBuffers == \A k \in DOMAIN cstack : \E j \in 1 .. k : Jumps(j, k)

\* The frames that must be left for activation a, on which b stands.
LeftFor(a, b) ==
  a.floor + (IF b.kind \in {"pcall", "java", "resume"} THEN 2
             ELSE IF b.kind = "meta" \/ a.kind = "resume" THEN 1 ELSE 0)
Left(j) == LeftFor(cstack[j], cstack[j + 1])
Frames ==
  /\ \A j \in 1 .. Len(cstack) - 1 : Len(ci[cstack[j].th]) >= Left(j)
  /\ \A k \in DOMAIN cstack : \A j \in 1 .. k - 1 :
       cstack[j].th = cstack[k].th => cstack[k].floor >= Left(j)
  /\ cstack # <<>> =>
       /\ Len(ci[L]) >= Top.floor
       /\ mode = "run" \/ Top.kind = "resume" => Len(ci[L]) > Top.floor

\* The nested C calls of th among the first k activations.
BelowIn(s, th, k) == {j \in 1 .. k : s[j].th = th}
Below(th, k) == BelowIn(cstack, th, k)
Base(th) == IF th = Main THEN 0 ELSE baseCcalls[th] - 1
Calls(th, k) == Base(th) + Cardinality(Below(th, k))

\* nCcalls counts them, in the thread and where it was saved.  The first
\* activation of a coroutine is that of lua_resume.
CountedAt(k, r) ==
  /\ IF r.kind = "resume" THEN Below(r.th, k - 1) = {} ELSE r.n = Calls(r.th, k - 1)
  /\ r.th # Main => baseCcalls[r.th] > 0
  /\ r.th # Main /\ r.kind # "resume" =>
       \E j \in Below(r.th, k - 1) : cstack[j].kind = "resume"
Counts ==
  /\ baseCcalls[Main] = 0
  /\ \A th \in Thread : th = Main \/ Of(th) # {} => nCcalls[th] = Calls(th, Len(cstack))
  /\ \A k \in DOMAIN cstack : CountedAt(k, cstack[k])

\* Where no coroutine called Java, it is the depth of the stack.
Depths == \A k \in DOMAIN cstack :
  (\A i \in 1 .. k : cstack[i].kind = "java" => cstack[i].from \notin Co) =>
    Calls(cstack[k].th, k) = k

\* No counter is beyond the second limit, and only the thread that fails is at it.
Limits ==
  /\ \A k \in DOMAIN cstack : cstack[k].n < MAXCCALLS + Extra
  /\ \A th \in Thread : nCcalls[th] < MAXCCALLS + Extra
       \/ (mode = "throw" /\ th = L /\ nCcalls[th] = MAXCCALLS + Extra)

\* A coroutine without a pcall has no handler, and its first pcall saved none.
Handlers == \A co \in Co : status[co] # "error" =>
  /\ (\A k \in Of(co) : cstack[k].kind # "pcall") => errfunc[co] = None
  /\ \A k \in Of(co) :
       cstack[k].kind = "pcall" /\ (\A j \in Below(co, k - 1) : cstack[j].kind # "pcall")
         => cstack[k].ef = None

\* The coroutines on the C stack are the active ones.
Statuses == \A co \in Co :
  /\ Of(co) # {} => status[co] = "ok"
  /\ Of(co) = {} /\ status[co] \in {"none", "ok"} => ci[co] = <<>>
  /\ status[co] = "yield" => Len(ci[co]) > 1

Stopped == mode # "run" => cstack # <<>>

\* Without the bounds of the counters, which follow from the other parts.
Activations == [kind : {"meta", "pcall", "java", "handler", "resume"}, th : Thread,
                from : Thread \cup {None}, floor : Nat, wrap : BOOLEAN,
                n : Nat, ef : Handler]
CallInfos == [Thread -> Seq({"Lua", "C"})]
Typed ==
  /\ status \in [Thread -> {"none", "ok", "yield", "error"}]
  /\ fresh \in [Thread -> BOOLEAN]
  /\ ci \in CallInfos
  /\ nCcalls \in [Thread -> Nat]
  /\ baseCcalls \in [Thread -> 0 .. MAXCCALLS]
  /\ errfunc \in [Thread -> Handler]
  /\ cstack \in Seq(Activations)
  /\ mode \in {"run", "errormsg", "throw"}

IInv == /\ Typed /\ Shape /\ JumpBuffers /\ Frames /\ Counts /\ Depths /\ Limits
        /\ Handlers /\ Statuses /\ Stopped
-----------------------------------------------------------------------------
(* Sequences and sets. *)

\* The beginning of a sequence, as a longjmp leaves it.
LEMMA CutSeq ==
  ASSUME NEW S, NEW s \in Seq(S), NEW m \in 0 .. Len(s)
  PROVE  /\ SubSeq(s, 1, m) \in Seq(S)
         /\ Len(SubSeq(s, 1, m)) = m
         /\ \A i \in 1 .. m : SubSeq(s, 1, m)[i] = s[i]
<1>1. \A i \in 1 .. m : s[i] \in S BY ElementOfSeq
<1>2. m \in Int /\ 1 \in Int /\ m - 1 + 1 = m OBVIOUS
<1>3. /\ SubSeq(s, 1, m) \in Seq(S)
      /\ Len(SubSeq(s, 1, m)) = IF 1 <= m THEN m - 1 + 1 ELSE 0
      /\ \A i \in 1 .. m - 1 + 1 : SubSeq(s, 1, m)[i] = s[1 + i - 1]
  BY ONLY <1>1, <1>2, SubSeqProperties
<1>4. \A i \in 1 .. m : 1 + i - 1 = i OBVIOUS
<1> QED BY <1>2, <1>3, <1>4

LEMMA FrontSeq ==
  ASSUME NEW S, NEW s \in Seq(S), s # <<>>
  PROVE  /\ Front(s) \in Seq(S)
         /\ Len(Front(s)) = Len(s) - 1
         /\ \A i \in 1 .. Len(s) - 1 : Front(s)[i] = s[i]
<1>1. Len(s) - 1 \in 0 .. Len(s) BY EmptySeq, LenProperties
<1> QED BY <1>1, CutSeq DEF Front

\* How many activations a thread has, one activation further.
LEMMA BelowNat ==
  ASSUME NEW s, NEW th, NEW k \in Nat
  PROVE  IsFiniteSet(BelowIn(s, th, k)) /\ Cardinality(BelowIn(s, th, k)) \in Nat
<1>1. IsFiniteSet(1 .. k) BY FS_Interval
<1>2. BelowIn(s, th, k) \subseteq 1 .. k BY DEF BelowIn
<1> QED BY <1>1, <1>2, FS_Subset, FS_CardinalityType

LEMMA BelowAdd ==
  ASSUME NEW s, NEW th, NEW k \in Nat
  PROVE  Cardinality(BelowIn(s, th, k + 1)) =
           Cardinality(BelowIn(s, th, k)) + (IF s[k + 1].th = th THEN 1 ELSE 0)
<1>1. CASE s[k + 1].th = th
  <2>1. BelowIn(s, th, k + 1) = BelowIn(s, th, k) \cup {k + 1} BY <1>1 DEF BelowIn
  <2>2. k + 1 \notin BelowIn(s, th, k) BY DEF BelowIn
  <2> QED BY <1>1, <2>1, <2>2, BelowNat, FS_AddElement
<1>2. CASE s[k + 1].th # th
  <2>1. BelowIn(s, th, k + 1) = BelowIn(s, th, k) BY <1>2 DEF BelowIn
  <2> QED BY <1>2, <2>1, BelowNat
<1> QED BY <1>1, <1>2

LEMMA BelowSome ==
  ASSUME NEW s, NEW th, NEW k \in Nat, NEW i \in BelowIn(s, th, k)
  PROVE  Cardinality(BelowIn(s, th, k)) >= 1
<1>1. Cardinality(BelowIn(s, th, k)) # 0 BY BelowNat, FS_EmptySet
<1> QED BY <1>1, BelowNat

\* Two stacks that agree on k activations have the same counts there.
LEMMA BelowSame ==
  ASSUME NEW s, NEW t, NEW th, NEW k \in Nat, \A i \in 1 .. k : s[i] = t[i]
  PROVE  BelowIn(s, th, k) = BelowIn(t, th, k)
BY DEF BelowIn

LEMMA OfIsBelow ==
  ASSUME Typed
  PROVE  \A th : Of(th) = Below(th, Len(cstack))
BY LenProperties DEF Typed, Of, Below, BelowIn

\* The activation and the thread that run.
LEMMA TopTyped ==
  ASSUME Typed, cstack # <<>>
  PROVE  /\ Len(cstack) \in Nat \ {0} /\ Len(cstack) \in DOMAIN cstack
         /\ Top \in Activations /\ L \in Thread
<1>1. Len(cstack) \in Nat \ {0} /\ DOMAIN cstack = 1 .. Len(cstack)
  BY EmptySeq, LenProperties DEF Typed
<1>2. Top \in Activations BY <1>1, ElementOfSeq DEF Typed, Top
<1> QED BY <1>1, <1>2 DEF Activations, L
-----------------------------------------------------------------------------
(* A jump buffer of the running thread is the nearest one on the stack, and *)
(* what is above it is of the same thread. *)
LEMMA ErrorJmpFound ==
  ASSUME Typed, JumpBuffers, cstack # <<>>
  PROVE  /\ ErrorJmp(L) \in DOMAIN cstack
         /\ Protects(cstack[ErrorJmp(L)])
         /\ \A i \in ErrorJmp(L) .. Len(cstack) : cstack[i].th = L
         /\ \A i \in ErrorJmp(L) + 1 .. Len(cstack) : ~Protects(cstack[i])
<1>1. Len(cstack) \in Nat /\ Len(cstack) \in DOMAIN cstack /\ DOMAIN cstack = 1 .. Len(cstack)
  BY TopTyped, LenProperties DEF Typed
<1>2. PICK j \in 1 .. Len(cstack) : Jumps(j, Len(cstack)) BY <1>1 DEF JumpBuffers
<1>3. \A i \in j .. Len(cstack) : cstack[i].th = L BY <1>2 DEF Jumps, L, Top
<1>4. \A k \in DOMAIN cstack :
        (/\ cstack[k].th = L /\ Protects(cstack[k])
         /\ \A i \in k + 1 .. Len(cstack) : cstack[i].th = L => ~Protects(cstack[i]))
        <=> k = j
  <2> SUFFICES ASSUME NEW k \in DOMAIN cstack
               PROVE (/\ cstack[k].th = L /\ Protects(cstack[k])
                      /\ \A i \in k + 1 .. Len(cstack) : cstack[i].th = L => ~Protects(cstack[i]))
                     <=> k = j
      OBVIOUS
  <2>1. j < k \/ j = k \/ k < j BY <1>1
  <2>2. CASE j < k
    <3>1. k \in j + 1 .. Len(cstack) BY <1>1, <2>2
    <3>2. ~Protects(cstack[k]) BY <1>2, <3>1 DEF Jumps
    <3> QED BY <2>2, <3>2
  <2>3. CASE k < j
    <3>1. j \in k + 1 .. Len(cstack) BY <1>1, <2>3
    <3>2. Protects(cstack[j]) /\ cstack[j].th = L BY <1>1, <1>2, <1>3 DEF Jumps
    <3> QED BY <2>3, <3>1, <3>2
  <2>4. CASE j = k
    <3>1. cstack[j].th = L /\ Protects(cstack[j]) BY <1>1, <1>2, <1>3 DEF Jumps
    <3>2. \A i \in j + 1 .. Len(cstack) : ~Protects(cstack[i]) BY <1>2 DEF Jumps
    <3> QED BY <2>4, <3>1, <3>2
  <2> QED BY <2>1, <2>2, <2>3, <2>4
<1>5. ErrorJmp(L) = j BY <1>1, <1>4 DEF ErrorJmp
<1> QED BY <1>1, <1>2, <1>3, <1>5 DEF Jumps
-----------------------------------------------------------------------------
(* An activation r is pushed. *)

\* What luaD_call and lua_resume push.
Fits(r) ==
  /\ r \in Activations
  /\ \/ r.kind = "java" /\ r.th = Main /\ cstack = <<>> /\ r.from = None
     \/ r.kind = "java" /\ r.th = Main /\ cstack # <<>> /\ r.from = L
     \/ r.kind \in {"meta", "pcall", "handler"} /\ cstack # <<>> /\ r.th = L
     \/ /\ r.kind = "resume" /\ cstack # <<>> /\ r.from = L /\ r.th \in Co
        /\ r.floor = 0 /\ Of(r.th) = {}

LEMMA PushStack ==
  ASSUME Typed, NEW r \in Activations, cstack' = Append(cstack, r), NEW n, n = Len(cstack)
  PROVE  /\ n \in Nat /\ DOMAIN cstack = 1 .. n /\ cstack' \in Seq(Activations)
         /\ Len(cstack') = n + 1 /\ DOMAIN cstack' = 1 .. n + 1 /\ cstack' # <<>>
         /\ \A i \in 1 .. n : cstack'[i] = cstack[i]
         /\ cstack'[n + 1] = r /\ Top' = r /\ L' = r.th
         /\ cstack = <<>> <=> n = 0
         /\ n > 0 => Top = cstack[n] /\ L = cstack[n].th
<1>1. cstack \in Seq(Activations) BY DEF Typed
<1>2. /\ cstack' \in Seq(Activations)
      /\ Len(cstack') = n + 1
      /\ \A i \in 1 .. n : cstack'[i] = cstack[i]
      /\ cstack'[n + 1] = r
  BY <1>1, AppendProperties
<1>3. n \in Nat /\ DOMAIN cstack = 1 .. n /\ DOMAIN cstack' = 1 .. n + 1
  BY <1>1, <1>2, LenProperties
<1>4. cstack = <<>> <=> n = 0 BY <1>1, EmptySeq
<1>5. cstack' # <<>> BY <1>2, <1>3, EmptySeq
<1> QED BY <1>2, <1>3, <1>4, <1>5 DEF Top, L

LEMMA PushShape ==
  ASSUME Typed, Shape, NEW r, Fits(r), cstack' = Append(cstack, r)
  PROVE  Shape'
<1>1. PICK n : n = Len(cstack) OBVIOUS
<1>2. r \in Activations BY DEF Fits
<1>3. SUFFICES ASSUME NEW k \in 1 .. n + 1
      PROVE /\ k = 1 => cstack'[k].kind = "java" /\ cstack'[k].from = None
            /\ k > 1 => IF cstack'[k].kind \in {"java", "resume"}
                        THEN cstack'[k].from = cstack'[k - 1].th
                        ELSE cstack'[k].th = cstack'[k - 1].th
            /\ cstack'[k].kind = "java" => cstack'[k].th = Main
            /\ cstack'[k].kind = "resume" => cstack'[k].th \in Co /\ cstack'[k].floor = 0
  BY <1>1, <1>2, PushStack DEF Shape
<1>4. CASE k \in 1 .. n
  <2>1. k \in DOMAIN cstack /\ cstack'[k] = cstack[k] BY <1>1, <1>2, <1>4, PushStack
  <2>2. k > 1 => cstack'[k - 1] = cstack[k - 1] BY <1>1, <1>2, <1>4, PushStack
  <2> QED BY <2>1, <2>2 DEF Shape
<1>5. CASE k = n + 1
  <2>1. cstack'[k] = r /\ n \in Nat BY <1>1, <1>2, <1>5, PushStack
  <2>2. n = 0 => cstack = <<>> BY <1>1, <1>2, PushStack
  <2>3. n > 0 => cstack # <<>> /\ cstack'[k - 1] = cstack[n] /\ L = cstack[n].th
    BY <1>1, <1>2, <1>5, PushStack
  <2>4. CASE n = 0 BY <1>5, <2>1, <2>2, <2>4 DEF Fits
  <2>5. CASE n > 0
    <3>1. k > 1 /\ k # 1 BY <1>5, <2>1, <2>5
    <3> QED BY <2>1, <2>3, <2>5, <3>1 DEF Fits
  <2>6. n = 0 \/ n > 0 BY <2>1
  <2> QED BY <2>4, <2>5, <2>6
<1> QED BY <1>1, <1>2, <1>4, <1>5, PushStack

LEMMA PushJumps ==
  ASSUME Typed, JumpBuffers, NEW r, Fits(r), cstack' = Append(cstack, r)
  PROVE  JumpBuffers'
<1>1. PICK n : n = Len(cstack) OBVIOUS
<1>2. r \in Activations BY DEF Fits
<1>3. SUFFICES ASSUME NEW k \in 1 .. n + 1 PROVE \E j \in 1 .. k : Jumps(j, k)'
  BY <1>1, <1>2, PushStack DEF JumpBuffers
<1>4. n \in Nat /\ DOMAIN cstack = 1 .. n /\ \A i \in 1 .. n : cstack'[i] = cstack[i]
  BY <1>1, <1>2, PushStack
<1>5. cstack'[n + 1] = r BY <1>1, <1>2, PushStack
<1>6. CASE k \in 1 .. n
  <2>1. PICK j \in 1 .. k : Jumps(j, k) BY <1>4, <1>6 DEF JumpBuffers
  <2>2. \A i \in j .. k : cstack'[i] = cstack[i] BY <1>4, <1>6, <2>1
  <2>3. j \in j .. k /\ k \in j .. k /\ j + 1 .. k \subseteq j .. k BY <1>4, <1>6, <2>1
  <2>4. Jumps(j, k)' BY <2>1, <2>2, <2>3 DEF Jumps, Protects
  <2> QED BY <2>1, <2>4
<1>7. CASE k = n + 1 /\ Protects(r)
  <2>1. Jumps(k, k)' BY <1>4, <1>5, <1>7 DEF Jumps, Protects
  <2> QED BY <1>4, <1>7, <2>1
<1>8. CASE k = n + 1 /\ ~Protects(r)
  <2>1. cstack # <<>> /\ r.th = L BY <1>8 DEF Fits, Protects
  <2>2. n \in 1 .. n /\ L = cstack[n].th BY <1>1, <1>2, <1>4, <2>1, PushStack
  <2>3. PICK j \in 1 .. n : Jumps(j, n) BY <1>4, <2>2 DEF JumpBuffers
  <2>4. \A i \in j .. k : cstack'[i].th = r.th
    <3> SUFFICES ASSUME NEW i \in j .. k PROVE cstack'[i].th = r.th OBVIOUS
    <3>1. i \in j .. n \/ i = n + 1 BY <1>4, <1>8, <2>3
    <3> QED BY <1>4, <1>5, <2>1, <2>2, <2>3, <3>1 DEF Jumps
  <2>5. \A i \in j + 1 .. k : ~Protects(cstack'[i])
    <3> SUFFICES ASSUME NEW i \in j + 1 .. k PROVE ~Protects(cstack'[i]) OBVIOUS
    <3>1. i \in j + 1 .. n \/ i = n + 1 BY <1>4, <1>8, <2>3
    <3> QED BY <1>4, <1>5, <1>8, <2>3, <3>1 DEF Jumps
  <2>6. Protects(cstack'[j]) BY <1>4, <2>3 DEF Jumps
  <2>7. cstack'[k] = r /\ j \in 1 .. k BY <1>4, <1>5, <1>8, <2>3
  <2>8. Jumps(j, k)' BY <2>4, <2>5, <2>6, <2>7 DEF Jumps, Protects
  <2> QED BY <2>7, <2>8
<1> QED BY <1>4, <1>6, <1>7, <1>8

\* The counters of a push: luaD_call counts on, lua_resume from its caller.
CountsOn(r) ==
  \/ /\ r.kind # "resume" /\ r.n = nCcalls[r.th]
     /\ nCcalls' = [nCcalls EXCEPT ![r.th] = nCcalls[r.th] + 1]
     /\ baseCcalls' = baseCcalls
  \/ /\ r.kind = "resume"
     /\ nCcalls' = [nCcalls EXCEPT ![r.th] = Level + 1]
     /\ baseCcalls' = [baseCcalls EXCEPT ![r.th] = Level + 1]

\* The counts of the activations that were there before are as they were.
LEMMA PushCalls ==
  ASSUME Typed, Shape, Counts, NEW r, Fits(r), cstack' = Append(cstack, r), CountsOn(r),
         NEW n, n = Len(cstack)
  PROVE  /\ \A th \in Thread, k \in 0 .. n : Below(th, k)' = Below(th, k)
         /\ \A th \in Thread, k \in 0 .. n : th # r.th \/ r.kind # "resume" =>
              Base(th)' = Base(th) /\ Calls(th, k)' = Calls(th, k)
         /\ \A th \in Thread, k \in 0 .. n : Calls(th, k) \in Int
         /\ \A th \in Thread : th # r.th => Calls(th, n + 1)' = Calls(th, n)
         /\ r.kind # "resume" => Calls(r.th, n + 1)' = Calls(r.th, n) + 1
         /\ r.kind = "resume" => Calls(r.th, n + 1)' = Level + 1
<1>1. r \in Activations /\ r.th \in Thread BY DEF Fits, Activations
<1>2. n \in Nat /\ \A i \in 1 .. n : cstack'[i] = cstack[i] BY <1>1, PushStack
<1>3. cstack'[n + 1] = r BY <1>1, PushStack
<1>4. \A th \in Thread, k \in 0 .. n : Below(th, k)' = Below(th, k)
  BY <1>2 DEF Below, BelowIn
<1>5. \A th \in Thread : th # r.th \/ r.kind # "resume" => Base(th)' = Base(th)
  BY <1>1 DEF Base, CountsOn, Typed
<1>6. \A th \in Thread, k \in 0 .. n : th # r.th \/ r.kind # "resume" =>
        Calls(th, k)' = Calls(th, k)
  BY <1>4, <1>5 DEF Calls
<1>7. \A th \in Thread : Base(th) \in Int BY DEF Base, Typed
<1>8. \A th \in Thread, k \in 0 .. n : Cardinality(Below(th, k)) \in Nat
  BY <1>2, BelowNat DEF Below
<1>9. \A th \in Thread, k \in 0 .. n : Calls(th, k) \in Int
  BY <1>7, <1>8 DEF Calls
<1>10. \A th \in Thread :
         Cardinality(Below(th, n + 1)') =
           Cardinality(Below(th, n)') + (IF cstack'[n + 1].th = th THEN 1 ELSE 0)
  <2>1. n \in Nat BY <1>2
  <2>2. \A th : Cardinality(BelowIn(cstack', th, n + 1)) =
          Cardinality(BelowIn(cstack', th, n)) + (IF cstack'[n + 1].th = th THEN 1 ELSE 0)
    BY ONLY <2>1, BelowAdd
  <2> QED BY <2>2 DEF Below, BelowIn
<1>11. n \in 0 .. n BY <1>2
<1>12. \A th \in Thread : Cardinality(Below(th, n + 1)') =
         Cardinality(Below(th, n)) + (IF r.th = th THEN 1 ELSE 0)
  BY <1>3, <1>4, <1>10, <1>11
<1>13. \A th \in Thread : th # r.th => Calls(th, n + 1)' = Calls(th, n)
  BY <1>5, <1>7, <1>8, <1>11, <1>12 DEF Calls
<1>14. r.kind # "resume" => Calls(r.th, n + 1)' = Calls(r.th, n) + 1
  BY <1>1, <1>5, <1>7, <1>8, <1>11, <1>12 DEF Calls
<1>15. ASSUME r.kind = "resume" PROVE Calls(r.th, n + 1)' = Level + 1
  <2>1. cstack # <<>> /\ r.th \in Co /\ Of(r.th) = {} BY <1>15 DEF Fits
  <2>2. Cardinality(Below(r.th, n)) = 0 BY <2>1, OfIsBelow, FS_EmptySet
  <2>3. Level \in Nat BY <2>1, TopTyped DEF Level, Typed
  <2>4. Base(r.th)' = Level
    <3>1. r.th # Main /\ r.th \in Thread BY <2>1, ThreadAssumption DEF Thread
    <3>2. baseCcalls' = [baseCcalls EXCEPT ![r.th] = Level + 1] BY <1>1, <1>15 DEF CountsOn
    <3>3. baseCcalls'[r.th] = Level + 1 BY <3>1, <3>2 DEF Typed
    <3> QED BY <2>3, <3>1, <3>3 DEF Base
  <2> QED BY <1>1, <1>12, <2>2, <2>3, <2>4 DEF Calls
<1> QED BY <1>4, <1>5, <1>6, <1>9, <1>13, <1>14, <1>15

\* What Counts says of the activation of L, which r is pushed on.
LEMMA CountedTop ==
  ASSUME Typed, Counts, cstack # <<>>, NEW n, n = Len(cstack)
  PROVE  /\ nCcalls[L] = Calls(L, n) /\ Of(L) # {}
         /\ L # Main => /\ baseCcalls[L] > 0
                        /\ \E j \in Below(L, n) : cstack[j].kind = "resume"
<1>1. n \in Nat \ {0} /\ DOMAIN cstack = 1 .. n /\ L \in Thread
  BY TopTyped, LenProperties DEF Typed
<1>2. n \in DOMAIN cstack /\ L = cstack[n].th BY <1>1 DEF L, Top
<1>3. Of(L) # {} BY <1>2 DEF Of
<1>4. nCcalls[L] = Calls(L, n) BY <1>1, <1>3 DEF Counts
<1>5. ASSUME L # Main
      PROVE baseCcalls[L] > 0 /\ \E j \in Below(L, n) : cstack[j].kind = "resume"
  <2>1. baseCcalls[L] > 0 BY <1>2, <1>5 DEF Counts, CountedAt
  <2>2. CASE cstack[n].kind = "resume"
    <3>1. n \in Below(L, n) BY <1>1, <1>2 DEF Below, BelowIn
    <3> QED BY <2>1, <2>2, <3>1
  <2>3. CASE cstack[n].kind # "resume"
    <3>1. PICK j \in Below(L, n - 1) : cstack[j].kind = "resume"
      BY <1>2, <1>5, <2>3 DEF Counts, CountedAt
    <3>2. j \in Below(L, n) BY <1>1 DEF Below, BelowIn
    <3> QED BY <2>1, <3>1, <3>2
  <2> QED BY <2>2, <2>3
<1> QED BY <1>3, <1>4, <1>5

LEMMA CountsPrimed ==
  ASSUME NEW m, m = Len(cstack'), baseCcalls'[Main] = 0,
         \A th \in Thread : th = Main \/ Of(th)' # {} => nCcalls'[th] = Calls(th, m)',
         \A k \in DOMAIN cstack' : \A s : s = cstack'[k] => CountedAt(k, s)'
  PROVE  Counts'
BY DEF Counts, CountedAt, Calls, Base, Below, BelowIn

LEMMA PushCounts ==
  ASSUME Typed, Shape, Counts, NEW r, Fits(r), cstack' = Append(cstack, r), CountsOn(r)
  PROVE  Counts'
<1>1. PICK n : n = Len(cstack) OBVIOUS
<1>2. r \in Activations /\ r.th \in Thread BY DEF Fits, Activations
<1>3. /\ n \in Nat /\ DOMAIN cstack = 1 .. n /\ DOMAIN cstack' = 1 .. n + 1
      /\ Len(cstack') = n + 1 /\ cstack'[n + 1] = r
      /\ \A i \in 1 .. n : cstack'[i] = cstack[i] /\ cstack[i].th \in Thread
  <2>1. \A i \in 1 .. Len(cstack) : cstack[i] \in Activations BY ElementOfSeq DEF Typed
  <2> QED BY <1>1, <1>2, <2>1, PushStack DEF Activations
<1>4. CASE r.kind = "resume"
  <2>1. cstack # <<>> /\ r.th \in Co /\ r.th # Main /\ Of(r.th) = {}
    BY <1>4, ThreadAssumption DEF Fits
  <2>2. nCcalls' = [nCcalls EXCEPT ![r.th] = Level + 1] /\ Level \in Nat
        /\ baseCcalls' = [baseCcalls EXCEPT ![r.th] = Level + 1]
    BY <1>4, <2>1, TopTyped DEF CountsOn, Level, Typed
  <2>3. baseCcalls'[Main] = 0 BY <2>1, <2>2 DEF Counts, Typed
  <2>4. ASSUME NEW th \in Thread, th = Main \/ Of(th)' # {}
        PROVE  nCcalls'[th] = Calls(th, n + 1)'
    <3>1. CASE th = r.th
      BY <1>1, <1>2, <1>4, <2>2, <3>1, PushCalls DEF Typed
    <3>2. CASE th # r.th
      <4>1. th = Main \/ Of(th) # {} BY <1>3, <2>4, <3>2 DEF Of
      <4>2. nCcalls[th] = Calls(th, n) BY <1>1, <4>1 DEF Counts
      <4>3. Calls(th, n + 1)' = Calls(th, n) BY <1>1, <3>2, PushCalls
      <4> QED BY <2>2, <3>2, <4>2, <4>3 DEF Typed
    <3> QED BY <3>1, <3>2
  <2>5. ASSUME NEW k \in 1 .. n, NEW s, s = cstack'[k]
        PROVE  CountedAt(k, s)'
    <3>1. s = cstack[k] /\ s.th \in Thread /\ s.th # r.th BY <1>3, <2>1, <2>5 DEF Of
    <3>2. k - 1 \in 0 .. n BY <1>3
    <3>3. Below(s.th, k - 1)' = Below(s.th, k - 1) /\ Calls(s.th, k - 1)' = Calls(s.th, k - 1)
      BY <1>1, <3>1, <3>2, PushCalls
    <3>4. \A j \in Below(s.th, k - 1) : cstack'[j] = cstack[j]
      BY <1>3, <3>2 DEF Below, BelowIn
    <3>5. baseCcalls'[s.th] = baseCcalls[s.th] BY <2>2, <3>1 DEF Typed
    <3>6. CountedAt(k, s) BY <1>3, <3>1 DEF Counts
    <3> QED BY <3>3, <3>4, <3>5, <3>6 DEF CountedAt
  <2>6. ASSUME NEW k, k = n + 1 PROVE CountedAt(k, r)'
    <3>1. k - 1 = n /\ k - 1 \in 0 .. n BY <1>3, <2>6
    <3>2. Below(r.th, k - 1)' = Below(r.th, k - 1) BY <1>1, <1>2, <3>1, PushCalls
    <3>3. Below(r.th, k - 1) = {} BY <1>1, <2>1, <3>1, OfIsBelow
    <3>4. baseCcalls'[r.th] > 0 BY <1>2, <2>2 DEF Typed
    <3> QED BY <1>4, <3>2, <3>3, <3>4 DEF CountedAt
  <2>7. \A k \in 1 .. n + 1 : \A s : s = cstack'[k] => CountedAt(k, s)'
    BY <1>3, <2>5, <2>6
  <2> QED BY <1>3, <2>3, <2>4, <2>7, CountsPrimed
<1>5. CASE r.kind # "resume"
  <2>1. r.n = nCcalls[r.th] /\ baseCcalls' = baseCcalls
        /\ nCcalls' = [nCcalls EXCEPT ![r.th] = nCcalls[r.th] + 1]
    BY <1>5 DEF CountsOn
  <2>2. r.th = Main \/ (cstack # <<>> /\ r.th = L) BY <1>5 DEF Fits
  <2>3. nCcalls[r.th] = Calls(r.th, n) BY <1>1, <1>2, <2>2, CountedTop DEF Counts
  <2>4. baseCcalls'[Main] = 0 BY <2>1 DEF Counts
  <2>5. ASSUME NEW th \in Thread, th = Main \/ Of(th)' # {}
        PROVE  nCcalls'[th] = Calls(th, n + 1)'
    <3>1. CASE th = r.th
      <4>1. Calls(th, n + 1)' = Calls(th, n) + 1 BY <1>1, <1>5, <3>1, PushCalls
      <4> QED BY <1>2, <2>1, <2>3, <3>1, <4>1 DEF Typed
    <3>2. CASE th # r.th
      <4>1. th = Main \/ Of(th) # {} BY <1>3, <2>5, <3>2 DEF Of
      <4>2. nCcalls[th] = Calls(th, n) BY <1>1, <4>1 DEF Counts
      <4>3. Calls(th, n + 1)' = Calls(th, n) BY <1>1, <3>2, PushCalls
      <4> QED BY <2>1, <3>2, <4>2, <4>3 DEF Typed
    <3> QED BY <3>1, <3>2
  <2>6. ASSUME NEW k \in 1 .. n, NEW s, s = cstack'[k]
        PROVE  CountedAt(k, s)'
    <3>1. s = cstack[k] /\ s.th \in Thread BY <1>3, <2>6
    <3>2. k - 1 \in 0 .. n BY <1>3
    <3>3. Below(s.th, k - 1)' = Below(s.th, k - 1) /\ Calls(s.th, k - 1)' = Calls(s.th, k - 1)
      BY <1>1, <1>5, <3>1, <3>2, PushCalls
    <3>4. \A j \in Below(s.th, k - 1) : cstack'[j] = cstack[j]
      BY <1>3, <3>2 DEF Below, BelowIn
    <3>5. CountedAt(k, s) BY <1>3, <3>1 DEF Counts
    <3> QED BY <2>1, <3>3, <3>4, <3>5 DEF CountedAt
  <2>7. ASSUME NEW k, k = n + 1 PROVE CountedAt(k, r)'
    <3>1. k - 1 = n /\ k - 1 \in 0 .. n BY <1>3, <2>7
    <3>2. Below(r.th, k - 1)' = Below(r.th, k - 1) /\ Calls(r.th, k - 1)' = Calls(r.th, k - 1)
      BY <1>1, <1>2, <1>5, <3>1, PushCalls
    <3>3. r.th # Main => /\ baseCcalls'[r.th] > 0
                         /\ \E j \in Below(r.th, k - 1) : cstack[j].kind = "resume"
      BY <1>1, <2>1, <2>2, <3>1, CountedTop
    <3>4. \A j \in Below(r.th, k - 1) : cstack'[j] = cstack[j]
      BY <1>3, <3>1 DEF Below, BelowIn
    <3>5. r.n = Calls(r.th, k - 1) BY <2>1, <2>3, <3>1
    <3> QED BY <1>5, <3>2, <3>3, <3>4, <3>5 DEF CountedAt
  <2>8. \A k \in 1 .. n + 1 : \A s : s = cstack'[k] => CountedAt(k, s)'
    BY <1>3, <2>6, <2>7
  <2> QED BY <1>3, <2>4, <2>5, <2>8, CountsPrimed
<1> QED BY <1>4, <1>5

LEMMA DepthsPrimed ==
  ASSUME \A k \in DOMAIN cstack' : \A th :
           /\ th = cstack'[k].th
           /\ \A i \in 1 .. k : cstack'[i].kind = "java" => cstack'[i].from \notin Co
           => Calls(th, k)' = k
  PROVE  Depths'
BY DEF Depths, Calls, Base, Below, BelowIn

LEMMA PushDepths ==
  ASSUME Typed, Shape, Counts, Depths, NEW r, Fits(r), cstack' = Append(cstack, r), CountsOn(r)
  PROVE  Depths'
<1>1. PICK n : n = Len(cstack) OBVIOUS
<1>2. r \in Activations /\ r.th \in Thread BY DEF Fits, Activations
<1>3. /\ n \in Nat /\ DOMAIN cstack = 1 .. n /\ DOMAIN cstack' = 1 .. n + 1
      /\ cstack'[n + 1] = r
      /\ \A i \in 1 .. n : cstack'[i] = cstack[i] /\ cstack[i].th \in Thread
  <2>1. \A i \in 1 .. Len(cstack) : cstack[i] \in Activations BY ElementOfSeq DEF Typed
  <2> QED BY <1>1, <1>2, <2>1, PushStack DEF Activations
<1>4. SUFFICES ASSUME NEW k \in 1 .. n + 1, NEW th, th = cstack'[k].th,
                      \A i \in 1 .. k : cstack'[i].kind = "java" => cstack'[i].from \notin Co
               PROVE  Calls(th, k)' = k
  BY <1>3, DepthsPrimed
<1>5. CASE k \in 1 .. n
  <2>1. th = cstack[k].th /\ th \in Thread BY <1>3, <1>4, <1>5
  <2>2. \A i \in 1 .. k : cstack[i].kind = "java" => cstack[i].from \notin Co
    BY <1>3, <1>4, <1>5
  <2>3. Calls(th, k) = k BY <1>3, <1>5, <2>1, <2>2 DEF Depths
  <2>4. th # r.th \/ r.kind # "resume" BY <1>3, <1>5, <2>1 DEF Fits, Of
  <2>5. k \in 0 .. n BY <1>3, <1>5
  <2> QED BY <1>1, <2>1, <2>3, <2>4, <2>5, PushCalls
<1>6. CASE k = n + 1 /\ cstack # <<>>
  <2>1. n \in 1 .. n /\ L = cstack[n].th /\ L \in Thread BY <1>1, <1>2, <1>3, <1>6, TopTyped, PushStack
  <2>2. \A i \in 1 .. n : cstack[i].kind = "java" => cstack[i].from \notin Co
    BY <1>3, <1>4, <1>6
  <2>3. Calls(L, n) = n BY <1>3, <2>1, <2>2 DEF Depths
  <2>4. CASE r.kind = "resume"
    <3>1. Level = n BY <1>1, <1>6, <2>3, CountedTop DEF Level
    <3> QED BY <1>1, <1>3, <1>4, <1>6, <2>4, <3>1, PushCalls
  <2>5. CASE r.kind # "resume"
    <3>1. r.kind = "java" => r.from \notin Co BY <1>3, <1>4, <1>6
    <3>2. r.th = L BY <1>6, <2>1, <2>5, <3>1 DEF Fits, Thread
    <3> QED BY <1>1, <1>3, <1>4, <1>6, <2>3, <2>5, <3>2, PushCalls
  <2> QED BY <2>4, <2>5
<1>7. CASE k = n + 1 /\ cstack = <<>>
  <2>1. n = 0 /\ r.kind # "resume" /\ r.th = Main BY <1>1, <1>2, <1>7, PushStack DEF Fits
  <2>2. Below(Main, 0) = {} BY DEF Below, BelowIn
  <2>3. Calls(Main, 0) = 0 BY <2>2, FS_EmptySet DEF Calls, Base
  <2> QED BY <1>1, <1>3, <1>4, <1>7, <2>1, <2>3, PushCalls
<1> QED BY <1>3, <1>5, <1>6, <1>7

LEMMA PushLimits ==
  ASSUME Typed, Limits, mode \in {"run", "errormsg"}, NEW r, Fits(r),
         cstack' = Append(cstack, r), CountsOn(r), r.n = nCcalls[r.th],
         r.kind = "resume" => Level < MAXCCALLS,
         r.kind # "resume" /\ r.n + 1 >= MAXCCALLS + Extra => mode' = "throw"
  PROVE  Limits'
<1>1. PICK n : n = Len(cstack) OBVIOUS
<1>2. r \in Activations /\ r.th \in Thread BY DEF Fits, Activations
<1>3. /\ n \in Nat /\ DOMAIN cstack = 1 .. n /\ DOMAIN cstack' = 1 .. n + 1
      /\ cstack'[n + 1] = r /\ L' = r.th
      /\ \A i \in 1 .. n : cstack'[i] = cstack[i]
  BY <1>1, <1>2, PushStack
<1>4. \A th \in Thread : nCcalls[th] \in Nat /\ nCcalls[th] < MAXCCALLS + Extra
  BY DEF Limits, Typed
<1>5. \A k \in 1 .. n + 1 : cstack'[k].n < MAXCCALLS + Extra
  <2>1. \A k \in 1 .. n : cstack'[k].n < MAXCCALLS + Extra BY <1>3 DEF Limits
  <2>2. cstack'[n + 1].n < MAXCCALLS + Extra BY <1>2, <1>3, <1>4
  <2> QED BY <1>3, <2>1, <2>2
<1>6. ASSUME NEW th \in Thread
      PROVE  nCcalls'[th] < MAXCCALLS + Extra
               \/ (mode' = "throw" /\ th = L' /\ nCcalls'[th] = MAXCCALLS + Extra)
  <2>1. CASE th # r.th BY <1>4, <2>1 DEF CountsOn, Typed
  <2>2. CASE th = r.th /\ r.kind = "resume"
    <3>1. nCcalls'[th] = Level + 1 BY <1>2, <2>2 DEF CountsOn, Typed
    <3>2. Level \in Nat BY <2>2, TopTyped DEF Fits, Level, Typed
    <3> QED BY <2>2, <3>1, <3>2, LimitAssumption
  <2>3. CASE th = r.th /\ r.kind # "resume"
    <3>1. nCcalls'[th] = r.n + 1 /\ r.n \in Nat /\ r.n < MAXCCALLS + Extra
      BY <1>2, <1>4, <2>3 DEF CountsOn, Typed
    <3> QED BY <1>3, <2>3, <3>1, LimitAssumption
  <2> QED BY <2>1, <2>2, <2>3
<1> QED BY <1>3, <1>5, <1>6 DEF Limits

LEMMA PushHandlers ==
  ASSUME Typed, Handlers, NEW r, Fits(r), cstack' = Append(cstack, r),
         r.ef = errfunc[r.th],
         \A co \in Co : status'[co] = status[co] \/ status[co] # "error",
         \A co \in Co : co # r.th \/ r.kind # "pcall" => errfunc'[co] = errfunc[co]
  PROVE  Handlers'
<1>1. PICK n : n = Len(cstack) OBVIOUS
<1>2. r \in Activations /\ r.th \in Thread BY DEF Fits, Activations
<1>3. /\ n \in Nat /\ DOMAIN cstack = 1 .. n /\ DOMAIN cstack' = 1 .. n + 1
      /\ cstack'[n + 1] = r
      /\ \A i \in 1 .. n : cstack'[i] = cstack[i]
  BY <1>1, <1>2, PushStack
<1>4. SUFFICES ASSUME NEW co \in Co, status'[co] # "error"
      PROVE  /\ (\A k \in Of(co)' : cstack'[k].kind # "pcall") => errfunc'[co] = None
             /\ \A k \in Of(co)' :
                  cstack'[k].kind = "pcall" /\ (\A j \in Below(co, k - 1)' : cstack'[j].kind # "pcall")
                    => cstack'[k].ef = None
  BY DEF Handlers
<1>5. /\ (\A k \in Of(co) : cstack[k].kind # "pcall") => errfunc[co] = None
      /\ \A k \in Of(co) :
           cstack[k].kind = "pcall" /\ (\A j \in Below(co, k - 1) : cstack[j].kind # "pcall")
             => cstack[k].ef = None
  BY <1>4 DEF Handlers
<1>6. \A k \in Of(co) : k \in Of(co)' /\ cstack'[k] = cstack[k] BY <1>3 DEF Of
<1>7. ASSUME \A k \in Of(co)' : cstack'[k].kind # "pcall" PROVE errfunc'[co] = None
  <2>1. errfunc[co] = None BY <1>5, <1>6, <1>7
  <2>2. r.th = co => n + 1 \in Of(co)' BY <1>3 DEF Of
  <2>3. co # r.th \/ r.kind # "pcall" BY <1>3, <1>7, <2>2
  <2> QED BY <2>1, <2>3
<1>8. ASSUME NEW k \in Of(co)', cstack'[k].kind = "pcall",
             \A j \in Below(co, k - 1)' : cstack'[j].kind # "pcall"
      PROVE  cstack'[k].ef = None
  <2>1. CASE k \in 1 .. n
    <3>1. k \in Of(co) /\ cstack'[k] = cstack[k] BY <1>3, <1>8, <2>1 DEF Of
    <3>2. \A j \in Below(co, k - 1) : j \in Below(co, k - 1)' /\ cstack'[j] = cstack[j]
      BY <1>3, <2>1 DEF Below, BelowIn
    <3> QED BY <1>5, <1>8, <3>1, <3>2
  <2>2. CASE k = n + 1
    <3>1. r.th = co /\ r.kind = "pcall" BY <1>3, <1>8, <2>2 DEF Of
    <3>2. \A j \in Of(co) : j \in Below(co, k - 1)' /\ cstack'[j] = cstack[j]
      BY <1>3, <2>2 DEF Of, Below, BelowIn
    <3>3. errfunc[co] = None BY <1>5, <1>8, <3>2
    <3> QED BY <1>3, <2>2, <3>1, <3>3
  <2> QED BY <1>3, <2>1, <2>2 DEF Of
<1> QED BY <1>7, <1>8

LEMMA PushStatuses ==
  ASSUME Typed, Statuses, NEW r, Fits(r), cstack' = Append(cstack, r),
         IF r.kind = "resume" THEN status' = [status EXCEPT ![r.th] = "ok"]
                              ELSE status' = status,
         \A co \in Co : Of(co) = {} /\ co # r.th => ci'[co] = ci[co]
  PROVE  Statuses'
<1>1. PICK n : n = Len(cstack) OBVIOUS
<1>2. r \in Activations /\ r.th \in Thread BY DEF Fits, Activations
<1>3. /\ n \in Nat /\ DOMAIN cstack = 1 .. n /\ DOMAIN cstack' = 1 .. n + 1
      /\ cstack'[n + 1] = r
      /\ \A i \in 1 .. n : cstack'[i] = cstack[i]
  BY <1>1, <1>2, PushStack
<1>4. SUFFICES ASSUME NEW co \in Co
      PROVE  /\ Of(co)' # {} => status'[co] = "ok"
             /\ Of(co)' = {} /\ status'[co] \in {"none", "ok"} => ci'[co] = <<>>
             /\ status'[co] = "yield" => Len(ci'[co]) > 1
  BY DEF Statuses
<1>5. CASE co = r.th
  <2>1. n + 1 \in Of(co)' BY <1>3, <1>5 DEF Of
  <2>2. CASE r.kind = "resume"
    <3>1. status'[co] = "ok" BY <1>2, <1>5, <2>2 DEF Typed
    <3> QED BY <2>1, <3>1
  <2>3. CASE r.kind # "resume"
    <3>1. cstack # <<>> /\ r.th = L BY <1>5, <2>3, ThreadAssumption DEF Fits
    <3>2. Len(cstack) \in Of(co) BY <1>5, <3>1, TopTyped DEF Of, L, Top
    <3>3. status'[co] = "ok" BY <2>3, <3>2 DEF Statuses
    <3> QED BY <2>1, <3>3
  <2> QED BY <2>2, <2>3
<1>6. CASE co # r.th
  <2>1. Of(co)' = Of(co) BY <1>3, <1>6 DEF Of
  <2>2. status'[co] = status[co] BY <1>6 DEF Typed, Thread
  <2>3. status[co] = "yield" => Of(co) = {} BY DEF Statuses
  <2> QED BY <1>6, <2>1, <2>2, <2>3 DEF Statuses
<1> QED BY <1>5, <1>6

\* The frames under the pushed activation: a C function that switches or
\* protects has its own.
LEMMA PushFrames ==
  ASSUME Typed, Frames, NEW r, Fits(r), cstack' = Append(cstack, r), ci' \in CallInfos,
         mode = (IF r.kind = "handler" THEN "errormsg" ELSE "run"),
         \A th \in Thread : th # r.th \/ r.kind # "resume" => Len(ci'[th]) >= Len(ci[th]),
         cstack # <<>> /\ r.kind \in {"pcall", "java", "resume"} => Len(ci'[L]) > Len(ci[L]),
         r.kind # "resume" => r.floor >= Len(ci[r.th]),
         cstack # <<>> /\ r.kind \in {"pcall", "java"} /\ r.th = L => r.floor > Len(ci[L]),
         Len(ci'[r.th]) >= r.floor,
         mode' = "run" \/ r.kind = "resume" => Len(ci'[r.th]) > r.floor
  PROVE  Frames'
<1>1. PICK n : n = Len(cstack) OBVIOUS
<1>2. r \in Activations /\ r.th \in Thread BY DEF Fits, Activations
<1>3. /\ n \in Nat /\ DOMAIN cstack = 1 .. n /\ DOMAIN cstack' = 1 .. n + 1
      /\ Len(cstack') = n + 1 /\ cstack'[n + 1] = r /\ Top' = r /\ L' = r.th
      /\ n > 0 => cstack # <<>> /\ Top = cstack[n] /\ L = cstack[n].th
      /\ \A i \in 1 .. n : /\ cstack'[i] = cstack[i] /\ cstack[i] \in Activations
                           /\ cstack[i].th \in Thread /\ cstack[i].floor \in Nat
  <2>1. \A i \in 1 .. Len(cstack) : cstack[i] \in Activations BY ElementOfSeq DEF Typed
  <2>2. \A i \in 1 .. n : cstack[i].th \in Thread /\ cstack[i].floor \in Nat
    BY <1>1, <2>1 DEF Activations
  <2> QED BY <1>1, <1>2, <2>1, <2>2, PushStack
<1>4. \A th \in Thread : Len(ci[th]) \in Nat /\ Len(ci'[th]) \in Nat
  BY LenProperties DEF Typed, CallInfos
<1>5. \A i \in 1 .. n - 1 : Left(i)' = Left(i)
  <2>1. \A i \in 1 .. n - 1 : cstack'[i] = cstack[i] /\ cstack'[i + 1] = cstack[i + 1] BY <1>3
  <2> QED BY <2>1 DEF Left, LeftFor
<1>6. ASSUME n > 0
      PROVE  /\ Left(n)' = LeftFor(cstack[n], r) /\ Left(n)' \in Nat
             /\ r.kind # "resume" \/ r.th # L => Len(ci'[L]) >= Left(n)'
             /\ r.kind # "resume" /\ r.th = L => r.floor >= Left(n)'
  <2>1. cstack'[n] = cstack[n] /\ cstack'[n + 1] = r BY <1>3, <1>6
  <2>2. PICK a : a = cstack[n] OBVIOUS
  <2>3. a.floor \in Nat /\ L \in Thread /\ a = Top BY <1>3, <1>6, <2>2
  <2>4. Left(n)' = LeftFor(a, r) BY <2>1, <2>2 DEF Left, LeftFor
  <2>5. /\ Len(ci[L]) >= a.floor
        /\ r.kind # "handler" \/ a.kind = "resume" => Len(ci[L]) > a.floor
    BY <1>3, <1>6, <2>3 DEF Frames
  <2>6. LeftFor(a, r) \in Nat BY <2>3 DEF LeftFor
  <2>7. r.kind \in {"meta", "pcall", "java", "handler", "resume"} BY <1>2 DEF Activations
  <2>8. r.kind # "resume" \/ r.th # L => Len(ci'[L]) >= LeftFor(a, r)
    BY <1>3, <1>4, <1>6, <2>3, <2>5, <2>7 DEF LeftFor
  <2>9. r.kind # "resume" /\ r.th = L => r.floor >= LeftFor(a, r)
    <3>1. r.floor \in Nat BY <1>2 DEF Activations
    <3> QED BY <1>3, <1>4, <1>6, <2>3, <2>5, <2>7, <3>1 DEF LeftFor
  <2> QED BY <2>2, <2>4, <2>6, <2>8, <2>9
<1>7. \A j \in 1 .. n - 1 : Left(j) \in Nat
  <2>1. \A j \in 1 .. n - 1 : cstack[j].floor \in Nat BY <1>3
  <2> QED BY <2>1 DEF Left, LeftFor
<1>8. r.kind = "resume" => \A i \in 1 .. n : cstack[i].th # r.th BY <1>3 DEF Fits, Of
<1>9. ASSUME NEW j \in 1 .. n PROVE Len(ci'[cstack[j].th]) >= Left(j)'
  <2>1. cstack[j].th \in Thread /\ (r.kind = "resume" => cstack[j].th # r.th) BY <1>3, <1>8
  <2>2. CASE j = n BY <1>3, <1>6, <2>1, <2>2
  <2>3. CASE j # n
    <3>1. j \in 1 .. n - 1 BY <1>3, <2>3
    <3>2. Len(ci[cstack[j].th]) >= Left(j) BY <1>1, <3>1 DEF Frames
    <3>3. Len(ci'[cstack[j].th]) >= Len(ci[cstack[j].th]) BY <2>1
    <3>4. Left(j)' = Left(j) /\ Left(j) \in Nat BY <1>5, <1>7, <3>1
    <3> QED BY <1>4, <2>1, <3>2, <3>3, <3>4
  <2> QED BY <2>2, <2>3
<1>10. ASSUME NEW k \in 1 .. n + 1, NEW j \in 1 .. k - 1, cstack'[j].th = cstack'[k].th
       PROVE  cstack'[k].floor >= Left(j)'
  <2>1. j \in 1 .. n /\ cstack'[j] = cstack[j] BY <1>3
  <2>2. CASE k \in 1 .. n
    <3>1. cstack'[k] = cstack[k] /\ k \in DOMAIN cstack BY <1>3, <2>2
    <3>2. cstack[k].floor >= Left(j) BY <1>10, <2>1, <3>1 DEF Frames
    <3>3. j \in 1 .. n - 1 BY <1>3, <2>2
    <3> QED BY <1>5, <3>1, <3>2, <3>3
  <2>3. CASE k = n + 1
    <3>1. r.th = cstack[j].th /\ r.kind # "resume" /\ cstack'[k] = r /\ r.floor \in Nat
      BY <1>2, <1>3, <1>8, <1>10, <2>1, <2>3 DEF Activations
    <3>2. CASE j = n
      BY <1>3, <1>6, <2>1, <3>1, <3>2
    <3>3. CASE j # n
      <4>1. j \in 1 .. n - 1 BY <1>3, <2>1, <3>3
      <4>2. Len(ci[r.th]) >= Left(j) BY <1>1, <3>1, <4>1 DEF Frames
      <4>3. r.floor >= Len(ci[r.th]) BY <3>1
      <4>4. Left(j)' = Left(j) /\ Left(j) \in Nat BY <1>5, <1>7, <4>1
      <4> QED BY <1>2, <1>4, <3>1, <4>2, <4>3, <4>4
    <3> QED BY <3>2, <3>3
  <2> QED BY <1>3, <2>2, <2>3
<1>11. \A j \in 1 .. n : cstack'[j] = cstack[j] /\ n + 1 - 1 = n BY <1>3
<1> QED BY <1>3, <1>9, <1>10, <1>11 DEF Frames

LEMMA LuaDCallSafe ==
  ASSUME IInv, NEW r, NEW frames, LuaDCall(r, frames), Fits(r), r.kind # "resume",
         r.n = nCcalls[r.th], r.ef = errfunc[r.th], r.floor = Len(frames[r.th]),
         mode = (IF r.kind = "handler" THEN "errormsg" ELSE "run"),
         frames \in CallInfos,
         \A th \in Thread : Len(frames[th]) >= Len(ci[th]),
         cstack # <<>> /\ r.kind \in {"pcall", "java"} => Len(frames[L]) > Len(ci[L]),
         \A co \in Co : Of(co) = {} => frames[co] = ci[co],
         UNCHANGED <<status, fresh, baseCcalls>>,
         errfunc' \in [Thread -> Handler],
         \A co \in Co : co # r.th \/ r.kind # "pcall" => errfunc'[co] = errfunc[co]
  PROVE  IInv'
<1> USE DEF IInv
<1>1. r \in Activations /\ r.th \in Thread /\ r.n \in Nat
  BY DEF Fits, Activations
<1>2. cstack' = Append(cstack, r) /\ status' = status /\ baseCcalls' = baseCcalls
  BY DEF LuaDCall
<1>3. nCcalls' = [nCcalls EXCEPT ![r.th] = nCcalls[r.th] + 1] /\ CountsOn(r)
  BY <1>2 DEF LuaDCall, CountsOn
<1>4. /\ \A th \in Thread : ci'[th] = frames[th]
                \/ (th = r.th /\ mode' = "run" /\ ci'[th] = Append(frames[th], "Lua"))
      /\ mode' = "run" => ci'[r.th] = Append(frames[r.th], "Lua")
      /\ ci' \in CallInfos /\ mode' \in {"run", "errormsg", "throw"}
      /\ r.n + 1 >= MAXCCALLS + Extra => mode' = "throw"
  <2>1. \A th \in Thread : frames[th] \in Seq({"Lua", "C"}) BY DEF CallInfos
  <2>2. Append(frames[r.th], "Lua") \in Seq({"Lua", "C"}) BY <1>1, <2>1, AppendProperties
  <2>3. CASE ci' = frames /\ mode' # "run"
    BY <1>1, <1>3, <2>3, LimitAssumption DEF LuaDCall, Typed
  <2>4. CASE ci' = [frames EXCEPT ![r.th] = Append(@, "Lua")] /\ mode' = "run"
    BY <1>1, <1>3, <2>2, <2>4, LimitAssumption DEF LuaDCall, Typed, CallInfos
  <2>5. (ci' = frames /\ mode' # "run")
          \/ (ci' = [frames EXCEPT ![r.th] = Append(@, "Lua")] /\ mode' = "run")
    BY DEF LuaDCall
  <2> QED BY <2>3, <2>4, <2>5
<1>5. /\ \A th \in Thread : Len(frames[th]) \in Nat
                            /\ Len(Append(frames[th], "Lua")) = Len(frames[th]) + 1
      /\ \A th \in Thread : Len(ci[th]) \in Nat
  BY LenProperties, AppendProperties DEF CallInfos, Typed
<1>6. \A th \in Thread : Len(ci'[th]) >= Len(frames[th]) BY <1>4, <1>5
<1>7. \A th \in Thread : Len(ci'[th]) \in Nat BY <1>4, <1>5
<1>8. Typed'
  <2>1. cstack' \in Seq(Activations) BY <1>1, <1>2, PushStack
  <2> QED BY <1>1, <1>2, <1>3, <1>4, <2>1 DEF Typed
<1>9. Shape' /\ JumpBuffers' BY <1>2, PushShape, PushJumps
<1>10. Counts' /\ Depths' BY <1>2, <1>3, PushCounts, PushDepths
<1>11. Limits' BY <1>2, <1>3, <1>4, PushLimits
<1>12. Handlers' BY <1>2, PushHandlers
<1>13. Statuses'
  <2>1. ASSUME NEW co \in Co, Of(co) = {}, co # r.th PROVE ci'[co] = ci[co]
    BY <1>4, <2>1 DEF Thread
  <2> QED BY <1>2, <2>1, PushStatuses
<1>14. Frames'
  <2>1. cstack # <<>> => L \in Thread BY TopTyped
  <2>2. \A th \in Thread : Len(ci'[th]) >= Len(ci[th]) BY <1>5, <1>6, <1>7
  <2>3. cstack # <<>> /\ r.kind \in {"pcall", "java", "resume"} => Len(ci'[L]) > Len(ci[L])
    BY <1>5, <1>6, <1>7, <2>1
  <2>4. r.floor >= Len(ci[r.th]) /\ Len(ci'[r.th]) >= r.floor BY <1>1, <1>6
  <2>5. cstack # <<>> /\ r.kind \in {"pcall", "java"} /\ r.th = L => r.floor > Len(ci[L])
    OBVIOUS
  <2>6. mode' = "run" => Len(ci'[r.th]) > r.floor BY <1>1, <1>4, <1>5
  <2> QED BY <1>2, <1>4, <2>2, <2>3, <2>4, <2>5, <2>6, PushFrames
<1>15. Stopped' BY <1>1, <1>2, PushStack DEF Stopped
<1> QED BY <1>8, <1>9, <1>10, <1>11, <1>12, <1>13, <1>14, <1>15

\* The frames with one more on th.
LEMMA PushFrameTyped ==
  ASSUME Typed, NEW th \in Thread, NEW f \in {"Lua", "C"}
  PROVE  /\ PushFrame(th, f) \in CallInfos
         /\ Len(PushFrame(th, f)[th]) = Len(ci[th]) + 1
         /\ \A o \in Thread : o # th => PushFrame(th, f)[o] = ci[o]
         /\ \A o \in Thread : Len(PushFrame(th, f)[o]) >= Len(ci[o])
         /\ \A o \in Thread : Len(ci[o]) \in Nat
<1>1. \A o \in Thread : ci[o] \in Seq({"Lua", "C"}) BY DEF Typed, CallInfos
<1>2. Append(ci[th], f) \in Seq({"Lua", "C"}) /\ Len(Append(ci[th], f)) = Len(ci[th]) + 1
  BY <1>1, AppendProperties
<1>3. \A o \in Thread : Len(ci[o]) \in Nat BY <1>1, LenProperties
<1>4. PushFrame(th, f) = [o \in Thread |-> IF o = th THEN Append(ci[th], f) ELSE ci[o]]
  BY DEF PushFrame, Typed, CallInfos
<1> QED BY <1>1, <1>2, <1>3, <1>4 DEF CallInfos

LEMMA CallMetaSafe == IInv /\ CallMeta => IInv'
<1> SUFFICES ASSUME IInv, CallMeta PROVE IInv' OBVIOUS
<1>1. Typed /\ cstack # <<>> /\ mode = "run" /\ L \in Thread
  BY TopTyped DEF IInv, CallMeta, Runs
<1>2. Len(ci[L]) \in Nat /\ ci \in CallInfos BY <1>1, PushFrameTyped DEF Typed
<1>3. PICK r : r = Activation("meta", L, None, Len(ci[L]), FALSE) OBVIOUS
<1>4. PICK frames : frames = ci OBVIOUS
<1>5. /\ r \in Activations /\ r.kind = "meta" /\ r.th = L /\ r.floor = Len(ci[L])
      /\ r.n = nCcalls[L] /\ r.ef = errfunc[L]
  BY <1>1, <1>2, <1>3 DEF Activation, Activations, Typed
<1>6. Fits(r) BY <1>1, <1>5 DEF Fits
<1>7. LuaDCall(r, frames) /\ UNCHANGED <<status, fresh, baseCcalls, errfunc>>
  BY <1>3, <1>4 DEF CallMeta
<1>8. \A th \in Thread : Len(ci[th]) >= Len(ci[th]) BY <1>1, PushFrameTyped
<1> QED BY <1>1, <1>2, <1>4, <1>5, <1>6, <1>7, <1>8, LuaDCallSafe DEF Typed

LEMMA PCallSafe ==
  ASSUME IInv, NEW handler \in Handler, PCall(handler)
  PROVE  IInv'
<1>1. Typed /\ cstack # <<>> /\ mode = "run" /\ L \in Thread
  BY TopTyped DEF IInv, PCall, Runs
<1>2. PICK frames : frames = PushFrame(L, "C") OBVIOUS
<1>3. /\ frames \in CallInfos /\ Len(frames[L]) = Len(ci[L]) + 1 /\ Len(ci[L]) \in Nat
      /\ \A o \in Thread : o # L => frames[o] = ci[o]
      /\ \A o \in Thread : Len(frames[o]) >= Len(ci[o])
  BY <1>1, <1>2, PushFrameTyped
<1>4. PICK r : r = Activation("pcall", L, None, Len(ci[L]) + 1, FALSE) OBVIOUS
<1>5. /\ r \in Activations /\ r.kind = "pcall" /\ r.th = L /\ r.floor = Len(ci[L]) + 1
      /\ r.n = nCcalls[L] /\ r.ef = errfunc[L]
  BY <1>1, <1>3, <1>4 DEF Activation, Activations, Typed
<1>6. Fits(r) BY <1>1, <1>5 DEF Fits
<1>7. LuaDCall(r, frames) /\ UNCHANGED <<status, fresh, baseCcalls>>
  BY <1>2, <1>4 DEF PCall
<1>8. /\ errfunc' \in [Thread -> Handler]
      /\ \A co \in Co : co # r.th \/ r.kind # "pcall" => errfunc'[co] = errfunc[co]
  BY <1>1, <1>5 DEF PCall, Typed, Thread
<1>9. \A co \in Co : Of(co) = {} => frames[co] = ci[co]
  <2>1. Of(L) # {} BY <1>1, TopTyped DEF Of, L, Top
  <2> QED BY <1>3, <2>1 DEF Thread
<1>10. cstack # <<>> /\ r.kind \in {"pcall", "java"} => Len(frames[L]) > Len(ci[L])
  BY <1>1, <1>3
<1>11. /\ r.kind # "resume" /\ r.n = nCcalls[r.th] /\ r.ef = errfunc[r.th]
       /\ r.floor = Len(frames[r.th]) /\ mode = (IF r.kind = "handler" THEN "errormsg" ELSE "run")
  BY <1>1, <1>3, <1>5
<1> QED BY <1>3, <1>6, <1>7, <1>8, <1>9, <1>10, <1>11, LuaDCallSafe

LEMMA JavaPCallSafe == IInv /\ JavaPCall => IInv'
<1> SUFFICES ASSUME IInv, JavaPCall PROVE IInv' OBVIOUS
<1>1. Typed /\ mode = "run" /\ Main \in Thread BY DEF IInv, JavaPCall, Thread
<1>2. /\ \A o \in Thread : Len(ci[o]) \in Nat /\ Len(ci[o]) >= Len(ci[o])
      /\ ci \in CallInfos
  BY <1>1, PushFrameTyped DEF Typed
<1>3. /\ UNCHANGED <<status, fresh, baseCcalls>>
      /\ errfunc' \in [Thread -> Handler]
      /\ \A co \in Co : errfunc'[co] = errfunc[co]
  BY <1>1, ThreadAssumption DEF JavaPCall, Typed, Thread, Handler
<1>4. CASE /\ cstack = <<>>
           /\ LuaDCall(Activation("java", Main, None, Len(ci[Main]), FALSE), ci)
  <2>1. PICK r : r = Activation("java", Main, None, Len(ci[Main]), FALSE) OBVIOUS
  <2>2. /\ r \in Activations /\ r.kind = "java" /\ r.th = Main /\ r.from = None
        /\ r.floor = Len(ci[Main]) /\ r.n = nCcalls[Main] /\ r.ef = errfunc[Main]
    BY <1>1, <1>2, <2>1 DEF Activation, Activations, Typed
  <2>3. Fits(r) BY <1>4, <2>2 DEF Fits
  <2>4. PICK frames : frames = ci OBVIOUS
  <2>5. LuaDCall(r, frames) BY <1>4, <2>1, <2>4
  <2> QED BY <1>1, <1>2, <1>3, <1>4, <2>2, <2>3, <2>4, <2>5, LuaDCallSafe
<1>5. CASE /\ cstack # <<>>
           /\ LuaDCall(Activation("java", Main, L, Len(PushFrame(L, "C")[Main]), FALSE),
                       PushFrame(L, "C"))
  <2>1. L \in Thread BY <1>1, <1>5, TopTyped
  <2>2. PICK frames : frames = PushFrame(L, "C") OBVIOUS
  <2>3. /\ frames \in CallInfos /\ Len(frames[L]) = Len(ci[L]) + 1
        /\ \A o \in Thread : o # L => frames[o] = ci[o]
        /\ \A o \in Thread : Len(frames[o]) >= Len(ci[o])
    BY <1>1, <2>1, <2>2, PushFrameTyped
  <2>4. PICK r : r = Activation("java", Main, L, Len(frames[Main]), FALSE) OBVIOUS
  <2>5. Len(frames[Main]) \in Nat BY <1>1, <2>3, LenProperties DEF CallInfos
  <2>6. /\ r \in Activations /\ r.kind = "java" /\ r.th = Main /\ r.from = L
        /\ r.floor = Len(frames[Main]) /\ r.n = nCcalls[Main] /\ r.ef = errfunc[Main]
    BY <1>1, <2>1, <2>4, <2>5 DEF Activation, Activations, Typed
  <2>7. Fits(r) BY <1>5, <2>6 DEF Fits
  <2>8. LuaDCall(r, frames) BY <1>5, <2>2, <2>4
  <2>9. \A co \in Co : Of(co) = {} => frames[co] = ci[co]
    <3>1. Of(L) # {} BY <1>1, <1>5, TopTyped DEF Of, L, Top
    <3> QED BY <2>3, <3>1 DEF Thread
  <2>10. Len(frames[L]) > Len(ci[L]) BY <1>2, <2>1, <2>3
  <2> QED BY <1>1, <1>3, <1>5, <2>3, <2>6, <2>7, <2>8, <2>9, <2>10, LuaDCallSafe
<1> QED BY <1>4, <1>5 DEF JavaPCall

\* The handler of an error is called; without one luaD_throw is next, which
\* changes nothing but the mode.
LEMMA HandlerSafe ==
  ASSUME IInv, mode = "errormsg",
         LuaDCall(Activation("handler", L, None, Len(ci[L]), FALSE), ci),
         UNCHANGED <<status, fresh, baseCcalls, errfunc>>
  PROVE  IInv'
<1>1. Typed /\ cstack # <<>> /\ L \in Thread
  BY TopTyped DEF IInv, Stopped
<1>2. Len(ci[L]) \in Nat /\ ci \in CallInfos BY <1>1, PushFrameTyped DEF Typed
<1>3. PICK r : r = Activation("handler", L, None, Len(ci[L]), FALSE) OBVIOUS
<1>4. PICK frames : frames = ci OBVIOUS
<1>5. /\ r \in Activations /\ r.kind = "handler" /\ r.th = L /\ r.floor = Len(ci[L])
      /\ r.n = nCcalls[L] /\ r.ef = errfunc[L]
  BY <1>1, <1>2, <1>3 DEF Activation, Activations, Typed
<1>6. Fits(r) BY <1>1, <1>5 DEF Fits
<1>7. LuaDCall(r, frames) BY <1>3, <1>4
<1>8. \A th \in Thread : Len(ci[th]) >= Len(ci[th]) BY <1>1, PushFrameTyped
<1> QED BY <1>1, <1>2, <1>4, <1>5, <1>6, <1>7, <1>8, LuaDCallSafe DEF Typed
-----------------------------------------------------------------------------
(* The C stack stays as it is. *)

LEMMA PopFrameTyped ==
  ASSUME NEW c \in CallInfos, NEW th \in Thread, Len(c[th]) > 0
  PROVE  /\ PopFrame(c, th) \in CallInfos
         /\ Len(PopFrame(c, th)[th]) = Len(c[th]) - 1
         /\ \A o \in Thread : o # th => PopFrame(c, th)[o] = c[o]
         /\ \A o \in Thread : Len(c[o]) \in Nat
<1>1. \A o \in Thread : c[o] \in Seq({"Lua", "C"}) BY DEF CallInfos
<1>2. c[th] # <<>> BY <1>1, EmptySeq
<1>3. Front(c[th]) \in Seq({"Lua", "C"}) /\ Len(Front(c[th])) = Len(c[th]) - 1
  BY <1>1, <1>2, FrontSeq
<1>4. \A o \in Thread : Len(c[o]) \in Nat BY <1>1, LenProperties
<1>5. PopFrame(c, th) = [o \in Thread |-> IF o = th THEN Front(c[th]) ELSE c[o]]
  BY DEF PopFrame, CallInfos
<1> QED BY <1>1, <1>3, <1>4, <1>5 DEF CallInfos

LEMMA SameStackSafe ==
  ASSUME IInv, Typed', cstack # <<>>, mode \in {"run", "errormsg"},
         UNCHANGED <<cstack, baseCcalls, errfunc>>,
         \A th \in Thread : nCcalls'[th] = nCcalls[th]
           \/ (th \in Co /\ Of(th) = {} /\ nCcalls'[th] < MAXCCALLS + Extra),
         \A co \in Co : status'[co] = status[co] \/ (status[co] = "none" /\ status'[co] = "ok"),
         \A co \in Co : Of(co) = {} => ci'[co] = ci[co],
         \A th \in Thread : th # L => Len(ci'[th]) >= Len(ci[th]),
         Len(ci'[L]) >= Top.floor,
         mode' = "run" \/ Top.kind = "resume" => Len(ci'[L]) > Top.floor
  PROVE  IInv'
<1> USE DEF IInv
<1>1. PICK n : n = Len(cstack) OBVIOUS
<1>2. /\ n \in Nat \ {0} /\ DOMAIN cstack = 1 .. n /\ cstack[n] = Top /\ cstack[n].th = L
      /\ L \in Thread
      /\ \A i \in 1 .. n : /\ cstack[i].th \in Thread /\ cstack[i].floor \in Nat
  <2>1. n \in Nat \ {0} /\ DOMAIN cstack = 1 .. n /\ L \in Thread
    BY <1>1, TopTyped, LenProperties DEF Typed
  <2>2. \A i \in 1 .. n : cstack[i] \in Activations BY <1>1, ElementOfSeq DEF Typed
  <2> QED BY <1>1, <2>1, <2>2 DEF Activations, Top, L
<1>3. Shape' /\ JumpBuffers' BY DEF Shape, JumpBuffers, Jumps, Protects
<1>4. Counts'
  <2>1. \A th \in Thread : th = Main \/ Of(th) # {} => nCcalls'[th] = nCcalls[th]
    BY ThreadAssumption
  <2>2. \A th, k : Below(th, k)' = Below(th, k) /\ Calls(th, k)' = Calls(th, k)
    BY DEF Calls, Base, Below
  <2>3. \A th : Of(th)' = Of(th) BY DEF Of
  <2>4. ASSUME NEW k \in DOMAIN cstack', NEW s, s = cstack'[k] PROVE CountedAt(k, s)'
    <3>1. CountedAt(k, s) BY <2>4 DEF Counts
    <3> QED BY <2>2, <3>1 DEF CountedAt
  <2>5. \A th \in Thread : th = Main \/ Of(th)' # {} => nCcalls'[th] = Calls(th, n)'
    BY <1>1, <2>1, <2>2, <2>3 DEF Counts
  <2> QED BY <1>1, <2>4, <2>5, CountsPrimed DEF Counts
<1>5. Depths' BY DEF Depths, Calls, Base, Below
<1>6. Limits'
  <2>1. \A th \in Thread : nCcalls'[th] < MAXCCALLS + Extra BY DEF Limits
  <2> QED BY <2>1 DEF Limits
<1>7. Handlers' BY DEF Handlers, Below, Of
<1>8. Statuses' BY DEF Statuses, Of
<1>9. Frames'
  <2>1. \A th \in Thread : Len(ci[th]) \in Nat /\ Len(ci'[th]) \in Nat
    BY LenProperties DEF Typed, CallInfos
  <2>2. \A j \in 1 .. n - 1 : Left(j)' = Left(j) /\ Left(j) \in Nat
    <3>1. \A j \in 1 .. n - 1 : cstack[j].floor \in Nat BY <1>2
    <3> QED BY <3>1 DEF Left, LeftFor
  <2>3. ASSUME NEW j \in 1 .. n - 1 PROVE Len(ci'[cstack[j].th]) >= Left(j)
    <3>1. CASE cstack[j].th = L
      <4>1. Top.floor >= Left(j) BY <1>1, <1>2, <3>1 DEF Frames
      <4> QED BY <1>2, <2>1, <2>2, <3>1, <4>1
    <3>2. CASE cstack[j].th # L
      <4>1. Len(ci[cstack[j].th]) >= Left(j) BY <1>1 DEF Frames
      <4>2. cstack[j].th \in Thread BY <1>2
      <4> QED BY <2>1, <2>2, <3>2, <4>1, <4>2
    <3> QED BY <3>1, <3>2
  <2>4. \A k \in DOMAIN cstack : \A j \in 1 .. k - 1 :
          cstack[j].th = cstack[k].th => cstack[k].floor >= Left(j)
    BY DEF Frames
  <2>5. \A k \in DOMAIN cstack : \A j \in 1 .. k - 1 : j \in 1 .. n - 1 BY <1>2
  <2>6. Top' = Top /\ L' = L BY DEF Top, L
  <2> QED BY <1>1, <2>2, <2>3, <2>4, <2>5, <2>6 DEF Frames
<1>10. Stopped' BY DEF Stopped
<1> QED BY <1>3, <1>4, <1>5, <1>6, <1>7, <1>8, <1>9, <1>10

\* What the conditions of an action say of the thread that runs.
LEMMA Running ==
  ASSUME IInv, mode \in {"run", "errormsg"}, cstack # <<>>
  PROVE  /\ L \in Thread /\ Top \in Activations /\ Top.floor \in Nat /\ Of(L) # {}
         /\ \A th \in Thread : Len(ci[th]) \in Nat /\ Len(ci[th]) >= Len(ci[th])
         /\ Len(ci[L]) >= Top.floor
         /\ mode = "run" \/ Top.kind = "resume" => Len(ci[L]) > Top.floor
         /\ \A th \in Thread : nCcalls[th] \in Nat /\ nCcalls[th] < MAXCCALLS + Extra
<1>1. L \in Thread /\ Top \in Activations /\ Len(cstack) \in DOMAIN cstack
  BY TopTyped DEF IInv
<1>2. Top.floor \in Nat BY <1>1 DEF Activations
<1>3. Of(L) # {} BY <1>1 DEF Of, L, Top
<1>4. \A th \in Thread : Len(ci[th]) \in Nat /\ Len(ci[th]) >= Len(ci[th])
  BY LenProperties DEF IInv, Typed, CallInfos
<1>5. Len(ci[L]) >= Top.floor /\ (mode = "run" \/ Top.kind = "resume" => Len(ci[L]) > Top.floor)
  BY DEF IInv, Frames
<1>6. \A th \in Thread : nCcalls[th] \in Nat /\ nCcalls[th] < MAXCCALLS + Extra
  BY DEF IInv, Typed, Limits
<1> QED BY <1>1, <1>2, <1>3, <1>4, <1>5, <1>6

LEMMA CallLuaSafe == IInv /\ CallLua => IInv'
<1> SUFFICES ASSUME IInv, CallLua PROVE IInv' OBVIOUS
<1>1. cstack # <<>> /\ mode = "run" /\ Typed BY DEF CallLua, Runs, IInv
<1>2. PICK frames : frames = PushFrame(L, "Lua") OBVIOUS
<1>3. ci' = frames /\ UNCHANGED <<status, fresh, nCcalls, baseCcalls, errfunc, cstack, mode>>
  BY <1>2 DEF CallLua
<1>4. /\ frames \in CallInfos /\ Len(frames[L]) = Len(ci[L]) + 1
      /\ \A o \in Thread : o # L => frames[o] = ci[o]
      /\ \A o \in Thread : Len(frames[o]) >= Len(ci[o])
  BY <1>1, <1>2, PushFrameTyped, Running
<1>5. Typed' BY <1>1, <1>3, <1>4 DEF Typed
<1>6. Len(ci'[L]) > Top.floor /\ Len(ci'[L]) >= Top.floor BY <1>1, <1>3, <1>4, Running
<1>7. \A co \in Co : Of(co) = {} => ci'[co] = ci[co] BY <1>1, <1>3, <1>4, Running DEF Thread
<1> QED BY <1>1, <1>3, <1>4, <1>5, <1>6, <1>7, SameStackSafe

LEMMA ErrorSafe ==
  ASSUME IInv, cstack # <<>>, mode \in {"run", "errormsg"}, mode' \in {"errormsg", "throw"},
         UNCHANGED <<status, fresh, ci, nCcalls, baseCcalls, errfunc, cstack>>
  PROVE  IInv'
<1>1. Typed' BY DEF IInv, Typed
<1> QED BY <1>1, Running, SameStackSafe

LEMMA ErrorMsgSafe == IInv /\ ErrorMsg => IInv'
<1> SUFFICES ASSUME IInv, ErrorMsg PROVE IInv' OBVIOUS
<1>1. cstack # <<>> /\ mode = "errormsg" BY DEF ErrorMsg, IInv, Stopped
<1>2. CASE errfunc[L] = "function" /\ LuaDCall(Activation("handler", L, None, Len(ci[L]), FALSE), ci)
  BY <1>1, <1>2, HandlerSafe DEF ErrorMsg
<1>3. CASE mode' = "throw" /\ UNCHANGED <<ci, nCcalls, cstack>>
  BY <1>1, <1>3, ErrorSafe DEF ErrorMsg
<1> QED BY <1>2, <1>3 DEF ErrorMsg

LEMMA CreateSafe ==
  ASSUME IInv, NEW co \in Co, Create(co)
  PROVE  IInv'
<1>1. cstack # <<>> /\ mode = "run" /\ Typed BY DEF Create, Runs, IInv
<1>2. Typed' BY <1>1 DEF Create, Typed
<1>3. \A o \in Co : status'[o] = status[o] \/ (status[o] = "none" /\ status'[o] = "ok")
  BY <1>1 DEF Create, Typed, Thread
<1>4. UNCHANGED <<ci, nCcalls, baseCcalls, errfunc, cstack, mode>> BY DEF Create
<1> QED BY <1>1, <1>2, <1>3, <1>4, Running, SameStackSafe

\* OP_RETURN to a frame of the same activation.
LEMMA ReturnToFrameSafe ==
  ASSUME IInv, Runs, Len(ci[L]) > Top.floor + 1, ci' = PopFrame(ci, L),
         UNCHANGED <<status, fresh, nCcalls, baseCcalls, errfunc, cstack, mode>>
  PROVE  IInv'
<1>1. cstack # <<>> /\ mode = "run" /\ Typed BY DEF Runs, IInv
<1>2. PICK c : c = ci OBVIOUS
<1>3. c \in CallInfos /\ Len(c[L]) > 0 /\ L \in Thread BY <1>1, <1>2, Running DEF Typed
<1>4. /\ ci' \in CallInfos /\ Len(ci'[L]) = Len(ci[L]) - 1
      /\ \A o \in Thread : o # L => ci'[o] = ci[o]
  BY <1>2, <1>3, PopFrameTyped
<1>5. Typed' BY <1>1, <1>4 DEF Typed
<1>6. Len(ci'[L]) > Top.floor /\ Len(ci'[L]) >= Top.floor BY <1>1, <1>4, Running
<1>7. \A co \in Co : Of(co) = {} => ci'[co] = ci[co] BY <1>1, <1>4, Running DEF Thread
<1>8. \A th \in Thread : th # L => Len(ci'[th]) >= Len(ci[th]) BY <1>1, <1>4, Running
<1> QED BY <1>1, <1>5, <1>6, <1>7, <1>8, SameStackSafe

\* A resume that is refused: its message is returned, or raised.
LEMMA ResumeFailsSafe ==
  ASSUME IInv, Runs, NEW co \in Co, NEW wrap \in BOOLEAN,
         ResumeFails(Activation("resume", co, L, 0, wrap), PushFrame(L, "C")),
         UNCHANGED <<status, baseCcalls, errfunc, cstack>>,
         fresh' \in [Thread -> BOOLEAN],
         nCcalls' \in [Thread -> Nat],
         \A th \in Thread : nCcalls'[th] = nCcalls[th]
           \/ (th \in Co /\ Of(th) = {} /\ nCcalls'[th] < MAXCCALLS + Extra)
  PROVE  IInv'
<1>1. cstack # <<>> /\ mode = "run" /\ Typed BY DEF Runs, IInv
<1>2. PICK frames : frames = PushFrame(L, "C") OBVIOUS
<1>3. L \in Thread BY <1>1, Running
<1>4. /\ frames \in CallInfos /\ Len(frames[L]) = Len(ci[L]) + 1
      /\ \A o \in Thread : o # L => frames[o] = ci[o]
      /\ \A o \in Thread : Len(frames[o]) >= Len(ci[o])
  BY <1>1, <1>2, <1>3, PushFrameTyped
<1>5. (ci' = frames /\ mode' = "errormsg") \/ (ci' = PopFrame(frames, L) /\ mode' = "run")
  BY <1>2 DEF ResumeFails, Activation
<1>6. /\ ci' \in CallInfos /\ Len(ci'[L]) >= Len(ci[L])
      /\ \A o \in Thread : o # L => ci'[o] = ci[o]
  <2>1. CASE ci' = frames BY <1>1, <1>3, <1>4, <2>1, Running
  <2>2. CASE ci' = PopFrame(frames, L)
    <3>1. Len(ci[L]) \in Nat BY <1>1, <1>3, Running
    <3>2. Len(frames[L]) > 0 BY <1>4, <3>1
    <3>3. /\ ci' \in CallInfos /\ Len(ci'[L]) = Len(frames[L]) - 1
          /\ \A o \in Thread : o # L => ci'[o] = frames[o]
      BY <1>3, <1>4, <2>2, <3>2, PopFrameTyped
    <3> QED BY <1>4, <3>1, <3>3
  <2> QED BY <1>5, <2>1, <2>2
<1>7. Typed' BY <1>1, <1>5, <1>6 DEF Typed
<1>8. Len(ci'[L]) > Top.floor /\ Len(ci'[L]) >= Top.floor
  <2>1. Len(ci'[L]) \in Nat /\ Len(ci[L]) \in Nat BY <1>1, <1>3, <1>6, LenProperties, Running DEF CallInfos
  <2> QED BY <1>1, <1>6, <2>1, Running
<1>9. \A o \in Co : Of(o) = {} => ci'[o] = ci[o] BY <1>1, <1>6, Running DEF Thread
<1>10. \A th \in Thread : th # L => Len(ci'[th]) >= Len(ci[th]) BY <1>1, <1>6, Running
<1> QED BY <1>1, <1>7, <1>8, <1>9, <1>10, SameStackSafe

\* A coroutine on the C stack has CallInfos.
LEMMA NoFramesIsOff ==
  ASSUME IInv, NEW co \in Co, ci[co] = <<>>
  PROVE  Of(co) = {}
<1>1. co \in Thread /\ Typed BY DEF Thread, IInv
<1>2. SUFFICES ASSUME NEW k \in Of(co) PROVE FALSE OBVIOUS
<1>3. PICK n : n = Len(cstack) OBVIOUS
<1>4. n \in Nat /\ DOMAIN cstack = 1 .. n BY <1>1, <1>3, LenProperties DEF Typed
<1>5. k \in 1 .. n /\ cstack[k].th = co /\ co # Main BY <1>2, <1>4, ThreadAssumption DEF Of
<1>6. PICK j \in 1 .. n : cstack[j].th = co /\ cstack[j].kind = "resume"
  <2>1. CASE cstack[k].kind = "resume" BY <1>5, <2>1
  <2>2. CASE cstack[k].kind # "resume"
    <3>1. CountedAt(k, cstack[k]) BY <1>4, <1>5 DEF IInv, Counts
    <3>2. PICK j \in Below(co, k - 1) : cstack[j].kind = "resume"
      BY <1>5, <2>2, <3>1 DEF CountedAt
    <3> QED BY <1>4, <1>5, <3>2 DEF Below, BelowIn
  <2> QED BY <2>1, <2>2
<1>7. Len(ci[co]) = 0 BY EmptySeq
<1>8. cstack[j].floor = 0 BY <1>4, <1>6 DEF IInv, Shape
<1>9. CASE j = n
  <2>1. cstack # <<>> /\ Top = cstack[j] /\ L = co
    BY <1>1, <1>3, <1>4, <1>6, <1>9, EmptySeq DEF Top, L, Typed
  <2>2. Len(ci[co]) > 0 BY <1>6, <1>8, <2>1 DEF IInv, Frames
  <2> QED BY <1>7, <2>2
<1>10. CASE j # n
  <2>1. j \in 1 .. n - 1 BY <1>4, <1>6, <1>10
  <2>2. Len(ci[co]) >= Left(j) BY <1>3, <1>6, <2>1 DEF IInv, Frames
  <2>3. Left(j) \in {1, 2} BY <1>6, <1>8 DEF Left, LeftFor
  <2> QED BY <1>7, <2>2, <2>3
<1> QED BY <1>9, <1>10

\* A coroutine that can be resumed has no activation on the C stack.
LEMMA SuspendedIsOff ==
  ASSUME IInv, NEW co \in Co, CoStatus(co) = "suspended"
  PROVE  /\ Of(co) = {} /\ status[co] \in {"ok", "yield"}
         /\ status[co] = "yield" => Len(ci[co]) > 1
         /\ status[co] = "ok" => ci[co] = <<>>
<1>1. co \in Thread /\ status[co] \in {"none", "ok", "yield", "error"}
  BY DEF Thread, IInv, Typed
<1>2. status[co] \in {"ok", "yield"} /\ (status[co] = "ok" => ci[co] = <<>>)
  BY <1>1 DEF CoStatus
<1>3. status[co] = "yield" => Of(co) = {} /\ Len(ci[co]) > 1 BY DEF IInv, Statuses
<1> QED BY <1>2, <1>3, NoFramesIsOff

\* lua_resume goes on in the coroutine.
LEMMA ResumeStarts ==
  ASSUME IInv, Runs, NEW co \in Co, NEW wrap \in BOOLEAN,
         co # L, CoStatus(co) = "suspended", Level < MAXCCALLS,
         nCcalls' = [nCcalls EXCEPT ![co] = Level + 1],
         baseCcalls' = [baseCcalls EXCEPT ![co] = Level + 1],
         status' = [status EXCEPT ![co] = "ok"],
         fresh' = [fresh EXCEPT ![co] = FALSE],
         ci' = [PushFrame(L, "C") EXCEPT ![co] = IF @ = <<>> THEN <<"Lua">> ELSE Front(@)],
         cstack' = Append(cstack, Activation("resume", co, L, 0, wrap)),
         UNCHANGED <<errfunc, mode>>
  PROVE  IInv'
<1> USE DEF IInv
<1>1. cstack # <<>> /\ mode = "run" /\ Typed BY DEF Runs
<1>2. L \in Thread /\ co \in Thread /\ Level \in Nat BY <1>1, Running DEF Thread, Level
<1>3. Of(co) = {} /\ status[co] # "error" /\ (ci[co] = <<>> \/ Len(ci[co]) > 1)
  BY SuspendedIsOff
<1>4. PICK r : r = Activation("resume", co, L, 0, wrap) OBVIOUS
<1>5. /\ r \in Activations /\ r.kind = "resume" /\ r.th = co /\ r.from = L /\ r.floor = 0
      /\ r.n = nCcalls[co] /\ r.ef = errfunc[co]
  BY <1>1, <1>2, <1>4 DEF Activation, Activations, Typed
<1>6. Fits(r) BY <1>1, <1>3, <1>5 DEF Fits
<1>7. cstack' = Append(cstack, r) /\ CountsOn(r) BY <1>4, <1>5 DEF CountsOn
<1>8. PICK frames : frames = PushFrame(L, "C") OBVIOUS
<1>9. /\ frames \in CallInfos /\ Len(frames[L]) = Len(ci[L]) + 1
      /\ \A o \in Thread : o # L => frames[o] = ci[o]
      /\ \A o \in Thread : Len(frames[o]) >= Len(ci[o])
  BY <1>1, <1>2, <1>8, PushFrameTyped
<1>10. PICK s : s = (IF ci[co] = <<>> THEN <<"Lua">> ELSE Front(ci[co])) OBVIOUS
<1>11. s \in Seq({"Lua", "C"}) /\ Len(s) > 0
  <2>1. ci[co] \in Seq({"Lua", "C"}) BY <1>1, <1>2 DEF Typed, CallInfos
  <2>2. CASE ci[co] = <<>> BY <1>10, <2>2
  <2>3. CASE ci[co] # <<>>
    <3>1. s = Front(ci[co]) /\ Len(ci[co]) \in Nat BY <1>10, <2>1, <2>3, LenProperties
    <3>2. s \in Seq({"Lua", "C"}) /\ Len(s) = Len(ci[co]) - 1 BY <2>1, <2>3, <3>1, FrontSeq
    <3> QED BY <1>3, <2>3, <3>1, <3>2
  <2> QED BY <2>2, <2>3
<1>12. ci' = [frames EXCEPT ![co] = s] BY <1>2, <1>8, <1>9, <1>10
<1>13. /\ ci' \in CallInfos /\ ci'[co] = s
       /\ \A o \in Thread : o # co => ci'[o] = frames[o]
  BY <1>2, <1>9, <1>11, <1>12 DEF CallInfos
<1>14. Typed'
  <2>1. cstack' \in Seq(Activations) BY <1>5, <1>7, PushStack
  <2>2. Level + 1 \in 0 .. MAXCCALLS /\ Level + 1 \in Nat BY <1>2, LimitAssumption
  <2> QED BY <1>1, <1>2, <1>13, <2>1, <2>2 DEF Typed
<1>15. Shape' /\ JumpBuffers' BY <1>6, <1>7, PushShape, PushJumps
<1>16. Counts' /\ Depths' BY <1>6, <1>7, PushCounts, PushDepths
<1>17. Limits' BY <1>1, <1>5, <1>6, <1>7, PushLimits
<1>18. Handlers'
  <2>1. \A o \in Co : status'[o] = status[o] \/ status[o] # "error"
    BY <1>1, <1>2, <1>3 DEF Typed, Thread
  <2> QED BY <1>5, <1>6, <1>7, <2>1, PushHandlers
<1>19. Statuses'
  <2>1. Of(L) # {} BY <1>1, Running
  <2>2. \A o \in Co : Of(o) = {} /\ o # co => ci'[o] = ci[o]
    BY <1>9, <1>13, <2>1 DEF Thread
  <2> QED BY <1>5, <1>6, <1>7, <2>2, PushStatuses
<1>20. Frames'
  <2>1. \A th \in Thread : th # co => Len(ci'[th]) >= Len(ci[th]) BY <1>9, <1>13
  <2>2. Len(ci[L]) \in Nat BY <1>1, <1>2, Running
  <2>3. Len(ci'[L]) > Len(ci[L]) BY <1>2, <1>9, <1>13, <2>2
  <2>4. Len(ci'[co]) > 0 /\ Len(ci'[co]) \in Nat BY <1>11, <1>13, LenProperties
  <2>5. Len(ci'[r.th]) >= r.floor /\ Len(ci'[r.th]) > r.floor BY <1>5, <2>4
  <2> QED BY <1>1, <1>5, <1>6, <1>7, <1>13, <2>1, <2>3, <2>5, PushFrames
<1>21. Stopped' BY <1>1 DEF Stopped
<1> QED BY <1>14, <1>15, <1>16, <1>17, <1>18, <1>19, <1>20, <1>21

LEMMA ResumeSafe ==
  ASSUME IInv, NEW co \in Co, NEW wrap \in BOOLEAN, Resume(co, wrap)
  PROVE  IInv'
<1>1. Runs /\ cstack # <<>> /\ mode = "run" /\ Typed /\ errfunc' = errfunc
  BY DEF Resume, Runs, IInv
<1>2. CASE /\ ResumeFails(Activation("resume", co, L, 0, wrap), PushFrame(L, "C"))
           /\ UNCHANGED <<status, fresh, nCcalls, baseCcalls, cstack>>
  BY <1>1, <1>2, ResumeFailsSafe DEF Typed
<1>3. CASE /\ CoStatus(co) = "suspended"
           /\ nCcalls' = [nCcalls EXCEPT ![co] = Level]
           /\ fresh' = [fresh EXCEPT ![co] = FALSE]
           /\ ResumeFails(Activation("resume", co, L, 0, wrap), PushFrame(L, "C"))
           /\ UNCHANGED <<status, baseCcalls, cstack>>
  <2>1. Level \in Nat /\ Level < MAXCCALLS + Extra BY <1>1, Running DEF Level
  <2>2. co \in Thread /\ Of(co) = {} BY <1>3, SuspendedIsOff DEF Thread
  <2>3. /\ fresh' \in [Thread -> BOOLEAN] /\ nCcalls' \in [Thread -> Nat]
        /\ \A th \in Thread : th # co => nCcalls'[th] = nCcalls[th]
        /\ nCcalls'[co] = Level
    BY <1>1, <1>3, <2>1, <2>2 DEF Typed
  <2>4. \A th \in Thread : nCcalls'[th] = nCcalls[th]
           \/ (th \in Co /\ Of(th) = {} /\ nCcalls'[th] < MAXCCALLS + Extra)
    BY <2>1, <2>2, <2>3
  <2> QED BY <1>1, <1>3, <2>3, <2>4, ResumeFailsSafe
<1>4. CASE /\ co # L /\ CoStatus(co) = "suspended" /\ Level < MAXCCALLS
           /\ nCcalls' = [nCcalls EXCEPT ![co] = Level + 1]
           /\ baseCcalls' = [baseCcalls EXCEPT ![co] = Level + 1]
           /\ status' = [status EXCEPT ![co] = "ok"]
           /\ fresh' = [fresh EXCEPT ![co] = FALSE]
           /\ ci' = [PushFrame(L, "C") EXCEPT ![co] = IF @ = <<>> THEN <<"Lua">> ELSE Front(@)]
           /\ cstack' = Append(cstack, Activation("resume", co, L, 0, wrap))
           /\ UNCHANGED mode
  BY <1>1, <1>4, ResumeStarts
<1> QED BY <1>2, <1>3, <1>4 DEF Resume
-----------------------------------------------------------------------------
(* Activation r ends, alone or with those above it, which are of its thread. *)

Ends(k, r) ==
  /\ k \in DOMAIN cstack /\ r = cstack[k]
  /\ \A i \in k .. Len(cstack) : cstack[i].th = r.th
  /\ cstack' = SubSeq(cstack, 1, k - 1)

LEMMA CutStack ==
  ASSUME Typed, NEW k, NEW r, Ends(k, r), NEW n, n = Len(cstack)
  PROVE  /\ n \in Nat /\ k \in 1 .. n /\ DOMAIN cstack = 1 .. n /\ cstack # <<>>
         /\ r \in Activations /\ r.th \in Thread /\ r = cstack[k]
         /\ \A i \in 1 .. n : cstack[i] \in Activations
         /\ \A i \in k .. n : cstack[i].th = r.th
         /\ cstack' \in Seq(Activations)
         /\ Len(cstack') = k - 1 /\ DOMAIN cstack' = 1 .. k - 1
         /\ \A i \in 1 .. k - 1 : cstack'[i] = cstack[i]
         /\ cstack' = <<>> <=> k = 1
         /\ k > 1 => Top' = cstack[k - 1] /\ L' = cstack[k - 1].th
         /\ L = r.th
<1>1. n \in Nat /\ DOMAIN cstack = 1 .. n BY LenProperties DEF Typed
<1>2. k \in 1 .. n /\ r = cstack[k] /\ \A i \in k .. n : cstack[i].th = r.th
  BY <1>1 DEF Ends
<1>3. \A i \in 1 .. n : cstack[i] \in Activations BY ElementOfSeq DEF Typed
<1>4. PICK m : m = k - 1 OBVIOUS
<1>5. m \in 0 .. Len(cstack) /\ cstack' = SubSeq(cstack, 1, m) BY <1>1, <1>2, <1>4 DEF Ends
<1>6. /\ cstack' \in Seq(Activations) /\ Len(cstack') = m
      /\ \A i \in 1 .. m : cstack'[i] = cstack[i]
  BY <1>5, CutSeq DEF Typed
<1>7. DOMAIN cstack' = 1 .. m BY <1>6, LenProperties
<1>8. cstack' = <<>> <=> m = 0 BY <1>6, EmptySeq
<1>9. k > 1 => m \in 1 .. m BY <1>2, <1>4
<1>10. k > 1 => Top' = cstack[m] BY <1>6, <1>9 DEF Top
<1>11. L = r.th BY <1>1, <1>2 DEF L, Top
<1>12. cstack # <<>> BY <1>1, <1>2, EmptySeq
<1>13. r \in Activations /\ r.th \in Thread BY <1>2, <1>3 DEF Activations
<1>14. k = 1 <=> m = 0 BY <1>2, <1>4
<1>15. k > 1 => L' = cstack[m].th BY <1>10 DEF L
<1> QED BY <1>1, <1>2, <1>3, <1>4, <1>6, <1>7, <1>8, <1>10, <1>11, <1>12, <1>13, <1>14, <1>15

\* What is left is the beginning of the stack, which nothing changed.
LEMMA CutShape ==
  ASSUME Typed, Shape, JumpBuffers, NEW k, NEW r, Ends(k, r)
  PROVE  Shape' /\ JumpBuffers'
<1>1. PICK n : n = Len(cstack) OBVIOUS
<1>2. /\ n \in Nat /\ k \in 1 .. n /\ DOMAIN cstack = 1 .. n /\ DOMAIN cstack' = 1 .. k - 1
      /\ \A i \in 1 .. k - 1 : cstack'[i] = cstack[i]
  BY <1>1, CutStack
<1>3. Shape'
  <2>1. SUFFICES ASSUME NEW j \in 1 .. k - 1
        PROVE /\ j = 1 => cstack'[j].kind = "java" /\ cstack'[j].from = None
              /\ j > 1 => IF cstack'[j].kind \in {"java", "resume"}
                          THEN cstack'[j].from = cstack'[j - 1].th
                          ELSE cstack'[j].th = cstack'[j - 1].th
              /\ cstack'[j].kind = "java" => cstack'[j].th = Main
              /\ cstack'[j].kind = "resume" => cstack'[j].th \in Co /\ cstack'[j].floor = 0
    BY <1>2 DEF Shape
  <2>2. j \in DOMAIN cstack /\ cstack'[j] = cstack[j] /\ (j > 1 => cstack'[j - 1] = cstack[j - 1])
    BY <1>2
  <2> QED BY <2>2 DEF Shape
<1>4. JumpBuffers'
  <2>1. SUFFICES ASSUME NEW i \in 1 .. k - 1 PROVE \E j \in 1 .. i : Jumps(j, i)'
    BY <1>2 DEF JumpBuffers
  <2> i \in DOMAIN cstack BY <1>2
  <2>2. PICK j \in 1 .. i : Jumps(j, i) BY DEF JumpBuffers
  <2>3. \A h \in j .. i : cstack'[h] = cstack[h] BY <1>2
  <2>4. j \in j .. i /\ i \in j .. i /\ j + 1 .. i \subseteq j .. i BY <1>2
  <2>5. Jumps(j, i)' BY <2>2, <2>3, <2>4 DEF Jumps, Protects
  <2> QED BY <2>5
<1> QED BY <1>3, <1>4

LEMMA CutCalls ==
  ASSUME Typed, NEW k, NEW r, Ends(k, r), NEW n, n = Len(cstack)
  PROVE  /\ \A th, j : j \in 0 .. k - 1 => Below(th, j)' = Below(th, j)
         /\ baseCcalls' = baseCcalls =>
              \A th, j : j \in 0 .. k - 1 => Calls(th, j)' = Calls(th, j)
         /\ \A th : Of(th)' = Below(th, k - 1)
         /\ \A th : th # r.th => Below(th, k - 1) = Of(th)
         /\ \A th : th # r.th => Calls(th, k - 1) = Calls(th, n)
<1>1. /\ n \in Nat /\ k \in 1 .. n /\ DOMAIN cstack = 1 .. n /\ DOMAIN cstack' = 1 .. k - 1
      /\ \A i \in 1 .. k - 1 : cstack'[i] = cstack[i]
      /\ \A i \in k .. n : cstack[i].th = r.th
  BY CutStack
<1>2. \A th, j : j \in 0 .. k - 1 => Below(th, j)' = Below(th, j)
  BY <1>1 DEF Below, BelowIn
<1>3. baseCcalls' = baseCcalls => \A th, j : j \in 0 .. k - 1 => Calls(th, j)' = Calls(th, j)
  BY <1>2 DEF Calls, Base
<1>4. \A th : Of(th)' = Below(th, k - 1) BY <1>1 DEF Of, Below, BelowIn
<1>5. \A th : th # r.th => Below(th, k - 1) = Of(th) BY <1>1 DEF Of, Below, BelowIn
<1>6. \A th : th # r.th => Below(th, k - 1) = Below(th, n) BY <1>5, OfIsBelow
<1>7. \A th : th # r.th => Calls(th, k - 1) = Calls(th, n) BY <1>6 DEF Calls
<1> QED BY <1>2, <1>3, <1>4, <1>5, <1>7

LEMMA CutCounts ==
  ASSUME Typed, Shape, Counts, NEW k, NEW r, Ends(k, r), baseCcalls' = baseCcalls,
         \A th \in Thread : th # r.th => nCcalls'[th] = nCcalls[th],
         r.kind # "resume" => nCcalls'[r.th] = Calls(r.th, k - 1)
  PROVE  Counts'
<1>1. PICK n : n = Len(cstack) OBVIOUS
<1>2. PICK m : m = k - 1 OBVIOUS
<1>3. /\ n \in Nat /\ k \in 1 .. n /\ DOMAIN cstack = 1 .. n /\ DOMAIN cstack' = 1 .. m
      /\ Len(cstack') = m /\ r = cstack[k] /\ m \in 0 .. k - 1 /\ r.th \in Thread
      /\ \A i \in 1 .. m : cstack'[i] = cstack[i] /\ i \in 1 .. n
  <2>1. m \in 0 .. k - 1 /\ \A i \in 1 .. m : i \in 1 .. n BY <1>1, <1>2, CutStack
  <2> QED BY <1>1, <1>2, <2>1, CutStack
<1>4. ASSUME NEW th \in Thread, th = Main \/ Of(th)' # {}
      PROVE  nCcalls'[th] = Calls(th, m)'
  <2>1. Calls(th, m)' = Calls(th, m) BY <1>1, <1>3, CutCalls
  <2>2. CASE th # r.th
    <3>1. th = Main \/ Of(th) # {} BY <1>1, <1>4, <2>2, CutCalls
    <3>2. nCcalls[th] = Calls(th, n) BY <1>1, <3>1 DEF Counts
    <3>3. Calls(th, m) = Calls(th, n) BY <1>1, <1>2, <2>2, CutCalls
    <3> QED BY <2>1, <2>2, <3>2, <3>3
  <2>3. CASE th = r.th
    <3>1. r.kind # "resume"
      <4> SUFFICES ASSUME r.kind = "resume" PROVE FALSE OBVIOUS
      <4>1. r.th \in Co BY <1>3 DEF Shape
      <4>2. CountedAt(k, r) BY <1>3 DEF Counts
      <4>3. Below(th, k - 1) = {} BY <2>3, <4>2 DEF CountedAt
      <4> QED BY <1>1, <1>4, <2>3, <4>1, <4>3, CutCalls, ThreadAssumption
    <3> QED BY <1>2, <2>1, <2>3, <3>1
  <2> QED BY <2>2, <2>3
<1>5. ASSUME NEW i \in DOMAIN cstack', NEW s, s = cstack'[i] PROVE CountedAt(i, s)'
  <2>1. i \in 1 .. n /\ s = cstack[i] /\ i - 1 \in 0 .. k - 1 BY <1>2, <1>3, <1>5
  <2>2. CountedAt(i, s) BY <1>3, <2>1 DEF Counts
  <2>3. Below(s.th, i - 1)' = Below(s.th, i - 1) /\ Calls(s.th, i - 1)' = Calls(s.th, i - 1)
    BY <1>1, <2>1, CutCalls
  <2>4. \A j \in Below(s.th, i - 1) : cstack'[j] = cstack[j]
    BY <1>3, <1>5 DEF Below, BelowIn
  <2> QED BY <2>2, <2>3, <2>4 DEF CountedAt
<1>6. baseCcalls'[Main] = 0 BY DEF Counts
<1> QED BY <1>3, <1>4, <1>5, <1>6, CountsPrimed

LEMMA CutDepths ==
  ASSUME Typed, Depths, NEW k, NEW r, Ends(k, r), baseCcalls' = baseCcalls
  PROVE  Depths'
<1>1. PICK n : n = Len(cstack) OBVIOUS
<1>2. /\ n \in Nat /\ k \in 1 .. n /\ DOMAIN cstack = 1 .. n /\ DOMAIN cstack' = 1 .. k - 1
      /\ \A i \in 1 .. k - 1 : cstack'[i] = cstack[i]
  BY <1>1, CutStack
<1>3. ASSUME NEW j \in DOMAIN cstack', NEW th, th = cstack'[j].th,
             \A i \in 1 .. j : cstack'[i].kind = "java" => cstack'[i].from \notin Co
      PROVE  Calls(th, j)' = j
  <2>1. j \in DOMAIN cstack /\ th = cstack[j].th /\ j \in 0 .. k - 1 BY <1>2, <1>3
  <2>2. \A i \in 1 .. j : cstack[i].kind = "java" => cstack[i].from \notin Co BY <1>2, <1>3
  <2>3. Calls(th, j) = j BY <2>1, <2>2 DEF Depths
  <2> QED BY <1>1, <2>1, <2>3, CutCalls
<1> QED BY <1>3, DepthsPrimed

LEMMA CutLimits ==
  ASSUME Typed, Limits, NEW k, NEW r, Ends(k, r),
         \A th \in Thread : nCcalls'[th] < MAXCCALLS + Extra
  PROVE  Limits'
<1>1. PICK n : n = Len(cstack) OBVIOUS
<1>2. /\ n \in Nat /\ k \in 1 .. n /\ DOMAIN cstack = 1 .. n /\ DOMAIN cstack' = 1 .. k - 1
      /\ \A i \in 1 .. k - 1 : cstack'[i] = cstack[i]
  BY <1>1, CutStack
<1>3. \A i \in DOMAIN cstack' : cstack'[i].n < MAXCCALLS + Extra BY <1>2 DEF Limits
<1> QED BY <1>3 DEF Limits

LEMMA CutHandlers ==
  ASSUME Typed, Shape, Handlers, NEW k, NEW r, Ends(k, r),
         \A co \in Co : status'[co] # "error" => status[co] # "error",
         \A co \in Co : co # r.th => errfunc'[co] = errfunc[co],
         r.kind = "pcall" => errfunc'[r.th] = r.ef,
         r.th \in Co /\ r.kind # "pcall" => \/ status'[r.th] = "error"
                                            \/ k = Len(cstack) /\ errfunc'[r.th] = errfunc[r.th]
  PROVE  Handlers'
<1>1. PICK n : n = Len(cstack) OBVIOUS
<1>2. /\ n \in Nat /\ k \in 1 .. n /\ DOMAIN cstack = 1 .. n /\ DOMAIN cstack' = 1 .. k - 1
      /\ r = cstack[k]
      /\ \A i \in 1 .. k - 1 : cstack'[i] = cstack[i]
  BY <1>1, CutStack
<1>3. SUFFICES ASSUME NEW co \in Co, status'[co] # "error"
      PROVE  /\ (\A i \in Of(co)' : cstack'[i].kind # "pcall") => errfunc'[co] = None
             /\ \A i \in Of(co)' :
                  cstack'[i].kind = "pcall" /\ (\A j \in Below(co, i - 1)' : cstack'[j].kind # "pcall")
                    => cstack'[i].ef = None
  BY DEF Handlers
<1>4. /\ (\A i \in Of(co) : cstack[i].kind # "pcall") => errfunc[co] = None
      /\ \A i \in Of(co) :
           cstack[i].kind = "pcall" /\ (\A j \in Below(co, i - 1) : cstack[j].kind # "pcall")
             => cstack[i].ef = None
  BY <1>3 DEF Handlers
<1>5. \A i \in Of(co)' : i \in 1 .. k - 1 /\ i \in Of(co) /\ cstack'[i] = cstack[i]
  BY <1>2 DEF Of
<1>6. ASSUME \A i \in Of(co)' : cstack'[i].kind # "pcall" PROVE errfunc'[co] = None
  <2>1. \A i \in Below(co, k - 1) : cstack[i].kind # "pcall"
    <3>1. Of(co)' = Below(co, k - 1) BY <1>1, CutCalls
    <3> QED BY <1>5, <1>6, <3>1
  <2>2. CASE co # r.th
    <3>1. Below(co, k - 1) = Of(co) BY <1>1, <2>2, CutCalls
    <3> QED BY <1>4, <2>1, <2>2, <3>1
  <2>3. CASE co = r.th /\ r.kind = "pcall"
    <3>1. k \in Of(co) BY <1>2, <2>3 DEF Of
    <3> QED BY <1>2, <1>4, <2>1, <2>3, <3>1
  <2>4. CASE co = r.th /\ r.kind # "pcall"
    <3>1. k = n /\ errfunc'[co] = errfunc[co] BY <1>1, <1>3, <2>4
    <3>2. \A i \in Of(co) : i = k \/ i \in Below(co, k - 1)
      BY <1>2, <3>1 DEF Of, Below, BelowIn
    <3> QED BY <1>2, <1>4, <2>1, <2>4, <3>1, <3>2
  <2> QED BY <2>2, <2>3, <2>4
<1>7. ASSUME NEW i \in Of(co)', cstack'[i].kind = "pcall",
             \A j \in Below(co, i - 1)' : cstack'[j].kind # "pcall"
      PROVE  cstack'[i].ef = None
  <2>1. i - 1 \in 0 .. k - 1 BY <1>2, <1>5
  <2>2. Below(co, i - 1)' = Below(co, i - 1) BY <1>1, <2>1, CutCalls
  <2>3. \A j \in Below(co, i - 1) : cstack'[j] = cstack[j] BY <1>2, <1>5 DEF Below, BelowIn
  <2> QED BY <1>4, <1>5, <1>7, <2>2, <2>3
<1> QED BY <1>6, <1>7

LEMMA CutStatuses ==
  ASSUME Typed, Shape, Counts, Statuses, NEW k, NEW r, Ends(k, r),
         \A co \in Co : co # r.th => status'[co] = status[co] /\ (Of(co) = {} => ci'[co] = ci[co]),
         r.kind # "resume" => status'[r.th] = status[r.th],
         r.kind = "resume" => \/ status'[r.th] = "error"
                              \/ status'[r.th] = "yield" /\ Len(ci'[r.th]) > 1
                              \/ status'[r.th] = "ok" /\ ci'[r.th] = <<>>
  PROVE  Statuses'
<1>1. PICK n : n = Len(cstack) OBVIOUS
<1>2. /\ n \in Nat /\ k \in 1 .. n /\ DOMAIN cstack = 1 .. n /\ DOMAIN cstack' = 1 .. k - 1
      /\ r = cstack[k]
  BY <1>1, CutStack
<1>3. SUFFICES ASSUME NEW co \in Co
      PROVE  /\ Of(co)' # {} => status'[co] = "ok"
             /\ Of(co)' = {} /\ status'[co] \in {"none", "ok"} => ci'[co] = <<>>
             /\ status'[co] = "yield" => Len(ci'[co]) > 1
  BY DEF Statuses
<1>4. CASE co # r.th
  <2>1. Of(co)' = Of(co) BY <1>1, <1>4, CutCalls
  <2>2. status[co] = "yield" => Of(co) = {} BY DEF Statuses
  <2> QED BY <1>4, <2>1, <2>2 DEF Statuses
<1>5. CASE co = r.th /\ r.kind = "resume"
  <2>1. CountedAt(k, r) BY <1>2 DEF Counts
  <2>2. Of(co)' = {} BY <1>1, <1>5, <2>1, CutCalls DEF CountedAt
  <2> QED BY <1>5, <2>2
<1>6. CASE co = r.th /\ r.kind # "resume"
  <2>1. k > 1 /\ cstack[k - 1].th = co
    <3>1. r.kind # "java" BY <1>2, <1>6, ThreadAssumption DEF Shape
    <3>2. k # 1 BY <1>2, <3>1 DEF Shape
    <3> QED BY <1>2, <1>6, <3>1, <3>2 DEF Shape
  <2>2. k - 1 \in Below(co, k - 1) BY <1>2, <2>1 DEF Below, BelowIn
  <2>3. Of(co)' # {} BY <1>1, <2>2, CutCalls
  <2>4. Of(co) # {} BY <1>2, <1>6 DEF Of
  <2> QED BY <1>6, <2>3, <2>4 DEF Statuses
<1> QED BY <1>4, <1>5, <1>6

LEMMA CutFrames ==
  ASSUME Typed, Frames, NEW k, NEW r, Ends(k, r), ci' \in CallInfos,
         k > 1 => LET s == cstack[k - 1]
                  IN /\ Len(ci'[s.th]) >= s.floor
                     /\ mode' = "run" \/ s.kind = "resume" => Len(ci'[s.th]) > s.floor
                     /\ \A th \in Thread : th # s.th /\ th # r.th => Len(ci'[th]) >= Len(ci[th])
                     /\ r.th # s.th /\ r.kind # "resume" => Len(ci'[r.th]) >= r.floor,
         r.kind = "resume" => Of(r.th)' = {}
  PROVE  Frames'
<1>1. PICK n : n = Len(cstack) OBVIOUS
<1>2. PICK m : m = k - 1 OBVIOUS
<1>3. /\ n \in Nat /\ k \in 1 .. n /\ DOMAIN cstack = 1 .. n /\ DOMAIN cstack' = 1 .. m
      /\ Len(cstack') = m /\ r = cstack[k] /\ m \in 0 .. n - 1
      /\ \A i \in 1 .. m : cstack'[i] = cstack[i] /\ i \in 1 .. n
      /\ cstack' = <<>> <=> m = 0
      /\ m > 0 => Top' = cstack[m] /\ L' = cstack[m].th /\ k > 1
  <2>1. m \in 0 .. n - 1 /\ (\A i \in 1 .. m : i \in 1 .. n) /\ (k = 1 <=> m = 0) /\ (m > 0 => k > 1)
    BY <1>1, <1>2, CutStack
  <2> QED BY <1>1, <1>2, <2>1, CutStack
<1>4. \A i \in 1 .. n : cstack[i].th \in Thread /\ cstack[i].floor \in Nat
  <2>1. \A i \in 1 .. n : cstack[i] \in Activations BY <1>1, CutStack
  <2> QED BY <2>1 DEF Activations
<1>5. \A th \in Thread : Len(ci[th]) \in Nat /\ Len(ci'[th]) \in Nat
  BY LenProperties DEF Typed, CallInfos
<1>6. \A i \in 1 .. n - 1 : Left(i) \in Nat
  <2>1. \A i \in 1 .. n - 1 : cstack[i].floor \in Nat BY <1>3, <1>4
  <2> QED BY <2>1 DEF Left, LeftFor
<1>7. \A i \in 1 .. m - 1 : Left(i)' = Left(i)
  <2>1. \A i \in 1 .. m - 1 : cstack'[i] = cstack[i] /\ cstack'[i + 1] = cstack[i + 1] BY <1>3
  <2> QED BY <2>1 DEF Left, LeftFor
<1>8. ASSUME NEW j \in 1 .. m - 1 PROVE Len(ci'[cstack[j].th]) >= Left(j)
  <2>1. PICK th \in Thread : th = cstack[j].th BY <1>3, <1>4
  <2>2. PICK s : s = cstack[m] OBVIOUS
  <2>3. /\ s.th \in Thread /\ s.floor \in Nat /\ Left(j) \in Nat /\ m \in 1 .. n /\ k > 1
        /\ j \in 1 .. n - 1 /\ j \in 1 .. m - 1 /\ j \in 1 .. k - 1
    BY <1>2, <1>3, <1>4, <1>6, <2>2
  <2>4. CASE th = s.th
    <3>1. s.floor >= Left(j) BY <1>3, <2>1, <2>2, <2>3, <2>4 DEF Frames
    <3>2. Len(ci'[s.th]) >= s.floor BY <1>2, <2>2, <2>3
    <3> QED BY <1>5, <2>1, <2>3, <2>4, <3>1, <3>2
  <2>5. CASE th # s.th /\ th # r.th
    <3>1. Len(ci[th]) >= Left(j) BY <1>1, <2>1, <2>3 DEF Frames
    <3>2. Len(ci'[th]) >= Len(ci[th]) BY <1>2, <2>2, <2>3, <2>5
    <3> QED BY <1>5, <2>1, <2>3, <3>1, <3>2
  <2>6. CASE th # s.th /\ th = r.th
    <3>1. r.kind # "resume"
      <4>1. j \in Of(th)' BY <1>3, <2>1 DEF Of
      <4> QED BY <2>6, <4>1
    <3>2. r.floor >= Left(j) BY <1>3, <2>1, <2>3, <2>6 DEF Frames
    <3>3. Len(ci'[r.th]) >= r.floor BY <1>2, <2>2, <2>3, <2>6, <3>1
    <3>4. r.floor \in Nat BY <1>3, <1>4
    <3> QED BY <1>5, <2>1, <2>3, <2>6, <3>2, <3>3, <3>4
  <2> QED BY <2>4, <2>5, <2>6
<1>9. ASSUME NEW i \in 1 .. m, NEW j \in 1 .. i - 1, cstack'[j].th = cstack'[i].th
      PROVE  cstack'[i].floor >= Left(j)'
  <2>1. j \in 1 .. m - 1 /\ j \in 1 .. m BY <1>3
  <2>2. cstack[i].floor >= Left(j) BY <1>3, <1>9, <2>1 DEF Frames
  <2> QED BY <1>3, <1>7, <2>1, <2>2
<1>10. cstack' # <<>> =>
         /\ Len(ci'[L']) >= Top'.floor
         /\ mode' = "run" \/ Top'.kind = "resume" => Len(ci'[L']) > Top'.floor
  BY <1>2, <1>3
<1>11. \A j \in 1 .. m - 1 : cstack'[j] = cstack[j] BY <1>3
<1> QED BY <1>3, <1>7, <1>8, <1>9, <1>10, <1>11 DEF Frames

\* What the C code of r does when r returned or failed, given the frames that
\* are left: JavaReturns, ResumeFails and the endings of the other kinds.
Resumes(r, frames) ==
  \/ r.kind = "meta" /\ ci' = frames /\ mode' = "run"
  \/ r.kind = "handler" /\ ci' = frames /\ mode' = "throw"
  \/ r.kind = "pcall" /\ ci' = PopFrame(frames, r.th) /\ mode' = "run"
  \/ r.kind = "java" /\ JavaReturns(r, frames)
  \/ r.kind = "resume" /\ ci' = PopFrame(frames, r.from) /\ mode' = "run"
  \/ r.kind = "resume" /\ ci' = frames /\ mode' = "errormsg"

LEMMA EndFrames ==
  ASSUME IInv, NEW k, NEW r, NEW frames, Ends(k, r), Resumes(r, frames),
         frames \in CallInfos,
         \A th \in Thread : th # r.th => frames[th] = ci[th],
         r.kind # "resume" => Len(frames[r.th]) = r.floor,
         r.kind = "handler" => k > 1
  PROVE  /\ ci' \in CallInfos /\ mode' \in {"run", "errormsg", "throw"}
         /\ Frames' /\ Stopped'
         /\ \A co \in Co : co # r.th /\ Of(co) = {} => ci'[co] = ci[co]
         /\ r.kind = "resume" => ci'[r.th] = frames[r.th]
<1> USE DEF IInv
<1>1. PICK n : n = Len(cstack) OBVIOUS
<1>2. /\ n \in Nat /\ k \in 1 .. n /\ DOMAIN cstack = 1 .. n /\ r = cstack[k]
      /\ r \in Activations /\ r.th \in Thread
      /\ \A i \in 1 .. n : cstack[i] \in Activations
      /\ cstack' = <<>> <=> k = 1
  BY <1>1, CutStack
<1>3. r.floor \in Nat /\ r.kind \in {"meta", "pcall", "java", "handler", "resume"}
  BY <1>2 DEF Activations
<1>4. \A th \in Thread : Len(frames[th]) \in Nat /\ Len(ci[th]) \in Nat
  BY LenProperties DEF Typed, CallInfos
<1>5. CASE k = 1
  <2>1. r.kind = "java" /\ r.from = None /\ ci' = frames /\ mode' = "run" /\ cstack' = <<>>
    BY <1>2, <1>5 DEF Shape, Resumes, JavaReturns
  <2>2. Frames'
    <3>1. ~(k > 1) BY <1>5
    <3> QED BY <2>1, <3>1, CutFrames
  <2>3. \A co \in Co : co # r.th => ci'[co] = ci[co] BY <2>1 DEF Thread
  <2> QED BY <2>1, <2>2, <2>3 DEF Stopped
<1>6. CASE k > 1
  <2>1. PICK s : s = cstack[k - 1] OBVIOUS
  <2>2. k - 1 \in 1 .. n /\ k - 1 \in 1 .. n - 1 /\ k - 1 + 1 = k BY <1>2, <1>6
  <2>3. s \in Activations /\ s.th \in Thread /\ s.floor \in Nat /\ k - 1 \in Of(s.th)
    BY <1>2, <2>1, <2>2 DEF Activations, Of
  <2>4. IF r.kind \in {"java", "resume"} THEN r.from = s.th ELSE r.th = s.th
    BY <1>2, <1>6, <2>1 DEF Shape
  <2>5. r.kind = "resume" => r.th \in Co /\ r.th # s.th /\ Of(r.th)' = {}
    <3> SUFFICES ASSUME r.kind = "resume" PROVE r.th \in Co /\ r.th # s.th /\ Of(r.th)' = {}
        OBVIOUS
    <3>1. CountedAt(k, r) BY <1>2 DEF Counts
    <3>2. Below(r.th, k - 1) = {} BY <3>1 DEF CountedAt
    <3>3. r.th # s.th BY <2>1, <2>2, <3>2 DEF Below, BelowIn
    <3>4. Of(r.th)' = {} BY <1>1, <3>2, CutCalls
    <3> QED BY <1>2, <3>3, <3>4 DEF Shape
  \* Of the thread below r at least what Left says is there.
  <2>6. Len(frames[s.th]) >= LeftFor(s, r)
    <3>1. Left(k - 1) = LeftFor(s, r) BY <1>2, <2>1, <2>2 DEF Left
    <3>2. CASE r.th = s.th
      <4>1. r.floor >= Left(k - 1) BY <1>2, <2>1, <2>2, <3>2 DEF Frames
      <4> QED BY <2>5, <3>1, <3>2, <4>1
    <3>3. CASE r.th # s.th
      <4>1. Len(ci[s.th]) >= Left(k - 1) BY <1>1, <2>1, <2>2 DEF Frames
      <4> QED BY <2>3, <3>1, <3>3, <4>1
    <3> QED BY <3>2, <3>3
  <2>7. s.th # None BY <2>3, ThreadAssumption
  <2>8. /\ r.kind \in {"pcall", "java", "resume"} => Len(frames[s.th]) >= s.floor + 2
        /\ r.kind = "meta" \/ s.kind = "resume" => Len(frames[s.th]) > s.floor
        /\ Len(frames[s.th]) >= s.floor
    BY <1>3, <1>4, <2>3, <2>6 DEF LeftFor
  <2>9. \/ ci' = frames /\ mode' = "run" /\ r.kind = "meta"
        \/ ci' = frames /\ mode' \in {"throw", "errormsg"}
        \/ ci' = PopFrame(frames, s.th) /\ mode' = "run" /\ r.kind \in {"pcall", "java", "resume"}
    BY <2>4, <2>7 DEF Resumes, JavaReturns
  <2>10. /\ ci' \in CallInfos /\ mode' \in {"run", "errormsg", "throw"}
         /\ \A th \in Thread : th # s.th => ci'[th] = frames[th]
         /\ Len(ci'[s.th]) >= s.floor
         /\ mode' = "run" \/ s.kind = "resume" => Len(ci'[s.th]) > s.floor
    <3>1. CASE ci' = frames /\ mode' = "run" /\ r.kind = "meta" BY <2>8, <3>1
    <3>2. CASE ci' = frames /\ mode' \in {"throw", "errormsg"} BY <2>8, <3>2
    <3>3. CASE ci' = PopFrame(frames, s.th) /\ mode' = "run" /\ r.kind \in {"pcall", "java", "resume"}
      <4>1. Len(frames[s.th]) >= s.floor + 2 /\ Len(frames[s.th]) > 0
        BY <1>4, <2>3, <2>8, <3>3
      <4>2. /\ ci' \in CallInfos /\ Len(ci'[s.th]) = Len(frames[s.th]) - 1
            /\ \A th \in Thread : th # s.th => ci'[th] = frames[th]
        BY <2>3, <3>3, <4>1, PopFrameTyped
      <4>3. Len(ci'[s.th]) > s.floor /\ Len(ci'[s.th]) >= s.floor
        BY <1>4, <2>3, <4>1, <4>2
      <4> QED BY <3>3, <4>2, <4>3
    <3> QED BY <2>9, <3>1, <3>2, <3>3
  <2>11. Frames'
    <3>1. \A th \in Thread : th # s.th /\ th # r.th => Len(ci'[th]) >= Len(ci[th])
      BY <1>4, <2>10
    <3>2. r.th # s.th /\ r.kind # "resume" => Len(ci'[r.th]) >= r.floor
      BY <1>2, <1>3, <2>10
    <3> QED BY <2>1, <2>5, <2>10, <3>1, <3>2, CutFrames
  <2>12. Stopped' BY <1>2, <1>6 DEF Stopped
  <2>13. \A co \in Co : co # r.th /\ Of(co) = {} => ci'[co] = ci[co]
    BY <2>3, <2>10 DEF Thread
  <2>14. r.kind = "resume" => ci'[r.th] = frames[r.th] BY <1>2, <2>5, <2>10
  <2> QED BY <2>10, <2>11, <2>12, <2>13, <2>14
<1> QED BY <1>2, <1>5, <1>6

\* The last activation counts for one.
LEMMA TopCalls ==
  ASSUME IInv, cstack # <<>>, NEW n, n = Len(cstack)
  PROVE  /\ nCcalls[L] \in Nat \ {0}
         /\ Calls(L, n - 1) = nCcalls[L] - 1
         /\ nCcalls[L] = Base(L) + Cardinality(Below(L, n)) /\ Base(L) \in Nat
         /\ Cardinality(Below(L, n)) = Cardinality(Below(L, n - 1)) + 1
         /\ Cardinality(Below(L, n - 1)) \in Nat
<1>1. Typed /\ Counts BY DEF IInv
<1>2. n \in Nat \ {0} /\ n - 1 \in Nat /\ L \in Thread BY <1>1, TopTyped
<1>3. cstack[n].th = L BY DEF L, Top
<1>4. Cardinality(Below(L, n - 1)) \in Nat BY <1>2, BelowNat DEF Below
<1>5. Cardinality(Below(L, n)) = Cardinality(Below(L, n - 1)) + 1
  <2>1. PICK m \in Nat : m = n - 1 /\ n = m + 1 BY <1>2
  <2>2. Cardinality(BelowIn(cstack, L, m + 1)) =
          Cardinality(BelowIn(cstack, L, m)) + (IF cstack[m + 1].th = L THEN 1 ELSE 0)
    BY BelowAdd
  <2> QED BY <1>3, <2>1, <2>2 DEF Below
<1>6. nCcalls[L] = Base(L) + Cardinality(Below(L, n))
  BY <1>1, CountedTop DEF Calls
<1>7. Base(L) \in Nat
  <2>1. baseCcalls[L] \in Nat BY <1>1, <1>2, LimitAssumption DEF Typed
  <2>2. L # Main => baseCcalls[L] > 0 BY <1>1, CountedTop
  <2> QED BY <2>1, <2>2 DEF Base
<1> QED BY <1>4, <1>5, <1>6, <1>7 DEF Calls

LEMMA FinishSafe ==
  ASSUME IInv, Runs, Len(ci[L]) = Top.floor + 1, Finish(Top, PopFrame(ci, L)),
         UNCHANGED <<status, baseCcalls>>
  PROVE  IInv'
<1> USE DEF IInv
<1>1. cstack # <<>> /\ mode = "run" BY DEF Runs
<1>2. PICK k : k = Len(cstack) OBVIOUS
<1>3. PICK r : r = Top OBVIOUS
<1>4. PICK frames : frames = PopFrame(ci, L) OBVIOUS
<1>5. Ends(k, r)
  <2>1. k \in DOMAIN cstack /\ k \in Nat BY <1>1, <1>2, TopTyped
  <2>2. cstack' = SubSeq(cstack, 1, k - 1) BY <1>2 DEF Finish, Front
  <2> QED BY <1>2, <1>3, <2>1, <2>2 DEF Ends, Top
<1>6. L = r.th /\ L \in Thread /\ r \in Activations /\ r.floor \in Nat
  BY <1>1, <1>3, Running DEF L
<1>7. /\ frames \in CallInfos /\ Len(frames[L]) = r.floor
      /\ \A th \in Thread : th # L => frames[th] = ci[th]
  <2>1. PICK c : c = ci OBVIOUS
  <2>2. c \in CallInfos /\ Len(c[L]) > 0 BY <1>3, <1>6, <2>1 DEF Typed
  <2>3. /\ frames \in CallInfos /\ Len(frames[L]) = Len(c[L]) - 1
        /\ \A th \in Thread : th # L => frames[th] = c[th]
    BY <1>4, <1>6, <2>1, <2>2, PopFrameTyped
  <2> QED BY <1>3, <1>6, <2>1, <2>3
<1>8. Resumes(r, frames) BY <1>3, <1>4 DEF Finish, Resumes
<1>9. r.kind = "handler" => k > 1
  <2>1. k \in DOMAIN cstack /\ k \in Nat \ {0} /\ r = cstack[k] BY <1>1, <1>2, <1>3, TopTyped DEF Top
  <2> QED BY <2>1 DEF Shape
<1>10. /\ ci' \in CallInfos /\ mode' \in {"run", "errormsg", "throw"}
       /\ Frames' /\ Stopped'
       /\ \A co \in Co : co # r.th /\ Of(co) = {} => ci'[co] = ci[co]
       /\ r.kind = "resume" => ci'[r.th] = frames[r.th]
  BY <1>5, <1>6, <1>7, <1>8, <1>9, EndFrames
<1>11. /\ nCcalls' = [nCcalls EXCEPT ![r.th] = nCcalls[r.th] - 1]
       /\ nCcalls[r.th] \in Nat \ {0} /\ Calls(r.th, k - 1) = nCcalls[r.th] - 1
  BY <1>1, <1>2, <1>3, <1>6, TopCalls DEF Finish
<1>12. /\ errfunc' \in [Thread -> Handler]
       /\ \A co \in Co : co # r.th => errfunc'[co] = errfunc[co]
       /\ r.kind = "pcall" => errfunc'[r.th] = r.ef
       /\ r.kind \notin {"pcall", "java"} => errfunc' = errfunc
  <2>1. r.ef \in Handler BY <1>6 DEF Activations
  <2>2. CASE r.kind \in {"pcall", "java"}
    <3>1. errfunc' = [errfunc EXCEPT ![r.th] = r.ef]
      BY <1>3, <2>2 DEF Finish, SavedErrfunc
    <3> QED BY <1>6, <2>1, <2>2, <3>1 DEF Typed, Thread
  <2>3. CASE r.kind \notin {"pcall", "java"}
    <3>1. errfunc' = errfunc BY <1>3, <2>3 DEF Finish
    <3> QED BY <2>3, <3>1 DEF Typed
  <2> QED BY <2>2, <2>3
<1>13. Typed'
  <2>1. cstack' \in Seq(Activations) BY <1>2, <1>5, CutStack
  <2>2. nCcalls' \in [Thread -> Nat] BY <1>6, <1>11 DEF Typed
  <2>3. fresh' = fresh BY DEF Finish
  <2> QED BY <1>10, <1>12, <2>1, <2>2, <2>3 DEF Typed
<1>14. Shape' /\ JumpBuffers' BY <1>5, CutShape
<1>15. Counts' /\ Depths'
  <2>1. \A th \in Thread : th # r.th => nCcalls'[th] = nCcalls[th] BY <1>11 DEF Typed
  <2>2. nCcalls'[r.th] = Calls(r.th, k - 1) BY <1>6, <1>11 DEF Typed
  <2> QED BY <1>5, <2>1, <2>2, CutCounts, CutDepths
<1>16. Limits'
  <2>1. \A th \in Thread : nCcalls[th] \in Nat /\ nCcalls[th] < MAXCCALLS + Extra
    BY <1>1, Running
  <2>2. MAXCCALLS + Extra \in Nat BY LimitAssumption
  <2>3. \A th \in Thread : nCcalls'[th] < MAXCCALLS + Extra
    BY <1>6, <1>11, <2>1, <2>2 DEF Typed
  <2> QED BY <1>5, <2>3, CutLimits
<1>17. r.th \in Co => r.kind # "java"
  <2>1. k \in DOMAIN cstack /\ r = cstack[k] BY <1>5 DEF Ends
  <2> QED BY <2>1, ThreadAssumption DEF Shape
<1>18. Handlers' BY <1>2, <1>5, <1>12, <1>17, CutHandlers
<1>19. Statuses'
  <2>1. ASSUME r.kind = "resume" PROVE status'[r.th] = "ok" /\ ci'[r.th] = <<>>
    <3>1. k \in DOMAIN cstack /\ r = cstack[k] BY <1>5 DEF Ends
    <3>2. r.th \in Co /\ r.floor = 0 BY <2>1, <3>1 DEF Shape
    <3>3. status[r.th] = "ok" BY <1>1, <1>6, <3>2, Running DEF Statuses
    <3>4. frames[r.th] = <<>>
      <4>1. frames[r.th] \in Seq({"Lua", "C"}) BY <1>6, <1>7 DEF CallInfos
      <4> QED BY <1>6, <1>7, <3>2, <4>1, EmptySeq
    <3> QED BY <1>10, <2>1, <3>3, <3>4
  <2> QED BY <1>5, <1>10, <2>1, CutStatuses
<1> QED BY <1>10, <1>13, <1>14, <1>15, <1>16, <1>18, <1>19

LEMMA ReturnSafe == IInv /\ Return => IInv'
BY ReturnToFrameSafe, FinishSafe DEF Return

LEMMA ThrowSafe == IInv /\ Throw => IInv'
<1> SUFFICES ASSUME IInv, Throw PROVE IInv' OBVIOUS
<1> USE DEF IInv
<1>1. mode = "throw" /\ cstack # <<>> BY DEF Throw, Stopped
<1>2. PICK k : k = ErrorJmp(L) OBVIOUS
<1>3. PICK r : r = cstack[k] OBVIOUS
<1>4. /\ k \in DOMAIN cstack /\ Protects(r) /\ r.th = L
      /\ \A i \in k .. Len(cstack) : cstack[i].th = L
  <2>1. /\ k \in DOMAIN cstack /\ Protects(r)
        /\ \A i \in k .. Len(cstack) : cstack[i].th = L
    BY <1>1, <1>2, <1>3, ErrorJmpFound
  <2>2. k \in k .. Len(cstack) BY <2>1, LenProperties DEF Typed
  <2> QED BY <1>3, <2>1, <2>2
<1>5. PICK frames : frames = [ci EXCEPT ![r.th] = SubSeq(@, 1, r.floor)] OBVIOUS
<1>6. /\ cstack' = SubSeq(cstack, 1, k - 1) /\ UNCHANGED <<fresh, baseCcalls>>
      /\ \/ /\ r.kind # "resume"
            /\ nCcalls' = SavedCalls(r)
            /\ errfunc' = SavedErrfunc(r)
            /\ \/ r.kind = "pcall" /\ ci' = PopFrame(frames, r.th) /\ mode' = "run"
               \/ r.kind = "java" /\ JavaReturns(r, frames)
            /\ UNCHANGED status
         \/ /\ r.kind = "resume"
            /\ status' = [status EXCEPT ![r.th] = "error"]
            /\ nCcalls' = [nCcalls EXCEPT ![r.th] = @ - 1]
            /\ ResumeFails(r, ci)
            /\ UNCHANGED errfunc
  BY <1>2, <1>3, <1>5 DEF Throw
<1>7. Ends(k, r) BY <1>3, <1>4, <1>6 DEF Ends
<1>8. PICK n : n = Len(cstack) OBVIOUS
<1>9. /\ n \in Nat /\ k \in 1 .. n /\ DOMAIN cstack = 1 .. n
      /\ r \in Activations /\ r.th \in Thread /\ cstack' \in Seq(Activations)
  BY <1>7, <1>8, CutStack
<1>10. r.floor \in Nat /\ r.n \in Nat /\ r.ef \in Handler BY <1>9 DEF Activations
<1>11. \A th \in Thread : nCcalls[th] \in Nat
         /\ (th # r.th => nCcalls[th] < MAXCCALLS + Extra)
         /\ nCcalls[th] <= MAXCCALLS + Extra
  <2>1. MAXCCALLS + Extra \in Nat BY LimitAssumption
  <2> QED BY <1>4, <2>1 DEF Limits, Typed
<1>12. Shape' /\ JumpBuffers' /\ Depths' BY <1>6, <1>7, CutShape, CutDepths
<1>13. CASE r.kind # "resume"
  <2>1. r.kind \in {"pcall", "java"} BY <1>4, <1>13 DEF Protects
  \* luaD_pcall cuts the CallInfos back to its own.
  <2>2. r.floor <= Len(ci[r.th])
    <3>1. Top.floor \in Nat /\ Len(ci[L]) >= Top.floor /\ Len(ci[L]) \in Nat
      <4>1. Top \in Activations /\ L \in Thread BY <1>1, TopTyped
      <4>2. Len(ci[L]) \in Nat BY <4>1, LenProperties DEF Typed, CallInfos
      <4> QED BY <1>1, <4>1, <4>2 DEF Activations, Frames
    <3>2. CASE k = n BY <1>3, <1>4, <1>8, <1>10, <3>1, <3>2 DEF Top
    <3>3. CASE k # n
      <4>1. k \in 1 .. n - 1 /\ n \in DOMAIN cstack /\ n \in k .. n BY <1>9, <3>3
      <4>2. cstack[n].th = cstack[k].th /\ cstack[n] = Top BY <1>3, <1>4, <1>8, <4>1 DEF Top
      <4>3. Top.floor >= Left(k) BY <4>1, <4>2 DEF Frames
      <4>4. Left(k) >= r.floor /\ Left(k) \in Nat BY <1>3, <1>10 DEF Left, LeftFor
      <4> QED BY <1>4, <1>10, <3>1, <4>3, <4>4
    <3> QED BY <3>2, <3>3
  <2>3. /\ frames \in CallInfos /\ Len(frames[r.th]) = r.floor
        /\ \A th \in Thread : th # r.th => frames[th] = ci[th]
    <3>1. ci[r.th] \in Seq({"Lua", "C"}) /\ Len(ci[r.th]) \in Nat
      BY <1>9, LenProperties DEF Typed, CallInfos
    <3>2. r.floor \in 0 .. Len(ci[r.th]) BY <1>10, <2>2, <3>1
    <3>3. /\ SubSeq(ci[r.th], 1, r.floor) \in Seq({"Lua", "C"})
          /\ Len(SubSeq(ci[r.th], 1, r.floor)) = r.floor
      BY <3>1, <3>2, CutSeq
    <3> QED BY <1>5, <1>9, <3>3 DEF Typed, CallInfos
  <2>4. Resumes(r, frames) BY <1>6, <1>13 DEF Resumes
  <2>5. /\ ci' \in CallInfos /\ mode' \in {"run", "errormsg", "throw"}
        /\ Frames' /\ Stopped'
        /\ \A co \in Co : co # r.th /\ Of(co) = {} => ci'[co] = ci[co]
    BY <1>7, <1>13, <2>1, <2>3, <2>4, EndFrames
  <2>6. /\ nCcalls' = [nCcalls EXCEPT ![r.th] = r.n]
        /\ errfunc' = [errfunc EXCEPT ![r.th] = r.ef] /\ status' = status
    BY <1>6, <1>13 DEF SavedCalls, SavedErrfunc
  <2>7. r.n = Calls(r.th, k - 1) /\ r.n < MAXCCALLS + Extra
    <3>1. CountedAt(k, r) BY <1>3, <1>4 DEF Counts
    <3> QED BY <1>3, <1>4, <1>13, <3>1 DEF CountedAt, Limits
  <2>8. Typed' BY <1>6, <1>9, <1>10, <2>5, <2>6 DEF Typed
  <2>9. Counts'
    <3>1. \A th \in Thread : th # r.th => nCcalls'[th] = nCcalls[th] BY <2>6 DEF Typed
    <3>2. nCcalls'[r.th] = Calls(r.th, k - 1) BY <1>9, <2>6, <2>7 DEF Typed
    <3> QED BY <1>6, <1>7, <3>1, <3>2, CutCounts
  <2>10. Limits'
    <3>1. \A th \in Thread : nCcalls'[th] < MAXCCALLS + Extra
      BY <1>9, <1>11, <2>6, <2>7 DEF Typed
    <3> QED BY <1>7, <3>1, CutLimits
  <2>11. Handlers'
    <3>1. \A co \in Co : co # r.th => errfunc'[co] = errfunc[co] BY <2>6 DEF Typed, Thread
    <3>2. errfunc'[r.th] = r.ef BY <1>9, <2>6 DEF Typed
    <3>3. r.th \in Co => r.kind = "pcall"
      BY <1>3, <1>4, <2>1, ThreadAssumption DEF Shape
    <3> QED BY <1>7, <2>6, <3>1, <3>2, <3>3, CutHandlers
  <2>12. Statuses' BY <1>7, <1>13, <2>5, <2>6, CutStatuses
  <2> QED BY <1>12, <2>5, <2>8, <2>9, <2>10, <2>11, <2>12
<1>14. CASE r.kind = "resume"
  <2>1. r.th \in Co BY <1>3, <1>4, <1>14 DEF Shape
  <2>2. PICK c : c = ci OBVIOUS
  <2>3. /\ c \in CallInfos /\ \A th \in Thread : th # r.th => c[th] = ci[th]
    BY <2>2 DEF Typed
  <2>4. Resumes(r, c) BY <1>6, <1>14, <2>2 DEF Resumes, ResumeFails
  <2>5. /\ ci' \in CallInfos /\ mode' \in {"run", "errormsg", "throw"}
        /\ Frames' /\ Stopped'
        /\ \A co \in Co : co # r.th /\ Of(co) = {} => ci'[co] = ci[co]
    BY <1>7, <1>14, <2>3, <2>4, EndFrames
  <2>6. /\ nCcalls' = [nCcalls EXCEPT ![r.th] = nCcalls[r.th] - 1]
        /\ nCcalls[r.th] \in Nat \ {0} /\ errfunc' = errfunc
        /\ status' = [status EXCEPT ![r.th] = "error"]
    BY <1>1, <1>4, <1>6, <1>8, <1>14, TopCalls
  <2>7. Typed' BY <1>6, <1>9, <2>5, <2>6 DEF Typed
  <2>8. Counts'
    <3>1. \A th \in Thread : th # r.th => nCcalls'[th] = nCcalls[th] BY <2>6 DEF Typed
    <3> QED BY <1>6, <1>7, <1>14, <3>1, CutCounts
  <2>9. Limits'
    <3>1. MAXCCALLS + Extra \in Nat BY LimitAssumption
    <3>2. \A th \in Thread : nCcalls'[th] < MAXCCALLS + Extra
      BY <1>9, <1>11, <2>6, <3>1 DEF Typed
    <3> QED BY <1>7, <3>2, CutLimits
  <2>10. /\ status'[r.th] = "error"
         /\ \A co \in Co : co # r.th => status'[co] = status[co]
    BY <1>9, <2>6 DEF Typed, Thread
  <2>11. Handlers' BY <1>7, <1>14, <2>6, <2>10, CutHandlers
  <2>12. Statuses' BY <1>7, <1>14, <2>5, <2>10, CutStatuses
  <2> QED BY <1>12, <2>5, <2>7, <2>8, <2>9, <2>11, <2>12
<1> QED BY <1>13, <1>14

\* The test of lua_yield lets only a coroutine through that lua_resume runs:
\* any other activation would count one more.
LEMMA MayYieldIsResumed ==
  ASSUME IInv, Runs, MayYield
  PROVE  Top.kind = "resume" /\ L \in Co
<1>1. cstack # <<>> /\ Typed /\ Counts BY DEF Runs, IInv
<1>2. PICK n : n = Len(cstack) OBVIOUS
<1>3. /\ nCcalls[L] = Base(L) + Cardinality(Below(L, n)) /\ Base(L) \in Nat
      /\ Cardinality(Below(L, n)) = Cardinality(Below(L, n - 1)) + 1
      /\ Cardinality(Below(L, n - 1)) \in Nat
  BY <1>1, <1>2, TopCalls
<1>4. L \in Thread /\ n \in DOMAIN cstack /\ n - 1 \in Nat /\ baseCcalls[L] \in Nat
  BY <1>1, <1>2, TopTyped, LimitAssumption DEF Typed
<1>5. nCcalls[L] <= baseCcalls[L] BY DEF MayYield
<1>6. L # Main
  <2> SUFFICES ASSUME L = Main PROVE FALSE OBVIOUS
  <2>1. baseCcalls[L] = 0 BY <1>1 DEF Counts
  <2> QED BY <1>3, <1>5, <2>1
<1>7. Cardinality(Below(L, n - 1)) = 0
  <2>1. Base(L) = baseCcalls[L] - 1 BY <1>6 DEF Base
  <2> QED BY <1>3, <1>4, <1>5, <2>1
<1>8. Top.kind = "resume"
  <2> SUFFICES ASSUME Top.kind # "resume" PROVE FALSE OBVIOUS
  <2>1. cstack[n] = Top /\ cstack[n].th = L BY <1>2 DEF Top, L
  <2>2. CountedAt(n, cstack[n]) BY <1>1, <1>4 DEF Counts
  <2>3. PICK j : j \in BelowIn(cstack, L, n - 1) BY <1>6, <2>1, <2>2 DEF CountedAt, Below
  <2>4. Cardinality(BelowIn(cstack, L, n - 1)) >= 1 BY <1>4, <2>3, BelowSome
  <2> QED BY <1>7, <2>4 DEF Below
<1> QED BY <1>4, <1>6, <1>8 DEF Thread

LEMMA YieldSafe == IInv /\ Yield => IInv'
<1> SUFFICES ASSUME IInv, Yield PROVE IInv' OBVIOUS
<1> USE DEF IInv
<1>1. Runs /\ cstack # <<>> /\ mode = "run" BY DEF Yield, Runs
<1>2. CASE ~MayYield BY <1>1, <1>2, ErrorSafe DEF Yield
<1>3. CASE MayYield
  <2>1. Top.kind = "resume" /\ L \in Co BY <1>1, <1>3, MayYieldIsResumed
  <2>2. PICK k : k = Len(cstack) OBVIOUS
  <2>3. PICK r : r = Top OBVIOUS
  <2>4. PICK frames : frames = PushFrame(L, "C") OBVIOUS
  <2>5. L = r.th /\ L \in Thread /\ r \in Activations /\ r.kind = "resume"
    BY <1>1, <2>1, <2>3, Running DEF L
  <2>6. Ends(k, r)
    <3>1. k \in DOMAIN cstack /\ k \in Nat BY <1>1, <2>2, TopTyped
    <3>2. cstack' = SubSeq(cstack, 1, k - 1) BY <1>3, <2>2 DEF Yield, Front
    <3> QED BY <2>2, <2>3, <3>1, <3>2 DEF Ends, Top
  <2>7. /\ frames \in CallInfos /\ Len(frames[L]) = Len(ci[L]) + 1
        /\ \A th \in Thread : th # L => frames[th] = ci[th]
    BY <2>4, <2>5, PushFrameTyped
  <2>8. Resumes(r, frames) BY <1>1, <1>3, <2>1, <2>3, <2>4 DEF Yield, Resumes
  <2>9. /\ ci' \in CallInfos /\ mode' \in {"run", "errormsg", "throw"}
        /\ Frames' /\ Stopped'
        /\ \A co \in Co : co # r.th /\ Of(co) = {} => ci'[co] = ci[co]
        /\ ci'[r.th] = frames[r.th]
    BY <2>5, <2>6, <2>7, <2>8, EndFrames
  <2>10. /\ status' = [status EXCEPT ![r.th] = "yield"] /\ UNCHANGED <<fresh, baseCcalls, errfunc>>
         /\ nCcalls' = [nCcalls EXCEPT ![r.th] = nCcalls[r.th] - 1]
         /\ nCcalls[r.th] \in Nat \ {0}
    BY <1>1, <1>3, <2>2, <2>5, TopCalls DEF Yield
  <2>11. Typed'
    <3>1. cstack' \in Seq(Activations) BY <2>2, <2>6, CutStack
    <3> QED BY <2>5, <2>9, <2>10, <3>1 DEF Typed
  <2>12. Shape' /\ JumpBuffers' /\ Depths' BY <2>6, <2>10, CutShape, CutDepths
  <2>13. Counts'
    <3>1. \A th \in Thread : th # r.th => nCcalls'[th] = nCcalls[th] BY <2>10 DEF Typed
    <3> QED BY <2>5, <2>6, <2>10, <3>1, CutCounts
  <2>14. Limits'
    <3>1. \A th \in Thread : nCcalls[th] \in Nat /\ nCcalls[th] < MAXCCALLS + Extra
      BY <1>1, Running
    <3>2. MAXCCALLS + Extra \in Nat BY LimitAssumption
    <3>3. \A th \in Thread : nCcalls'[th] < MAXCCALLS + Extra
      BY <2>5, <2>10, <3>1, <3>2 DEF Typed
    <3> QED BY <2>6, <3>3, CutLimits
  <2>15. /\ status'[r.th] = "yield"
         /\ \A co \in Co : co # r.th => status'[co] = status[co]
    BY <2>5, <2>10 DEF Typed, Thread
  <2>16. status[r.th] = "ok" BY <1>1, <2>1, <2>5, Running DEF Statuses
  <2>17. Handlers'
    <3>1. \A co \in Co : status'[co] # "error" => status[co] # "error" BY <2>15, <2>16
    <3> QED BY <2>2, <2>5, <2>6, <2>10, <3>1, CutHandlers
  <2>18. Statuses'
    <3>1. Top.floor = 0
      <4>1. k \in DOMAIN cstack /\ cstack[k] = Top BY <2>3, <2>6 DEF Ends
      <4> QED BY <2>1, <4>1 DEF Shape
    <3>2. Len(ci[L]) > 0 /\ Len(ci[L]) \in Nat BY <1>1, <2>5, <3>1, Running
    <3>3. Len(ci'[r.th]) > 1 BY <2>5, <2>7, <2>9, <3>2
    <3> QED BY <2>5, <2>6, <2>9, <2>15, <3>3, CutStatuses
  <2> QED BY <2>9, <2>11, <2>12, <2>13, <2>14, <2>17, <2>18
<1> QED BY <1>2, <1>3
-----------------------------------------------------------------------------
(* The invariant, and what it says. *)

LEMMA InitInv == Init => IInv
<1> SUFFICES ASSUME Init PROVE IInv OBVIOUS
<1>1. Len(cstack) = 0 /\ DOMAIN cstack = {} /\ cstack = <<>> /\ \A th : Of(th) = {}
  BY DEF Init, Of
<1>2. Main \in Thread /\ Co \subseteq Thread BY DEF Thread
<1>3. Typed
  <2>1. <<>> \in Seq(Activations) /\ <<>> \in Seq({"Lua", "C"}) BY EmptySeq
  <2>2. 0 \in 0 .. MAXCCALLS BY LimitAssumption
  <2> QED BY <2>1, <2>2 DEF Init, Typed, CallInfos, Handler
<1>4. Shape /\ JumpBuffers /\ Frames /\ Depths /\ Stopped
  BY <1>1 DEF Init, Shape, JumpBuffers, Frames, Depths, Stopped
<1>5. Counts
  <2>1. Below(Main, 0) = {} BY DEF Below, BelowIn
  <2>2. Calls(Main, 0) = 0 BY <2>1, FS_EmptySet DEF Calls, Base
  <2> QED BY <1>1, <1>2, <2>2 DEF Init, Counts
<1>6. Limits
  <2>1. MAXCCALLS + Extra > 0 BY LimitAssumption
  <2> QED BY <1>1, <2>1 DEF Init, Limits
<1>7. Handlers /\ Statuses BY <1>1, <1>2, ThreadAssumption DEF Init, Handlers, Statuses
<1> QED BY <1>3, <1>4, <1>5, <1>6, <1>7 DEF IInv

LEMMA NextInv == IInv /\ [Next]_vars => IInv'
<1> SUFFICES ASSUME IInv, [Next]_vars PROVE IInv' OBVIOUS
<1>1. CASE CallLua BY <1>1, CallLuaSafe
<1>2. CASE CallMeta BY <1>2, CallMetaSafe
<1>3. CASE JavaPCall BY <1>3, JavaPCallSafe
<1>4. CASE Error
  <2>1. cstack # <<>> /\ mode = "run" BY <1>4 DEF Error, Runs
  <2> QED BY <1>4, <2>1, ErrorSafe DEF Error
<1>5. CASE ErrorMsg BY <1>5, ErrorMsgSafe
<1>6. CASE Return BY <1>6, ReturnSafe
<1>7. CASE Throw BY <1>7, ThrowSafe
<1>8. CASE Yield BY <1>8, YieldSafe
<1>9. CASE \E handler \in Handler : PCall(handler) BY <1>9, PCallSafe
<1>10. CASE \E co \in Co : Create(co) BY <1>10, CreateSafe
<1>11. CASE \E co \in Co, wrap \in BOOLEAN : Resume(co, wrap) BY <1>11, ResumeSafe
<1>12. CASE UNCHANGED vars
  <2>1. UNCHANGED <<status, fresh, ci, nCcalls, baseCcalls, errfunc, cstack, mode>>
    BY <1>12 DEF vars
  <2>2. Typed' /\ Shape' /\ JumpBuffers' /\ Stopped'
    BY <2>1 DEF IInv, Typed, Shape, JumpBuffers, Jumps, Protects, Stopped
  <2>3. \A j : Left(j)' = Left(j) BY <2>1 DEF Left, LeftFor
  <2>4. Frames' BY <2>1, <2>3 DEF IInv, Frames, Top, L
  <2>5. \A th, k : Below(th, k)' = Below(th, k) /\ Calls(th, k)' = Calls(th, k)
    BY <2>1 DEF Below, Calls, Base
  <2>6. \A th : Of(th)' = Of(th) BY <2>1 DEF Of
  <2>7. Counts'
    <3>1. ASSUME NEW k \in DOMAIN cstack', NEW s, s = cstack'[k] PROVE CountedAt(k, s)'
      <4>1. CountedAt(k, s) BY <2>1, <3>1 DEF IInv, Counts
      <4> QED BY <2>1, <2>5, <4>1 DEF CountedAt
    <3>2. PICK n : n = Len(cstack) OBVIOUS
    <3>3. \A th \in Thread : th = Main \/ Of(th)' # {} => nCcalls'[th] = Calls(th, n)'
      BY <2>1, <2>5, <2>6, <3>2 DEF IInv, Counts
    <3> QED BY <2>1, <3>1, <3>2, <3>3, CountsPrimed DEF IInv, Counts
  <2>8. Depths' /\ Limits' /\ Handlers' /\ Statuses'
    BY <2>1 DEF IInv, Depths, Calls, Base, Below, Limits, L, Top, Handlers, Statuses, Of
  <2> QED BY <2>2, <2>4, <2>7, <2>8 DEF IInv
<1> QED BY <1>1, <1>2, <1>3, <1>4, <1>5, <1>6, <1>7, <1>8, <1>9, <1>10, <1>11, <1>12 DEF Next

\* In every state of a VM, in the middle of an error too, the C stack, the
\* CallInfos and the counters of the threads belong together.
THEOREM Invariance == Spec => []IInv
<1>1. Init => IInv BY InitInv
<1>2. IInv /\ [Next]_vars => IInv' BY NextInv
<1> QED BY <1>1, <1>2, PTL DEF Spec

\* The fields of a thread and of an activation have their types, and no counter
\* of nested C calls is beyond the second limit of luaD_call.
THEOREM TypeCorrect == Spec => []TypeOK
<1>1. IInv => TypeOK
  <2> SUFFICES ASSUME IInv PROVE TypeOK OBVIOUS
  <2>1. Typed /\ Limits /\ MAXCCALLS + Extra \in Nat BY LimitAssumption DEF IInv
  <2>2. nCcalls \in [Thread -> 0 .. MAXCCALLS + Extra]
    <3>1. \A th \in Thread : nCcalls[th] \in 0 .. MAXCCALLS + Extra
      BY <2>1 DEF Typed, Limits
    <3> QED BY <2>1, <3>1 DEF Typed
  <2> DEFINE A == [kind : {"meta", "pcall", "java", "handler", "resume"}, th : Thread,
                   from : Thread \cup {None}, floor : Nat, wrap : BOOLEAN,
                   n : 0 .. MAXCCALLS + Extra, ef : Handler]
  <2>3. /\ cstack \in [1 .. Len(cstack) -> Activations] /\ Len(cstack) \in Nat
        /\ DOMAIN cstack = 1 .. Len(cstack)
    BY <2>1, LenProperties DEF Typed
  <2>4. \A k \in 1 .. Len(cstack) : cstack[k] \in A
    <3> SUFFICES ASSUME NEW k \in 1 .. Len(cstack) PROVE cstack[k] \in A OBVIOUS
    <3>1. cstack[k] \in Activations /\ cstack[k].n < MAXCCALLS + Extra
      BY <2>1, <2>3 DEF Limits
    <3>2. cstack[k].n \in 0 .. MAXCCALLS + Extra BY <2>1, <3>1 DEF Activations
    <3> QED BY <3>1, <3>2 DEF Activations
  <2> HIDE DEF A
  <2>5. cstack \in [1 .. Len(cstack) -> A] BY <2>3, <2>4
  <2>6. cstack \in Seq(A) BY <2>3, <2>5, SeqDef
  <2> QED BY <2>1, <2>2, <2>6 DEF A, Typed, CallInfos, TypeOK
<1> QED BY <1>1, Invariance, PTL

\* Whatever an error, a yield or a limit cut off: when a thread runs, nCcalls
\* is the number of its nested C calls, and a coroutine that can be resumed has
\* no error handler left (the assertions of lua_resume).
THEOREM ErrorsUndoneCorrect == Spec => []ErrorsUndone
<1>1. IInv => ErrorsUndone
  <2> SUFFICES ASSUME IInv PROVE ErrorsUndone OBVIOUS
  <2>1. Typed /\ Counts /\ Main \in Thread /\ Co \subseteq Thread BY DEF IInv, Thread
  <2>2. PICK n : n = Len(cstack) OBVIOUS
  <2>3. n \in Nat BY <2>1, <2>2, LenProperties DEF Typed
  <2>4. \A th : Of(th) = Below(th, n) /\ Cardinality(Of(th)) \in Nat
    BY <2>1, <2>2, <2>3, OfIsBelow, BelowNat DEF Below
  <2>5. nCcalls[Main] = Cardinality(Of(Main))
    BY <2>1, <2>2, <2>4 DEF Counts, Calls, Base
  <2>6. ASSUME NEW co \in Co, CoStatus(co) = "active"
        PROVE  nCcalls[co] + 1 = baseCcalls[co] + Cardinality(Of(co))
    <3>1. status[co] \in {"none", "ok", "yield", "error"} BY <2>1 DEF Typed
    <3>2. status[co] = "ok" /\ ci[co] # <<>> BY <2>6, <3>1 DEF CoStatus
    <3>3. Of(co) # {} BY <3>2 DEF IInv, Statuses
    <3>4. nCcalls[co] = baseCcalls[co] - 1 + Cardinality(Of(co))
      BY <2>1, <2>2, <2>4, <3>3, ThreadAssumption DEF Counts, Calls, Base
    <3>5. baseCcalls[co] \in Nat BY <2>1, LimitAssumption DEF Typed
    <3> QED BY <2>4, <3>4, <3>5
  <2>7. ASSUME NEW co \in Co, CoStatus(co) = "suspended" PROVE errfunc[co] = None
    <3>1. Of(co) = {} /\ status[co] # "error" BY <2>7, SuspendedIsOff
    <3> QED BY <3>1 DEF IInv, Handlers
  <2> QED BY <2>5, <2>6, <2>7 DEF ErrorsUndone
<1> QED BY <1>1, Invariance, PTL

\* A longjmp of luaD_throw cuts activations of the thread that failed only.
THEOREM ThrowStaysInThreadCorrect == Spec => []ThrowStaysInThread
<1>1. IInv => ThrowStaysInThread
  <2> SUFFICES ASSUME IInv, mode = "throw" PROVE ThrowStaysInThread
      BY DEF ThrowStaysInThread
  <2>1. Typed /\ JumpBuffers /\ cstack # <<>> BY DEF IInv, Stopped
  <2>2. PICK k : k = ErrorJmp(L) OBVIOUS
  <2>3. /\ k \in DOMAIN cstack /\ Protects(cstack[k])
        /\ \A i \in k .. Len(cstack) : cstack[i].th = L
    BY <2>1, <2>2, ErrorJmpFound
  <2>4. k \in k .. Len(cstack) BY <2>1, <2>3, LenProperties DEF Typed
  <2>5. k \in Of(L) BY <2>3, <2>4 DEF Of
  <2> QED BY <2>2, <2>3, <2>5 DEF ThrowStaysInThread
<1> QED BY <1>1, Invariance, PTL

\* The limit on nested C calls of one thread bounds the whole C stack, for
\* coroutines that resume each other however deep, as long as no coroutine
\* calls a Java function that calls Lua: lua_resume counts on from its caller.
THEOREM DepthBoundedByLevelCorrect == Spec => []DepthBoundedByLevel
<1>1. IInv => DepthBoundedByLevel
  <2> SUFFICES ASSUME IInv, \A k \in DOMAIN cstack : cstack[k].kind = "java" => cstack[k].from \notin Co
               PROVE  DepthBounded
      BY DEF DepthBoundedByLevel
  <2>1. Typed /\ Counts /\ Depths /\ Limits /\ MAXCCALLS + Extra \in Nat
    BY LimitAssumption DEF IInv
  <2>2. PICK n : n = Len(cstack) OBVIOUS
  <2>3. n \in Nat /\ DOMAIN cstack = 1 .. n BY <2>1, <2>2, LenProperties DEF Typed
  <2>4. CASE n = 0 BY <2>1, <2>2, <2>4 DEF DepthBounded
  <2>5. CASE n # 0
    <3>1. n \in DOMAIN cstack /\ cstack # <<>> BY <2>1, <2>2, <2>3, <2>5, EmptySeq DEF Typed
    <3>2. cstack[n].th = L /\ L \in Thread BY <2>1, <2>2, <3>1, TopTyped DEF L, Top
    <3>3. Calls(L, n) = n BY <2>1, <2>3, <3>1, <3>2 DEF Depths
    <3>4. nCcalls[L] = n BY <2>1, <2>2, <3>1, <3>3, CountedTop
    <3>5. nCcalls[L] <= MAXCCALLS + Extra BY <2>1, <2>3, <3>2, <3>4 DEF Limits
    <3> QED BY <2>2, <3>4, <3>5 DEF DepthBounded
  <2> QED BY <2>4, <2>5
<1> QED BY <1>1, Invariance, PTL

\* lua_yield gives control to the code that resumed the coroutine: under its
\* test no C code of a metamethod, a pcall or a Java function is in between.
THEOREM YieldsToResumerCorrect == Spec => YieldsToResumer
<1> DEFINE Yielded == \A co \in Co : (status[co] # "yield" /\ status'[co] = "yield") =>
                        co = L /\ Top.kind = "resume"
<1>1. IInv /\ [Next]_vars => [Yielded]_vars
  <2> SUFFICES ASSUME IInv, Next, NEW co \in Co, status[co] # "yield", status'[co] = "yield"
               PROVE  co = L /\ Top.kind = "resume"
      OBVIOUS
  <2>1. Typed /\ co \in Thread BY DEF IInv, Thread
  <2>2. status' # status BY <2>1
  <2>3. Yield
    <3>1. ~CallLua BY <2>2 DEF CallLua
    <3>2. ~CallMeta BY <2>2 DEF CallMeta
    <3>3. ~JavaPCall BY <2>2 DEF JavaPCall
    <3>4. ~Error /\ ~ErrorMsg BY <2>2 DEF Error, ErrorMsg
    <3>5. ~Return BY <2>2 DEF Return
    <3>6. ~Throw
      <4> SUFFICES ASSUME Throw PROVE FALSE OBVIOUS
      <4>1. \/ status' = status
            \/ \E th : status' = [status EXCEPT ![th] = "error"]
        BY DEF Throw
      <4> QED BY <2>1, <4>1 DEF Typed
    <3>7. \A handler \in Handler : ~PCall(handler) BY <2>2 DEF PCall
    <3>8. \A o \in Co : ~Create(o) BY <2>1 DEF Create, Typed
    <3>9. \A o \in Co, wrap \in BOOLEAN : ~Resume(o, wrap)
      <4> SUFFICES ASSUME NEW o \in Co, NEW wrap \in BOOLEAN, Resume(o, wrap) PROVE FALSE
          OBVIOUS
      <4>1. status' = status \/ status' = [status EXCEPT ![o] = "ok"] BY DEF Resume
      <4> QED BY <2>1, <4>1 DEF Typed
    <3> QED BY <3>1, <3>2, <3>3, <3>4, <3>5, <3>6, <3>7, <3>8, <3>9 DEF Next
  <2>4. Runs /\ MayYield /\ status' = [status EXCEPT ![L] = "yield"]
    BY <2>2, <2>3 DEF Yield
  <2>5. co = L BY <2>1, <2>4 DEF Typed
  <2> QED BY <2>4, <2>5, MayYieldIsResumed
<1>2. Spec => [][Yielded]_vars BY <1>1, Invariance, PTL DEF Spec
<1> QED BY <1>2 DEF YieldsToResumer
-----------------------------------------------------------------------------
(* The chain of threads that have had control, and how pushes and cuts of   *)
(* the C stack change it.                                                   *)

IsChain(s, f) ==
  /\ f[0] = <<>>
  /\ \A k \in 1 .. Len(s) :
       f[k] = IF Switches(s[k]) THEN Append(f[k - 1], s[k].th) ELSE f[k - 1]

\* What holds of 0, and of a number if of the one before, holds up to m.
LEMMA UpTo ==
  ASSUME NEW m \in Nat, NEW T, T \subseteq 0 .. m, 0 \in T,
         \A k \in 1 .. m : k - 1 \in T => k \in T
  PROVE  T = 0 .. m
<1> DEFINE Rest == (0 .. m) \ T
           Less == OpToRel(<, Nat)
<1>1. IsWellFoundedOn(Less, Nat) BY NatLessThanWellFounded
<1>2. Rest \subseteq Nat OBVIOUS
<1> HIDE DEF Less
<1>3. SUFFICES ASSUME Rest # {} PROVE FALSE OBVIOUS
<1>4. PICK i \in Rest : \A j \in Rest : <<j, i>> \notin Less BY <1>1, <1>2, <1>3, WFMin
<1>5. \A j \in Rest : ~(j < i) BY <1>2, <1>4 DEF Less, OpToRel
<1>6. i \in 1 .. m /\ i - 1 \in 0 .. m /\ i - 1 < i OBVIOUS
<1>7. i - 1 \in T BY <1>5, <1>6
<1> QED BY <1>6, <1>7

\* The recursion that defines ChainTo has a solution.
LEMMA ChainExists ==
  ASSUME NEW s \in Seq(Activations)
  PROVE  \E f : f = [k \in 0 .. Len(s) |->
                      IF k = 0 THEN <<>>
                      ELSE IF Switches(s[k]) THEN Append(f[k - 1], s[k].th) ELSE f[k - 1]]
<1> DEFINE P(f, m) == f = [k \in 0 .. m |->
                      IF k = 0 THEN <<>>
                      ELSE IF Switches(s[k]) THEN Append(f[k - 1], s[k].th) ELSE f[k - 1]]
           T == {m \in 0 .. Len(s) : \E f : P(f, m)}
<1>1. Len(s) \in Nat BY LenProperties
<1>2. 0 \in T
  <2>1. PICK f : f = [k \in 0 .. 0 |-> <<>>] OBVIOUS
  <2>2. P(f, 0) BY <2>1
  <2> QED BY <1>1, <2>2
<1>3. ASSUME NEW m \in 1 .. Len(s), m - 1 \in T PROVE m \in T
  <2>1. PICK f : P(f, m - 1) BY <1>3
  <2>2. PICK g : g = [k \in 0 .. m |-> IF k = m
                        THEN IF Switches(s[m]) THEN Append(f[m - 1], s[m].th) ELSE f[m - 1]
                        ELSE f[k]]
    OBVIOUS
  <2>3. m - 1 \in Nat /\ m \in Nat OBVIOUS
  <2>4. \A k \in 0 .. m - 1 : g[k] = f[k] BY <2>2, <2>3
  <2>5. ASSUME NEW k \in 0 .. m
        PROVE  g[k] = IF k = 0 THEN <<>>
                      ELSE IF Switches(s[k]) THEN Append(g[k - 1], s[k].th) ELSE g[k - 1]
    <3>1. CASE k = m
      <4>1. g[k - 1] = f[m - 1] BY <2>3, <2>4, <3>1
      <4> QED BY <2>2, <2>3, <3>1, <4>1
    <3>2. CASE k # m /\ k # 0
      <4>1. k \in 0 .. m - 1 /\ k - 1 \in 0 .. m - 1 BY <2>3, <3>2
      <4>2. f[k] = IF Switches(s[k]) THEN Append(f[k - 1], s[k].th) ELSE f[k - 1]
        BY <2>1, <3>2, <4>1
      <4> QED BY <2>4, <3>2, <4>1, <4>2
    <3>3. CASE k # m /\ k = 0
      <4>1. k \in 0 .. m - 1 BY <2>3, <3>3
      <4>2. f[k] = <<>> BY <2>1, <3>3, <4>1
      <4> QED BY <2>4, <3>3, <4>1, <4>2
    <3> QED BY <3>1, <3>2, <3>3
  <2>6. P(g, m) BY <2>2, <2>5
  <2> QED BY <2>6, <1>1
<1> HIDE DEF P
<1>4. T = 0 .. Len(s)
  <2>1. T \subseteq 0 .. Len(s) OBVIOUS
  <2> HIDE DEF T
  <2> QED BY <1>1, <1>2, <1>3, <2>1, UpTo
<1>5. Len(s) \in T BY <1>1, <1>4
<1> QED BY <1>5 DEF P

LEMMA ChainSolves ==
  ASSUME NEW s, Len(s) \in Nat,
         NEW f, f = [k \in 0 .. Len(s) |->
                      IF k = 0 THEN <<>>
                      ELSE IF Switches(s[k]) THEN Append(f[k - 1], s[k].th) ELSE f[k - 1]]
  PROVE  IsChain(s, f)
<1>1. 0 \in 0 .. Len(s) /\ \A k \in 1 .. Len(s) : k \in 0 .. Len(s) /\ k # 0 OBVIOUS
<1>2. f[0] = <<>> BY <1>1
<1>3. ASSUME NEW k \in 1 .. Len(s)
      PROVE  f[k] = IF Switches(s[k]) THEN Append(f[k - 1], s[k].th) ELSE f[k - 1]
  BY <1>1
<1> QED BY <1>2, <1>3 DEF IsChain

LEMMA ChainHere == ASSUME Typed PROVE IsChain(cstack, ChainTo)
<1>1. cstack \in Seq(Activations) /\ Len(cstack) \in Nat BY LenProperties DEF Typed
<1>2. PICK f : f = [k \in 0 .. Len(cstack) |->
                      IF k = 0 THEN <<>>
                      ELSE IF Switches(cstack[k]) THEN Append(f[k - 1], cstack[k].th)
                      ELSE f[k - 1]]
  BY <1>1, ChainExists
<1>3. ChainTo = [k \in 0 .. Len(cstack) |->
                   IF k = 0 THEN <<>>
                   ELSE IF Switches(cstack[k]) THEN Append(ChainTo[k - 1], cstack[k].th)
                   ELSE ChainTo[k - 1]]
  BY <1>2 DEF ChainTo
<1> QED BY <1>1, <1>3, ChainSolves

LEMMA ChainNext == ASSUME cstack' \in Seq(Activations) PROVE IsChain(cstack', ChainTo')
<1>1. Len(cstack') \in Nat BY LenProperties
<1>2. PICK f : f = [k \in 0 .. Len(cstack') |->
                      IF k = 0 THEN <<>>
                      ELSE IF Switches(cstack'[k]) THEN Append(f[k - 1], cstack'[k].th)
                      ELSE f[k - 1]]
  BY ChainExists
<1>3. ChainTo' = [k \in 0 .. Len(cstack') |->
                   IF k = 0 THEN <<>>
                   ELSE IF Switches(cstack'[k]) THEN Append(ChainTo'[k - 1], cstack'[k].th)
                   ELSE ChainTo'[k - 1]]
  BY <1>2 DEF ChainTo, Switches
<1> QED BY <1>1, <1>3, ChainSolves

\* Where two stacks are the same, so are their chains.
LEMMA ChainSame ==
  ASSUME NEW s, NEW t, NEW f, NEW g, IsChain(s, f), IsChain(t, g),
         NEW m \in Nat, m <= Len(s), m <= Len(t), Len(s) \in Nat, Len(t) \in Nat,
         \A i \in 1 .. m : t[i] = s[i]
  PROVE  f[m] = g[m]
<1> DEFINE T == {k \in 0 .. m : f[k] = g[k]}
<1>1. T \subseteq 0 .. m /\ 0 \in T BY DEF IsChain
<1>2. ASSUME NEW k \in 1 .. m, k - 1 \in T PROVE k \in T
  <2>1. f[k - 1] = g[k - 1] /\ s[k] = t[k] /\ k \in 1 .. Len(s) /\ k \in 1 .. Len(t) BY <1>2
  <2>2. f[k] = g[k] BY <2>1 DEF IsChain
  <2> QED BY <2>2
<1> HIDE DEF T
<1>3. T = 0 .. m BY <1>1, <1>2, UpTo
<1> QED BY <1>3 DEF T

\* Activations that switch nothing change nothing.
LEMMA ChainQuiet ==
  ASSUME NEW s, NEW f, IsChain(s, f), Len(s) \in Nat, NEW k \in 0 .. Len(s),
         \A i \in k + 1 .. Len(s) : ~Switches(s[i])
  PROVE  f[Len(s)] = f[k]
<1> DEFINE m == Len(s) - k
           T == {i \in 0 .. m : f[k + i] = f[k]}
<1>1. m \in Nat /\ T \subseteq 0 .. m /\ 0 \in T OBVIOUS
<1>2. ASSUME NEW i \in 1 .. m, i - 1 \in T PROVE i \in T
  <2>1. /\ k + i \in 1 .. Len(s) /\ k + i \in k + 1 .. Len(s) /\ f[k + (i - 1)] = f[k]
        /\ k + i - 1 = k + (i - 1)
    BY <1>2
  <2>2. f[k + i] = f[k + i - 1] BY <2>1 DEF IsChain
  <2>3. f[k + i] = f[k] BY <2>1, <2>2
  <2> QED BY <2>3
<1>3. T = 0 .. m
  <2> HIDE DEF T, m
  <2> QED BY <1>1, <1>2, UpTo
<1>4. m \in T
  <2> HIDE DEF T, m
  <2> QED BY <1>1, <1>3
<1>5. k + m = Len(s) OBVIOUS
<1> QED BY <1>4, <1>5

\* The last thread of the chain is the one of the activation on top.
LEMMA ChainLast ==
  ASSUME Typed, Shape, NEW m \in 1 .. Len(cstack)
  PROVE  /\ ChainTo[m] \in Seq(Thread) /\ ChainTo[m] # <<>>
         /\ ChainTo[m][Len(ChainTo[m])] = cstack[m].th
         /\ ChainTo[m - 1] \in Seq(Thread)
<1>1. PICK f, n : f = ChainTo /\ n = Len(cstack) OBVIOUS
<1>2. IsChain(cstack, f) /\ n \in Nat /\ DOMAIN cstack = 1 .. n
  BY <1>1, ChainHere, LenProperties DEF Typed
<1>3. \A k \in 1 .. n : cstack[k].th \in Thread
  <2>1. \A k \in 1 .. n : cstack[k] \in Activations BY <1>1, ElementOfSeq DEF Typed
  <2> QED BY <2>1 DEF Activations
<1> DEFINE Good(k) == /\ f[k] \in Seq(Thread)
                      /\ k > 0 => f[k] # <<>> /\ f[k][Len(f[k])] = cstack[k].th
           T == {k \in 0 .. n : Good(k)}
<1>4. T \subseteq 0 .. n /\ 0 \in T
  <2>1. f[0] = <<>> /\ 0 \in 0 .. n BY <1>2 DEF IsChain
  <2>2. Good(0) BY <2>1
  <2> QED BY <2>1, <2>2
<1>5. ASSUME NEW k \in 1 .. n, k - 1 \in T PROVE k \in T
  <2>1. f[k - 1] \in Seq(Thread) /\ cstack[k].th \in Thread BY <1>3, <1>5
  <2>2. CASE Switches(cstack[k])
    <3>1. f[k] = Append(f[k - 1], cstack[k].th) BY <1>1, <1>2, <2>2 DEF IsChain
    <3>2. /\ f[k] \in Seq(Thread) /\ Len(f[k]) = Len(f[k - 1]) + 1
          /\ f[k][Len(f[k - 1]) + 1] = cstack[k].th
      BY <2>1, <3>1, AppendProperties
    <3>3. Len(f[k - 1]) \in Nat BY <2>1, LenProperties
    <3>4. Good(k) BY <3>2, <3>3, EmptySeq
    <3> QED BY <3>4
  <2>3. CASE ~Switches(cstack[k])
    <3>1. f[k] = f[k - 1] BY <1>1, <1>2, <2>3 DEF IsChain
    <3>2. k > 1 /\ cstack[k].th = cstack[k - 1].th BY <1>2, <2>3 DEF Shape, Switches
    <3>3. Good(k - 1) BY <1>5
    <3>4. Good(k) BY <3>1, <3>2, <3>3
    <3> QED BY <3>4
  <2> QED BY <2>2, <2>3
<1>6. T = 0 .. n
  <2> HIDE DEF T
  <2> QED BY <1>2, <1>4, <1>5, UpTo
<1>7. m \in T /\ m - 1 \in T /\ m > 0 BY <1>1, <1>2, <1>6
<1> QED BY <1>1, <1>7

\* The thread that runs is the last of the chain.
LEMMA ChainRuns ==
  ASSUME Typed, Shape, cstack # <<>>
  PROVE  Chain \in Seq(Thread) /\ Chain # <<>> /\ Chain[Len(Chain)] = L
<1>1. PICK n : n = Len(cstack) OBVIOUS
<1>2. n \in Nat \ {0} /\ n \in 1 .. Len(cstack) BY <1>1, TopTyped
<1>3. ChainTo[n] \in Seq(Thread) /\ ChainTo[n] # <<>>
      /\ ChainTo[n][Len(ChainTo[n])] = cstack[n].th
  BY <1>2, ChainLast
<1> QED BY <1>1, <1>3 DEF Chain, L, Top

LEMMA ChainPush ==
  ASSUME Typed, NEW r \in Activations, cstack' = Append(cstack, r)
  PROVE  Chain' = IF Switches(r) THEN Append(Chain, r.th) ELSE Chain
<1>1. PICK n, s, t, f, g : n = Len(cstack) /\ s = cstack /\ t = cstack' /\ f = ChainTo /\ g = ChainTo'
  OBVIOUS
<1>2. /\ n \in Nat /\ t \in Seq(Activations) /\ Len(t) = n + 1 /\ t[n + 1] = r
      /\ \A i \in 1 .. n : t[i] = s[i]
  BY <1>1, PushStack
<1>3. IsChain(s, f) /\ IsChain(t, g) BY <1>1, <1>2, ChainHere, ChainNext
<1>4. f[n] = g[n]
  <2>1. n <= Len(s) /\ n <= Len(t) /\ Len(s) \in Nat /\ Len(t) \in Nat BY <1>1, <1>2
  <2> QED BY <1>2, <1>3, <2>1, ChainSame
<1>5. n + 1 \in 1 .. Len(t) /\ n + 1 - 1 = n BY <1>2
<1>6. g[n + 1] = IF Switches(r) THEN Append(g[n], r.th) ELSE g[n] BY <1>2, <1>3, <1>5 DEF IsChain
<1>7. Chain = f[n] /\ Chain' = g[n + 1] BY <1>1, <1>2 DEF Chain
<1> QED BY <1>4, <1>6, <1>7

LEMMA FrontAppended ==
  ASSUME NEW S, NEW q \in Seq(S), NEW x \in S
  PROVE  SubSeq(Append(q, x), 1, Len(Append(q, x)) - 1) = q
<1>1. PICK a, n : a = Append(q, x) /\ n = Len(q) OBVIOUS
<1>2. /\ a \in Seq(S) /\ Len(a) = n + 1 /\ n \in Nat
      /\ \A i \in 1 .. n : a[i] = q[i]
  BY <1>1, AppendProperties, LenProperties
<1>3. n \in 0 .. Len(a) /\ Len(a) - 1 = n BY <1>2
<1>4. PICK b : b = SubSeq(a, 1, n) OBVIOUS
<1>5. b \in Seq(S) /\ Len(b) = n /\ \A i \in 1 .. n : b[i] = a[i] BY <1>2, <1>3, <1>4, CutSeq
<1>6. b = q BY <1>1, <1>2, <1>5, SeqEqual
<1> QED BY <1>1, <1>3, <1>4, <1>6

\* The activations above r in its thread switch nothing.
LEMMA ChainCut ==
  ASSUME Typed, Shape, NEW k, NEW r, Ends(k, r),
         \A i \in k + 1 .. Len(cstack) : ~Switches(cstack[i])
  PROVE  /\ Chain \in Seq(Thread) /\ Chain # <<>> /\ Chain[Len(Chain)] = r.th
         /\ Chain' = IF Switches(r) THEN SubSeq(Chain, 1, Len(Chain) - 1) ELSE Chain
<1>1. PICK n, s, t, f, g : n = Len(cstack) /\ s = cstack /\ t = cstack' /\ f = ChainTo /\ g = ChainTo'
  OBVIOUS
<1>2. /\ n \in Nat /\ k \in 1 .. n /\ t \in Seq(Activations) /\ Len(t) = k - 1
      /\ cstack # <<>> /\ L = r.th /\ r = s[k]
      /\ \A i \in 1 .. k - 1 : t[i] = s[i]
  BY <1>1, CutStack
<1>3. IsChain(s, f) /\ IsChain(t, g) BY <1>1, <1>2, ChainHere, ChainNext
<1>4. k - 1 \in Nat /\ k - 1 <= Len(s) /\ k - 1 <= Len(t) /\ Len(s) \in Nat /\ Len(t) \in Nat
  BY <1>1, <1>2
<1>5. f[k - 1] = g[k - 1] BY <1>2, <1>3, <1>4, ChainSame
<1>6. f[n] = f[k]
  <2>1. k \in 0 .. Len(s) /\ \A i \in k + 1 .. Len(s) : ~Switches(s[i]) BY <1>1, <1>2
  <2> QED BY <1>1, <1>3, <1>4, <2>1, ChainQuiet
<1>7. f[k] = IF Switches(r) THEN Append(f[k - 1], r.th) ELSE f[k - 1]
  BY <1>1, <1>2, <1>3 DEF IsChain
<1>8. Chain = f[n] /\ Chain' = g[k - 1] BY <1>1, <1>2 DEF Chain
<1>9. Chain \in Seq(Thread) /\ Chain # <<>> /\ Chain[Len(Chain)] = r.th BY <1>2, ChainRuns
<1>10. CASE Switches(r)
  <2>1. f[k - 1] \in Seq(Thread) /\ r.th \in Thread
    <3>1. f[k - 1] \in Seq(Thread) BY <1>1, <1>2, ChainLast
    <3> QED BY <3>1, CutStack
  <2>2. SubSeq(Append(f[k - 1], r.th), 1, Len(Append(f[k - 1], r.th)) - 1) = f[k - 1]
    BY <2>1, FrontAppended
  <2>3. Chain = Append(f[k - 1], r.th) /\ Chain' = f[k - 1] BY <1>5, <1>6, <1>7, <1>8, <1>10
  <2> QED BY <1>9, <1>10, <2>2, <2>3
<1>11. CASE ~Switches(r) BY <1>5, <1>6, <1>7, <1>8, <1>9, <1>11
<1> QED BY <1>10, <1>11
-----------------------------------------------------------------------------
(* What costatus answers, without the CallInfos.                            *)

Away(st, waits) == CASE st = "none"  -> "none"
                     [] st = "yield" -> "suspended"
                     [] st = "error" -> "dead"
                     [] OTHER -> IF waits THEN "suspended" ELSE "dead"

\* The body of a coroutine on the C stack does not wait to be started.
Started == \A co \in Co : Of(co) # {} => ~fresh[co]

LEMMA CoStatusIs ==
  IInv => \A co \in Co :
            CoStatus(co) = IF Of(co) # {} THEN "active" ELSE Away(status[co], fresh[co])
<1> SUFFICES ASSUME IInv, NEW co \in Co
             PROVE  CoStatus(co) = IF Of(co) # {} THEN "active" ELSE Away(status[co], fresh[co])
    OBVIOUS
<1>1. status[co] \in {"none", "ok", "yield", "error"} BY DEF IInv, Typed, Thread
<1>2. CASE Of(co) # {}
  <2>1. status[co] = "ok" /\ ci[co] # <<>> BY <1>2, NoFramesIsOff DEF IInv, Statuses
  <2> QED BY <1>2, <2>1 DEF CoStatus
<1>3. CASE Of(co) = {}
  <2>1. status[co] = "ok" => ci[co] = <<>> BY <1>3 DEF IInv, Statuses
  <2> QED BY <1>1, <1>3, <2>1 DEF CoStatus, Away
<1> QED BY <1>2, <1>3

\* Which threads are on the C stack after a push and after a cut.
LEMMA PushOf ==
  ASSUME Typed, NEW r \in Activations, cstack' = Append(cstack, r)
  PROVE  \A th : Of(th)' # {} <=> Of(th) # {} \/ th = r.th
<1>1. PICK n : n = Len(cstack) OBVIOUS
<1>2. /\ n \in Nat /\ DOMAIN cstack = 1 .. n /\ DOMAIN cstack' = 1 .. n + 1
      /\ cstack'[n + 1] = r
      /\ \A i \in 1 .. n : cstack'[i] = cstack[i]
  BY <1>1, PushStack
<1>3. ASSUME NEW th, NEW k \in Of(th)' PROVE Of(th) # {} \/ th = r.th
  <2>1. k \in 1 .. n + 1 /\ cstack'[k].th = th BY <1>2, <1>3 DEF Of
  <2>2. CASE k \in 1 .. n
    <3>1. k \in Of(th) BY <1>2, <2>1, <2>2 DEF Of
    <3> QED BY <3>1
  <2>3. CASE k = n + 1 BY <1>2, <2>1, <2>3
  <2> QED BY <1>2, <2>1, <2>2, <2>3
<1>4. ASSUME NEW th, Of(th) # {} \/ th = r.th PROVE Of(th)' # {}
  <2>1. CASE th = r.th
    <3>1. n + 1 \in Of(th)' BY <1>2, <2>1 DEF Of
    <3> QED BY <3>1
  <2>2. ASSUME NEW k \in Of(th) PROVE Of(th)' # {}
    <3>1. k \in Of(th)' BY <1>2, <2>2 DEF Of
    <3> QED BY <3>1
  <2> QED BY <1>4, <2>1, <2>2
<1> QED BY <1>3, <1>4

LEMMA CutOf ==
  ASSUME Typed, NEW k, NEW r, Ends(k, r)
  PROVE  /\ \A th : th # r.th => (Of(th)' # {} <=> Of(th) # {})
         /\ Of(r.th)' # {} <=> Below(r.th, k - 1) # {}
<1>1. PICK n : n = Len(cstack) OBVIOUS
<1>2. /\ n \in Nat /\ k \in 1 .. n /\ DOMAIN cstack = 1 .. n /\ DOMAIN cstack' = 1 .. k - 1
      /\ \A i \in k .. n : cstack[i].th = r.th
      /\ \A i \in 1 .. k - 1 : cstack'[i] = cstack[i]
  BY <1>1, CutStack
<1>3. ASSUME NEW th, th # r.th PROVE Of(th)' = Of(th)
  <2>1. \A i \in Of(th) : i \in 1 .. n /\ i \notin k .. n BY <1>2, <1>3 DEF Of
  <2>2. \A i \in Of(th) : i \in 1 .. k - 1 BY <1>2, <2>1
  <2>3. \A i \in Of(th) : i \in Of(th)' BY <1>2, <2>2 DEF Of
  <2>4. \A i \in Of(th)' : i \in Of(th) BY <1>2 DEF Of
  <2> QED BY <2>3, <2>4
<1>4. Of(r.th)' = Below(r.th, k - 1)
  <2>1. \A i \in Of(r.th)' : i \in Below(r.th, k - 1) BY <1>2 DEF Of, Below, BelowIn
  <2>2. \A i \in Below(r.th, k - 1) : i \in Of(r.th)' BY <1>2 DEF Of, Below, BelowIn
  <2> QED BY <2>1, <2>2
<1> QED BY <1>3, <1>4

LEMMA ChainStays == ASSUME Typed, cstack' = cstack PROVE Chain' = Chain
<1>1. cstack \in Seq(Activations) /\ Len(cstack) \in Nat BY LenProperties DEF Typed
<1>2. PICK f, g, n : f = ChainTo /\ g = ChainTo' /\ n = Len(cstack) OBVIOUS
<1>3. IsChain(cstack, f) /\ IsChain(cstack, g) BY <1>1, <1>2, ChainHere, ChainNext
<1>4. f[n] = g[n] BY <1>1, <1>2, <1>3, ChainSame
<1>5. Chain = f[n] /\ Chain' = g[n] BY <1>2 DEF Chain
<1> QED BY <1>4, <1>5

\* What a step does to the answers of costatus.
LEMMA StatesNext ==
  ASSUME IInv, IInv'
  PROVE  /\ \A co \in Co : States[co] =
              IF Of(co) # {} THEN "active" ELSE Away(status[co], fresh[co])
         /\ \A co \in Co : States'[co] =
              IF Of(co)' # {} THEN "active" ELSE Away(status'[co], fresh'[co])
         /\ States = [co \in Co |-> States[co]] /\ States' = [co \in Co |-> States'[co]]
<1>1. IInv' => (\A co \in Co : CoStatus(co) =
            IF Of(co) # {} THEN "active" ELSE Away(status[co], fresh[co]))'
  BY CoStatusIs, PTL
<1>2. \A co \in Co : CoStatus(co)' =
            IF Of(co)' # {} THEN "active" ELSE Away(status'[co], fresh'[co])
  BY <1>1 DEF Away
<1> QED BY <1>2, CoStatusIs DEF States

LEMMA QuietStates ==
  ASSUME IInv, IInv',
         \A co \in Co : /\ Of(co)' # {} <=> Of(co) # {}
                        /\ Of(co) = {} => Away(status'[co], fresh'[co]) = Away(status[co], fresh[co])
  PROVE  States' = States
<1>1. \A co \in Co : States'[co] = States[co] BY StatesNext
<1> QED BY <1>1, StatesNext

LEMMA OneState ==
  ASSUME IInv, IInv', NEW c \in Co, NEW v,
         \A co \in Co \ {c} :
           /\ Of(co)' # {} <=> Of(co) # {}
           /\ Of(co) = {} => Away(status'[co], fresh'[co]) = Away(status[co], fresh[co]),
         v = IF Of(c)' # {} THEN "active" ELSE Away(status'[c], fresh'[c])
  PROVE  States' = [States EXCEPT ![c] = v]
<1>1. \A co \in Co \ {c} : States'[co] = States[co] BY StatesNext
<1>2. States'[c] = v BY StatesNext
<1> QED BY <1>1, <1>2, StatesNext
-----------------------------------------------------------------------------
(* The steps.                                                               *)

\* Nothing changes hands.
LEMMA StackStays ==
  ASSUME IInv, IInv', Started, UNCHANGED <<cstack, status, fresh>>
  PROVE  Started' /\ UNCHANGED C!vars
<1>1. \A th : Of(th)' = Of(th) BY DEF Of
<1>2. Chain' = Chain BY ChainStays DEF IInv
<1>3. States' = States BY <1>1, QuietStates
<1> QED BY <1>1, <1>2, <1>3 DEF Started, C!vars

LEMMA CallInThread ==
  ASSUME IInv, IInv', Started, cstack # <<>>, UNCHANGED <<status, fresh>>,
         NEW r \in Activations, cstack' = Append(cstack, r), r.th = L, ~Switches(r)
  PROVE  Started' /\ UNCHANGED C!vars
<1>1. Typed /\ Len(cstack) \in DOMAIN cstack BY TopTyped DEF IInv
<1>2. Len(cstack) \in Of(L) BY <1>1 DEF Of, L, Top
<1>3. \A th : Of(th)' # {} <=> Of(th) # {} BY <1>1, <1>2, PushOf
<1>4. Chain' = Chain BY <1>1, ChainPush
<1>5. States' = States BY <1>3, QuietStates
<1>6. Started' BY <1>3 DEF Started
<1> QED BY <1>4, <1>5, <1>6 DEF C!vars

\* Activation r ends and its C code goes on in the same thread.
LEMMA ReturnInThread ==
  ASSUME IInv, IInv', Started, UNCHANGED <<status, fresh>>, NEW k, NEW r, Ends(k, r),
         \A i \in k .. Len(cstack) : ~Switches(cstack[i])
  PROVE  Started' /\ UNCHANGED C!vars
<1>1. PICK n : n = Len(cstack) OBVIOUS
<1>2. /\ n \in Nat /\ k \in 1 .. n /\ DOMAIN cstack = 1 .. n /\ r = cstack[k]
      /\ L = r.th /\ cstack # <<>> /\ Typed /\ Shape
  BY <1>1, CutStack DEF IInv
<1>3. ~Switches(r) BY <1>1, <1>2
<1>4. k > 1 /\ cstack[k - 1].th = r.th BY <1>2, <1>3 DEF Shape, Switches
<1>5. k - 1 \in Below(r.th, k - 1) BY <1>2, <1>4 DEF Below, BelowIn
<1>6. k \in Of(r.th) BY <1>2 DEF Of
<1>7. \A th : Of(th)' # {} <=> Of(th) # {} BY <1>2, <1>5, <1>6, CutOf
<1>8. \A i \in k + 1 .. Len(cstack) : ~Switches(cstack[i]) BY <1>1, <1>2
<1>9. Chain' = Chain BY <1>2, <1>3, <1>8, ChainCut
<1>10. States' = States BY <1>7, QuietStates
<1>11. Started' BY <1>7 DEF Started
<1> QED BY <1>9, <1>10, <1>11 DEF C!vars

\* Java gets control back.
LEMMA ReturnToJava ==
  ASSUME IInv, IInv', Started, UNCHANGED <<status, fresh>>, NEW k, NEW r, Ends(k, r),
         r.kind = "java", \A i \in k + 1 .. Len(cstack) : ~Switches(cstack[i])
  PROVE  Started' /\ C!Leave
<1>1. /\ k \in DOMAIN cstack /\ r = cstack[k] /\ Typed /\ Shape BY DEF Ends, IInv
<1>2. r.th = Main /\ Switches(r) BY <1>1 DEF Shape, Switches
<1>3. \A co \in Co : Of(co)' # {} <=> Of(co) # {} BY <1>1, <1>2, CutOf, ThreadAssumption
<1>4. /\ Chain # <<>> /\ Chain[Len(Chain)] = Main
      /\ Chain' = SubSeq(Chain, 1, Len(Chain) - 1)
  BY <1>1, <1>2, ChainCut
<1>5. States' = States BY <1>3, QuietStates
<1>6. Started' BY <1>3 DEF Started
<1> QED BY <1>4, <1>5, <1>6 DEF C!Leave, C!Running, C!Pop

\* The thread that resumed coroutine r.th gets control back.
LEMMA CoroutineStops ==
  ASSUME IInv, IInv', Started, NEW k, NEW r, Ends(k, r), r.kind = "resume",
         \A i \in k + 1 .. Len(cstack) : ~Switches(cstack[i]), fresh' = fresh,
         \A co \in Co : co # r.th => status'[co] = status[co],
         NEW how \in {"suspended", "dead"}, how = Away(status'[r.th], fresh'[r.th])
  PROVE  Started' /\ r.th \in Co /\ C!Stop(r.th, how)
<1>1. /\ k \in DOMAIN cstack /\ r = cstack[k] /\ Typed /\ Shape /\ Counts BY DEF Ends, IInv
<1>2. r.th \in Co /\ Switches(r) BY <1>1 DEF Shape, Switches
<1>3. Below(r.th, k - 1) = {}
  <2>1. CountedAt(k, cstack[k]) BY <1>1 DEF Counts
  <2> QED BY <1>1, <2>1 DEF CountedAt
<1>4. \A co \in Co : (Of(co)' # {} <=> Of(co) # {} /\ co # r.th)
  BY <1>1, <1>3, CutOf
<1>5. /\ Chain # <<>> /\ Chain[Len(Chain)] = r.th
      /\ Chain' = SubSeq(Chain, 1, Len(Chain) - 1)
  BY <1>1, <1>2, ChainCut
<1>6. how = IF Of(r.th)' # {} THEN "active" ELSE Away(status'[r.th], fresh'[r.th])
  BY <1>2, <1>4
<1>7. States' = [States EXCEPT ![r.th] = how] BY <1>2, <1>4, <1>6, OneState
<1>8. Started' BY <1>4 DEF Started
<1> QED BY <1>2, <1>5, <1>7, <1>8 DEF C!Stop, C!Running, C!Pop

\* metamethods, pcall and handlers
LEMMA CallStep ==
  ASSUME IInv, IInv', Started, cstack # <<>>, UNCHANGED <<status, fresh>>,
         NEW kind \in {"meta", "pcall", "handler"}, NEW floor \in Nat, NEW frames,
         LuaDCall(Activation(kind, L, None, floor, FALSE), frames)
  PROVE  Started' /\ UNCHANGED C!vars
<1>1. PICK r : r = Activation(kind, L, None, floor, FALSE) OBVIOUS
<1>2. L \in Thread /\ Typed BY TopTyped DEF IInv
<1>3. nCcalls[L] \in Nat /\ errfunc[L] \in Handler BY <1>2, LimitAssumption DEF Typed
<1>4. r \in Activations /\ r.th = L /\ ~Switches(r)
  BY <1>1, <1>2, <1>3 DEF Activation, Activations, Switches
<1>5. cstack' = Append(cstack, r) BY <1>1 DEF LuaDCall
<1> QED BY <1>4, <1>5, CallInThread

LEMMA JavaPCallStep ==
  ASSUME IInv, IInv', Started, JavaPCall
  PROVE  Started' /\ C!Enter
<1>1. \E r : /\ cstack' = Append(cstack, r) /\ r.th = Main /\ r.kind = "java"
             /\ r \in Activations
  <2>1. Main \in Thread /\ Typed /\ ci[Main] \in Seq({"Lua", "C"})
    BY DEF IInv, Thread, Typed, CallInfos
  <2>2. nCcalls[Main] \in Nat /\ errfunc[Main] \in Handler BY <2>1, LimitAssumption DEF Typed
  <2>3. CASE cstack = <<>>
    <3>1. PICK r : r = Activation("java", Main, None, Len(ci[Main]), FALSE) OBVIOUS
    <3>2. cstack' = Append(cstack, r) BY <2>3, <3>1 DEF JavaPCall, LuaDCall
    <3>3. Len(ci[Main]) \in Nat BY <2>1, LenProperties
    <3>4. r \in Activations /\ r.th = Main /\ r.kind = "java"
      BY <2>1, <2>2, <3>1, <3>3 DEF Activation, Activations
    <3> QED BY <3>2, <3>4
  <2>4. CASE cstack # <<>>
    <3>1. PICK r : r = Activation("java", Main, L, Len(PushFrame(L, "C")[Main]), FALSE) OBVIOUS
    <3>2. cstack' = Append(cstack, r) BY <2>4, <3>1 DEF JavaPCall, LuaDCall
    <3>3. L \in Thread BY <2>1, <2>4, TopTyped
    <3>4. PushFrame(L, "C")[Main] \in Seq({"Lua", "C"})
      <4>1. Append(ci[Main], "C") \in Seq({"Lua", "C"}) BY <2>1, AppendProperties
      <4> QED BY <2>1, <3>3, <4>1 DEF PushFrame, Typed, CallInfos
    <3>5. Len(PushFrame(L, "C")[Main]) \in Nat BY <3>4, LenProperties
    <3>6. r \in Activations /\ r.th = Main /\ r.kind = "java"
      BY <2>1, <2>2, <3>1, <3>3, <3>5 DEF Activation, Activations
    <3> QED BY <3>2, <3>6
  <2> QED BY <2>3, <2>4
<1>2. PICK r \in Activations : cstack' = Append(cstack, r) /\ r.th = Main /\ r.kind = "java"
  BY <1>1
<1>3. UNCHANGED <<status, fresh>> /\ Typed BY DEF JavaPCall, IInv
<1>4. Chain' = Append(Chain, Main) BY <1>2, <1>3, ChainPush DEF Switches
<1>5. \A co \in Co : Of(co)' # {} <=> Of(co) # {} BY <1>2, <1>3, PushOf, ThreadAssumption
<1>6. States' = States BY <1>3, <1>5, QuietStates
<1>7. Started' BY <1>3, <1>5 DEF Started
<1> QED BY <1>4, <1>6, <1>7 DEF C!Enter

LEMMA ReturnStep ==
  ASSUME IInv, IInv', Started, Return
  PROVE  Started' /\ [C!Next]_C!vars
<1>1. Runs /\ status' = status /\ cstack # <<>> /\ Typed BY DEF Return, Runs, IInv
<1>2. CASE UNCHANGED <<cstack, fresh>> BY <1>1, <1>2, StackStays
<1>3. CASE ~UNCHANGED <<cstack, fresh>>
  <2>1. PICK r, n : r = Top /\ n = Len(cstack) OBVIOUS
  <2>2. Finish(r, PopFrame(ci, L)) BY <1>3, <2>1 DEF Return
  <2>3. cstack' = Front(cstack) /\ fresh' = fresh BY <2>2 DEF Finish
  <2>4. n \in Nat /\ n \in DOMAIN cstack /\ r = cstack[n] /\ cstack' = SubSeq(cstack, 1, n - 1)
    BY <1>1, <2>1, <2>3, TopTyped DEF Top, Front
  <2>5. \A i \in n .. Len(cstack) : i = n BY <2>1, <2>4
  <2>6. Ends(n, r) BY <2>4, <2>5 DEF Ends
  <2>7. \A i \in n + 1 .. Len(cstack) : ~Switches(cstack[i]) BY <2>1, <2>4
  <2>8. r.kind \in {"meta", "handler", "pcall", "java", "resume"} BY <2>2 DEF Finish
  <2>9. CASE r.kind = "java"
    <3>1. Started' /\ C!Leave BY <1>1, <2>3, <2>6, <2>7, <2>9, ReturnToJava
    <3> QED BY <3>1 DEF C!Next
  <2>10. CASE r.kind = "resume"
    <3>1. r.th \in Co /\ n \in Of(r.th)
      BY <2>4, <2>10 DEF IInv, Shape, Of
    <3>2. status[r.th] = "ok" /\ ~fresh[r.th] BY <3>1 DEF IInv, Statuses, Started
    <3>3. "dead" = Away(status'[r.th], fresh'[r.th]) BY <1>1, <2>3, <3>2 DEF Away
    <3>4. Started' /\ r.th \in Co /\ C!Stop(r.th, "dead")
      BY <1>1, <2>3, <2>6, <2>7, <2>10, <3>3, CoroutineStops
    <3> QED BY <3>4 DEF C!Next
  <2>11. CASE r.kind \notin {"java", "resume"}
    <3>1. \A i \in n .. Len(cstack) : ~Switches(cstack[i]) BY <2>4, <2>5, <2>11 DEF Switches
    <3>2. Started' /\ UNCHANGED C!vars BY <1>1, <2>3, <2>6, <3>1, ReturnInThread
    <3> QED BY <3>2
  <2> QED BY <2>8, <2>9, <2>10, <2>11
<1> QED BY <1>2, <1>3

LEMMA ThrowStep ==
  ASSUME IInv, IInv', Started, Throw
  PROVE  Started' /\ [C!Next]_C!vars
<1>1. mode = "throw" /\ cstack # <<>> /\ Typed /\ JumpBuffers
  BY DEF Throw, IInv, Stopped
<1>2. PICK k, r : k = ErrorJmp(L) /\ r = cstack[k] OBVIOUS
<1>3. /\ k \in DOMAIN cstack /\ Protects(r)
      /\ \A i \in k .. Len(cstack) : cstack[i].th = L
  BY <1>1, <1>2, ErrorJmpFound
<1>4. Len(cstack) \in Nat /\ DOMAIN cstack = 1 .. Len(cstack) BY <1>1, LenProperties DEF Typed
<1>5. r.th = L BY <1>2, <1>3, <1>4
<1>6. /\ cstack' = SubSeq(cstack, 1, k - 1) /\ fresh' = fresh
      /\ \/ r.kind \in {"pcall", "java"} /\ status' = status
         \/ r.kind = "resume" /\ status' = [status EXCEPT ![r.th] = "error"]
  BY <1>2 DEF Throw
<1>7. Ends(k, r) BY <1>2, <1>3, <1>5, <1>6 DEF Ends
\* Above the nearest jump buffer nothing switches.
<1>8. ASSUME NEW i \in k + 1 .. Len(cstack) PROVE ~Switches(cstack[i])
  BY <1>1, <1>2, ErrorJmpFound DEF Protects, Switches
<1>9. CASE r.kind = "java"
  <2>1. Started' /\ C!Leave BY <1>6, <1>7, <1>8, <1>9, ReturnToJava
  <2> QED BY <2>1 DEF C!Next
<1>10. CASE r.kind = "resume"
  <2>1. r.th \in Co BY <1>2, <1>3, <1>10 DEF IInv, Shape
  <2>2. status' = [status EXCEPT ![r.th] = "error"] BY <1>6, <1>10
  <2>3. status'[r.th] = "error" /\ \A co \in Co : co # r.th => status'[co] = status[co]
    BY <1>1, <2>1, <2>2 DEF Typed, Thread
  <2>4. "dead" = Away(status'[r.th], fresh'[r.th]) BY <2>3 DEF Away
  <2>5. Started' /\ r.th \in Co /\ C!Stop(r.th, "dead")
    BY <1>6, <1>7, <1>8, <1>10, <2>3, <2>4, CoroutineStops
  <2> QED BY <2>5 DEF C!Next
<1>11. CASE r.kind = "pcall"
  <2>1. \A i \in k .. Len(cstack) : ~Switches(cstack[i])
    <3>1. \A i \in k .. Len(cstack) : i = k \/ i \in k + 1 .. Len(cstack) BY <1>3, <1>4
    <3> QED BY <1>2, <1>8, <1>11, <3>1 DEF Switches
  <2>2. Started' /\ UNCHANGED C!vars BY <1>6, <1>7, <1>11, <2>1, ReturnInThread
  <2> QED BY <2>2
<1> QED BY <1>6, <1>9, <1>10, <1>11

LEMMA CreateStep ==
  ASSUME IInv, IInv', Started, NEW co \in Co, Create(co)
  PROVE  Started' /\ C!Create(co)
<1>1. /\ cstack # <<>> /\ cstack' = cstack /\ status[co] = "none" /\ Typed /\ Shape
      /\ status' = [status EXCEPT ![co] = "ok"] /\ fresh' = [fresh EXCEPT ![co] = TRUE]
  BY DEF Create, Runs, IInv
<1>2. \A th : Of(th)' = Of(th) BY <1>1 DEF Of
<1>3. Of(co) = {} BY <1>1 DEF IInv, Statuses
<1>4. /\ status'[co] = "ok" /\ fresh'[co] = TRUE
      /\ \A o \in Co \ {co} : status'[o] = status[o] /\ fresh'[o] = fresh[o]
  BY <1>1 DEF Typed, Thread
<1>5. States' = [States EXCEPT ![co] = "suspended"]
  <2>1. "suspended" = IF Of(co)' # {} THEN "active" ELSE Away(status'[co], fresh'[co])
    BY <1>2, <1>3, <1>4 DEF Away
  <2> QED BY <1>2, <1>4, <2>1, OneState
<1>6. States[co] = "none" BY <1>1, <1>3, StatesNext DEF Away
<1>7. Chain # <<>> /\ Chain' = Chain BY <1>1, ChainRuns, ChainStays
<1>8. Started' BY <1>2, <1>3, <1>4 DEF Started
<1> QED BY <1>5, <1>6, <1>7, <1>8 DEF C!Create

LEMMA ResumeStep ==
  ASSUME IInv, IInv', Started, NEW co \in Co, NEW wrap \in BOOLEAN, Resume(co, wrap)
  PROVE  Started' /\ [C!Next]_C!vars
<1>1. cstack # <<>> /\ Typed /\ Shape /\ L \in Thread BY TopTyped DEF Resume, Runs, IInv
<1>2. \/ UNCHANGED <<status, fresh, cstack>>
      \/ /\ CoStatus(co) = "suspended"
         /\ fresh' = [fresh EXCEPT ![co] = FALSE] /\ UNCHANGED <<status, cstack>>
      \/ /\ CoStatus(co) = "suspended" /\ status' = [status EXCEPT ![co] = "ok"]
         /\ fresh' = [fresh EXCEPT ![co] = FALSE]
         /\ cstack' = Append(cstack, Activation("resume", co, L, 0, wrap))
  BY DEF Resume
<1>3. CASE UNCHANGED <<status, fresh, cstack>> BY <1>3, StackStays
<1>4. ASSUME CoStatus(co) = "suspended", fresh' = [fresh EXCEPT ![co] = FALSE]
      PROVE  /\ Of(co) = {} /\ fresh'[co] = FALSE /\ States[co] = "suspended"
             /\ status[co] \in {"ok", "yield"}
             /\ \A o \in Co \ {co} : fresh'[o] = fresh[o]
             /\ Chain # <<>>
  <2>1. Of(co) = {} /\ status[co] \in {"ok", "yield"} BY <1>4, SuspendedIsOff
  <2>2. fresh'[co] = FALSE /\ \A o \in Co \ {co} : fresh'[o] = fresh[o]
    BY <1>1, <1>4 DEF Typed, Thread
  <2> QED BY <1>1, <1>4, <2>1, <2>2, ChainRuns DEF States
<1>5. CASE /\ CoStatus(co) = "suspended"
           /\ fresh' = [fresh EXCEPT ![co] = FALSE] /\ UNCHANGED <<status, cstack>>
  <2>1. \A th : Of(th)' = Of(th) BY <1>5 DEF Of
  <2>2. Chain' = Chain BY <1>1, <1>5, ChainStays
  <2>3. Started' BY <1>4, <1>5, <2>1 DEF Started
  <2>4. CASE status[co] = "yield"
    <3>1. Away(status'[co], fresh'[co]) = Away(status[co], fresh[co]) BY <1>5, <2>4 DEF Away
    <3>2. States' = States BY <1>4, <1>5, <2>1, <3>1, QuietStates
    <3> QED BY <2>2, <2>3, <3>2 DEF C!vars
  <2>5. CASE status[co] = "ok"
    <3>1. "dead" = IF Of(co)' # {} THEN "active" ELSE Away(status'[co], fresh'[co])
      BY <1>4, <1>5, <2>1, <2>5 DEF Away
    <3>2. States' = [States EXCEPT ![co] = "dead"] BY <1>4, <1>5, <2>1, <3>1, OneState
    <3>3. C!Lose(co) BY <1>4, <1>5, <2>2, <3>2 DEF C!Lose
    <3> QED BY <2>3, <3>3 DEF C!Next
  <2> QED BY <1>4, <1>5, <2>4, <2>5
<1>6. CASE /\ CoStatus(co) = "suspended" /\ status' = [status EXCEPT ![co] = "ok"]
           /\ fresh' = [fresh EXCEPT ![co] = FALSE]
           /\ cstack' = Append(cstack, Activation("resume", co, L, 0, wrap))
  <2>1. PICK r : r = Activation("resume", co, L, 0, wrap) OBVIOUS
  <2>2. co \in Thread BY DEF Thread
  <2>3. nCcalls[co] \in Nat /\ errfunc[co] \in Handler BY <1>1, <2>2, LimitAssumption DEF Typed
  <2>4. r \in Activations /\ r.th = co /\ Switches(r) /\ cstack' = Append(cstack, r)
    BY <1>1, <1>6, <2>1, <2>2, <2>3 DEF Activation, Activations, Switches
  <2>5. Chain' = Append(Chain, co) BY <1>1, <2>4, ChainPush
  <2>6. \A th : Of(th)' # {} <=> Of(th) # {} \/ th = co BY <1>1, <2>4, PushOf
  <2>7. \A o \in Co \ {co} : status'[o] = status[o] BY <1>1, <1>6 DEF Typed, Thread
  <2>8. "active" = IF Of(co)' # {} THEN "active" ELSE Away(status'[co], fresh'[co]) BY <2>6
  <2>9. States' = [States EXCEPT ![co] = "active"] BY <1>4, <1>6, <2>6, <2>7, <2>8, OneState
  <2>10. C!Resume(co) BY <1>4, <1>6, <2>5, <2>9 DEF C!Resume
  <2>11. Started' BY <1>4, <1>6, <2>6 DEF Started
  <2> QED BY <2>10, <2>11 DEF C!Next
<1> QED BY <1>2, <1>3, <1>5, <1>6

LEMMA YieldStep ==
  ASSUME IInv, IInv', Started, Yield
  PROVE  Started' /\ [C!Next]_C!vars
<1>1. cstack # <<>> /\ Typed /\ Runs /\ fresh' = fresh BY DEF Yield, Runs, IInv
<1>2. CASE ~MayYield
  <2>1. UNCHANGED <<cstack, status, fresh>> BY <1>2 DEF Yield
  <2> QED BY <2>1, StackStays
<1>3. CASE MayYield
  <2>1. PICK r, n : r = Top /\ n = Len(cstack) OBVIOUS
  <2>2. r.kind = "resume" /\ r.th \in Co BY <1>1, <1>3, <2>1, MayYieldIsResumed DEF L
  <2>3. status' = [status EXCEPT ![r.th] = "yield"] /\ cstack' = Front(cstack)
    BY <1>3, <2>1 DEF Yield, L
  <2>4. n \in Nat /\ n \in DOMAIN cstack /\ r = cstack[n] /\ cstack' = SubSeq(cstack, 1, n - 1)
    BY <1>1, <2>1, <2>3, TopTyped DEF Top, Front
  <2>5. \A i \in n .. Len(cstack) : i = n BY <2>1, <2>4
  <2>6. Ends(n, r) BY <2>4, <2>5 DEF Ends
  <2>7. \A i \in n + 1 .. Len(cstack) : ~Switches(cstack[i]) BY <2>1, <2>4
  <2>8. status'[r.th] = "yield" /\ \A co \in Co : co # r.th => status'[co] = status[co]
    BY <1>1, <2>2, <2>3 DEF Typed, Thread
  <2>9. "suspended" = Away(status'[r.th], fresh'[r.th]) BY <2>8 DEF Away
  <2>10. Started' /\ r.th \in Co /\ C!Stop(r.th, "suspended")
    BY <1>1, <2>2, <2>6, <2>7, <2>8, <2>9, CoroutineStops
  <2> QED BY <2>10 DEF C!Next
<1> QED BY <1>2, <1>3

LEMMA NextStep == IInv /\ IInv' /\ Started /\ [Next]_vars => Started' /\ [C!Next]_C!vars
<1> SUFFICES ASSUME IInv, IInv', Started, [Next]_vars PROVE Started' /\ [C!Next]_C!vars
    OBVIOUS
<1>1. \A th \in Thread : Len(ci[th]) \in Nat
  BY LenProperties DEF IInv, Typed, CallInfos
<1>2. cstack # <<>> => L \in Thread BY TopTyped DEF IInv
<1>3. CASE CallLua BY <1>3, StackStays DEF CallLua
<1>4. CASE CallMeta
  <2>1. /\ LuaDCall(Activation("meta", L, None, Len(ci[L]), FALSE), ci) /\ cstack # <<>>
        /\ UNCHANGED <<status, fresh>>
    BY <1>4 DEF CallMeta, Runs
  <2> QED BY <1>1, <1>2, <2>1, CallStep
<1>5. CASE JavaPCall
  <2>1. Started' /\ C!Enter BY <1>5, JavaPCallStep
  <2> QED BY <2>1 DEF C!Next
<1>6. CASE Error BY <1>6, StackStays DEF Error
<1>7. CASE ErrorMsg
  <2>1. CASE errfunc[L] = "function"
    <3>1. /\ LuaDCall(Activation("handler", L, None, Len(ci[L]), FALSE), ci)
          /\ UNCHANGED <<status, fresh>>
      BY <1>7, <2>1 DEF ErrorMsg
    <3>2. cstack # <<>> BY <1>7 DEF ErrorMsg, IInv, Stopped
    <3> QED BY <1>1, <1>2, <3>1, <3>2, CallStep
  <2>2. CASE errfunc[L] # "function"
    <3>1. UNCHANGED <<cstack, status, fresh>> BY <1>7, <2>2 DEF ErrorMsg
    <3> QED BY <3>1, StackStays
  <2> QED BY <2>1, <2>2
<1>8. CASE Return BY <1>8, ReturnStep
<1>9. CASE Throw BY <1>9, ThrowStep
<1>10. CASE Yield BY <1>10, YieldStep
<1>11. ASSUME NEW handler \in Handler, PCall(handler) PROVE Started' /\ [C!Next]_C!vars
  <2>1. /\ LuaDCall(Activation("pcall", L, None, Len(ci[L]) + 1, FALSE), PushFrame(L, "C"))
        /\ UNCHANGED <<status, fresh>> /\ cstack # <<>>
    BY <1>11 DEF PCall, Runs
  <2>2. Len(ci[L]) + 1 \in Nat BY <1>1, <1>2, <2>1
  <2> QED BY <2>1, <2>2, CallStep
<1>12. ASSUME NEW co \in Co, Create(co) PROVE Started' /\ [C!Next]_C!vars
  <2>1. Started' /\ C!Create(co) BY <1>12, CreateStep
  <2> QED BY <2>1 DEF C!Next
<1>13. ASSUME NEW co \in Co, NEW wrap \in BOOLEAN, Resume(co, wrap)
       PROVE Started' /\ [C!Next]_C!vars
  BY <1>13, ResumeStep
<1>14. CASE UNCHANGED vars BY <1>14, StackStays DEF vars
<1> QED BY <1>3, <1>4, <1>5, <1>6, <1>7, <1>8, <1>9, <1>10, <1>11, <1>12, <1>13, <1>14 DEF Next

\* The VM implements coroutines (module Coroutine): control passes like a stack
\* of activations, and a coroutine is suspended, active or dead, and active at
\* most once, whatever errors, protected calls, callbacks from Java and limits do.
THEOREM ImplementsCoroutineCorrect == Spec => ImplementsCoroutine
<1>1. Init => Started /\ C!Init
  <2> SUFFICES ASSUME Init PROVE Started /\ C!Init OBVIOUS
  <2>1. IInv BY InitInv
  <2>2. Len(cstack) = 0 /\ \A th : Of(th) = {} BY DEF Init, Of
  <2>3. Chain = <<>>
    <3>1. IsChain(cstack, ChainTo) BY <2>1, ChainHere DEF IInv
    <3> QED BY <2>2, <3>1 DEF IsChain, Chain
  <2>4. \A co \in Co : CoStatus(co) = "none"
    BY ThreadAssumption DEF Init, CoStatus, Thread
  <2> QED BY <2>2, <2>3, <2>4 DEF Started, States, C!Init
<1>2. IInv /\ IInv' /\ Started /\ [Next]_vars => Started' /\ [C!Next]_C!vars BY NextStep
<1>3. Spec => []IInv BY Invariance
<1> QED BY <1>1, <1>2, <1>3, PTL DEF Spec, ImplementsCoroutine, C!Spec
=============================================================================
