--------------------------- MODULE LuaBridgeProofs ---------------------------
(***************************************************************************)
(* Proofs about LuaBridge, for any Java threads, objects, methods and      *)
(* arguments: who may run, what a script has looked up, and what one piece *)
(* of Java code does with its part of the stack.  Then, for at most one    *)
(* thread that uses LuaEngine, what lies on the stack of the main thread:  *)
(* every Java activation has a part of a frame to itself, and only the     *)
(* thread on top changes its part.                                         *)
(***************************************************************************)
EXTENDS LuaBridge, FiniteSetTheorems, SequenceTheorems, TLAPS

IsSeq(s) == \E S : s \in Seq(S)

\* The records that the actions build.
Looked == [u : Userdata, key : Names, stale : BOOLEAN]
Formed(a) ==
  /\ a.k = "java" => a = [k |-> "java", who |-> a.who, sync |-> a.sync, code |-> a.code,
                          nres |-> a.nres, top |-> a.top, did |-> a.did, meant |-> a.meant,
                          spilt |-> a.spilt, failed |-> a.failed, ret |-> a.ret]
  /\ a.k = "pcall" => a = [k |-> "pcall", frames |-> a.frames, nres |-> a.nres] /\ a.frames \in Nat
  /\ a.k = "script" => a = [k |-> "script", l |-> a.l, pend |-> a.pend] /\ a.pend \in Seq(Looked)

\* Activation b may stand on activation a.
Fits(a, b) ==
  \/ a.k = "java" /\ b.k = "pcall"
  \/ a.k = "pcall" /\ b.k = "script" /\ b.l = "main"
  \/ a.k = "script" /\ b.k = "resume" /\ a.l = "main"
  \/ a.k = "resume" /\ b.k = "script" /\ b.l = "co"
  \/ a.k = "script" /\ b.k = "method" /\ b.l = a.l
  \/ a.k = "method" /\ b.k = "java"

Control(c) ==
  /\ IsSeq(c)
  /\ \A i \in 1 .. Len(c) : Formed(c[i])
  /\ Len(c) > 0 => c[1].k = "java"
  /\ \A i \in 2 .. Len(c) : Fits(c[i - 1], c[i])

Awake(c) == Len(c) > 0 => c[Len(c)].k \in {"java", "script", "method"}

\* What a script has looked up is still what it would call, and a method that
\* runs is the one it meant; cl is what the metatables remember.
Honest(a, cl) ==
  /\ a.k = "script" => \A x \in 1 .. Len(a.pend) :
       ~a.pend[x].stale => cl[a.pend[x].u] = a.pend[x].key
  /\ a.k = "method" /\ a.l = "main" /\ ~a.stale => a.name = a.asked /\ a.args = a.given

Good(c, cl) == Control(c) /\ Awake(c) /\ \A i \in 1 .. Len(c) : Honest(c[i], cl)

Stacks(s) == DOMAIN s = LuaThread /\ s = [l \in LuaThread |-> s[l]] /\ IsSeq(s["main"])

Typed ==
  /\ Stacks(stack)
  /\ called = [u \in Userdata |-> called[u]]
  /\ ctl = [t \in Thread |-> ctl[t]]

Exclusive == \A s, t \in Thread : Holds(s) /\ Holds(t) => s = t

\* Only natives of the same thread changed the environment since.
EnvInv == \A t \in Thread : Len(ctl[t]) > 1 => env = t

Calls == /\ Typed /\ Exclusive /\ EnvInv
         /\ \A t \in Thread : Good(ctl[t], called)
-----------------------------------------------------------------------------
(* Sequences.                                                              *)

LEMMA SeqFacts ==
  ASSUME NEW s, IsSeq(s)
  PROVE  Len(s) \in Nat /\ DOMAIN s = 1 .. Len(s) /\ (s = <<>> <=> Len(s) = 0)
<1>1. PICK S : s \in Seq(S) BY DEF IsSeq
<1> QED BY <1>1, LenProperties, EmptySeq

LEMMA AppendFacts ==
  ASSUME NEW s, IsSeq(s), NEW v
  PROVE  /\ IsSeq(Append(s, v)) /\ Len(Append(s, v)) = Len(s) + 1
         /\ \A i \in 1 .. Len(s) : Append(s, v)[i] = s[i]
         /\ Append(s, v)[Len(s) + 1] = v
<1>1. PICK S : s \in Seq(S) BY DEF IsSeq
<1>2. s \in Seq(S \cup {v}) /\ v \in S \cup {v}
  <2>1. \A i \in 1 .. Len(s) : s[i] \in S \cup {v} BY <1>1, ElementOfSeq
  <2>2. Len(s) \in Nat /\ DOMAIN s = 1 .. Len(s) BY <1>1, LenProperties
  <2> QED BY <1>1, <2>1, <2>2
<1>3. /\ Append(s, v) \in Seq(S \cup {v}) /\ Len(Append(s, v)) = Len(s) + 1
      /\ \A i \in 1 .. Len(s) : Append(s, v)[i] = s[i]
      /\ Append(s, v)[Len(s) + 1] = v
  BY ONLY <1>2, AppendProperties
<1> QED BY <1>3 DEF IsSeq

\* The beginning of anything is a sequence.
LEMMA CutFacts ==
  ASSUME NEW s, NEW m \in Int
  PROVE  /\ IsSeq(SubSeq(s, 1, m)) /\ Len(SubSeq(s, 1, m)) = (IF m >= 1 THEN m ELSE 0)
         /\ \A i \in 1 .. m : SubSeq(s, 1, m)[i] = s[i]
<1> DEFINE S == {s[i] : i \in 1 .. m}
<1>1. \A i \in 1 .. m : s[i] \in S OBVIOUS
<1>2. m \in Int /\ 1 \in Int /\ m - 1 + 1 = m OBVIOUS
<1>3. /\ SubSeq(s, 1, m) \in Seq(S)
      /\ Len(SubSeq(s, 1, m)) = IF 1 <= m THEN m - 1 + 1 ELSE 0
      /\ \A i \in 1 .. m - 1 + 1 : SubSeq(s, 1, m)[i] = s[1 + i - 1]
  <2> HIDE DEF S
  <2> QED BY ONLY <1>1, <1>2, SubSeqProperties
<1>4. \A i \in 1 .. m : 1 + i - 1 = i OBVIOUS
<1>5. IsSeq(SubSeq(s, 1, m)) BY <1>3 DEF IsSeq
<1> QED BY <1>2, <1>3, <1>4, <1>5

\* Two sequences with the same elements are equal.
LEMMA SameSeq ==
  ASSUME NEW s, NEW r, IsSeq(s), IsSeq(r), Len(s) = Len(r), \A i \in 1 .. Len(s) : s[i] = r[i]
  PROVE  s = r
<1>1. PICK S : s \in Seq(S) BY DEF IsSeq
<1>2. PICK R : r \in Seq(R) BY DEF IsSeq
<1>3. s \in Seq(S \cup R) /\ r \in Seq(S \cup R)
  <2>1. \A i \in 1 .. Len(s) : s[i] \in S \cup R BY <1>1, ElementOfSeq
  <2>2. \A i \in 1 .. Len(r) : r[i] \in S \cup R BY <1>2, ElementOfSeq
  <2>3. Len(s) \in Nat /\ DOMAIN s = 1 .. Len(s) /\ DOMAIN r = 1 .. Len(r)
    BY <1>1, <1>2, LenProperties
  <2> QED BY <1>1, <1>2, <2>1, <2>2, <2>3
<1> QED BY <1>3, SeqEqual

LEMMA FrontOfAppend ==
  ASSUME NEW s, IsSeq(s), NEW v
  PROVE  Front(Append(s, v)) = s /\ Last(Append(s, v)) = v
<1> DEFINE r == Append(s, v)
<1>1. /\ Len(s) \in Nat /\ IsSeq(r) /\ Len(r) = Len(s) + 1
      /\ \A i \in 1 .. Len(s) : r[i] = s[i]
      /\ r[Len(s) + 1] = v
  BY SeqFacts, AppendFacts
<1>2. Len(r) - 1 = Len(s) /\ Front(r) = SubSeq(r, 1, Len(s)) BY <1>1 DEF Front
<1>3. IsSeq(Front(r)) /\ Len(Front(r)) = Len(s) /\ \A i \in 1 .. Len(s) : Front(r)[i] = r[i]
  BY <1>1, <1>2, CutFacts
<1>4. \A i \in 1 .. Len(Front(r)) : Front(r)[i] = s[i] BY <1>1, <1>3
<1>5. Front(r) = s BY <1>3, <1>4, SameSeq
<1>6. r[Len(r)] = v BY <1>1
<1>7. Last(r) = v BY <1>6 DEF Last
<1> QED BY <1>5, <1>7

\* Replacing the last element.
LEMMA RetopFacts ==
  ASSUME NEW s, IsSeq(s), Len(s) > 0, NEW v
  PROVE  /\ IsSeq(Append(Front(s), v)) /\ Len(Append(Front(s), v)) = Len(s)
         /\ \A i \in 1 .. Len(s) - 1 : Append(Front(s), v)[i] = s[i]
         /\ Append(Front(s), v)[Len(s)] = v
<1>1. Len(s) \in Nat /\ Len(s) - 1 \in Int BY SeqFacts
<1>2. /\ IsSeq(Front(s)) /\ Len(Front(s)) = Len(s) - 1
      /\ \A i \in 1 .. Len(s) - 1 : Front(s)[i] = s[i]
  <2>1. Front(s) = SubSeq(s, 1, Len(s) - 1) BY DEF Front
  <2>2. (IF Len(s) - 1 >= 1 THEN Len(s) - 1 ELSE 0) = Len(s) - 1 BY <1>1
  <2> QED BY <1>1, <2>1, <2>2, CutFacts
<1>3. /\ IsSeq(Append(Front(s), v)) /\ Len(Append(Front(s), v)) = Len(Front(s)) + 1
      /\ \A i \in 1 .. Len(Front(s)) : Append(Front(s), v)[i] = Front(s)[i]
      /\ Append(Front(s), v)[Len(Front(s)) + 1] = v
  BY <1>2, AppendFacts
<1> QED BY <1>1, <1>2, <1>3

\* Pushing one element or two by concatenation.
LEMMA CatFacts ==
  ASSUME NEW s, IsSeq(s), NEW v, NEW w
  PROVE  s \o <<v>> = Append(s, v) /\ s \o <<v, w>> = Append(Append(s, v), w)
<1>1. PICK S : s \in Seq(S) BY DEF IsSeq
<1> DEFINE T == S \cup {v, w}
<1>2. s \in Seq(T) /\ v \in T /\ w \in T
  <2>1. \A i \in 1 .. Len(s) : s[i] \in T BY <1>1, ElementOfSeq
  <2>2. Len(s) \in Nat /\ DOMAIN s = 1 .. Len(s) BY <1>1, LenProperties
  <2> QED BY <1>1, <2>1, <2>2
<1> HIDE DEF T
<1>3. Append(s, v) \in Seq(T) /\ Append(Append(s, v), w) \in Seq(T) BY <1>2, AppendProperties
<1>4. s \o <<v>> = Append(s, v) BY <1>2, AppendIsConcat
<1>5. Append(Append(s, v), w) = Append(s, v) \o <<w>> BY <1>2, <1>3, AppendIsConcat
<1>6. (s \o <<v>>) \o <<w>> = s \o (<<v>> \o <<w>>)
  <2>1. <<v>> \in Seq(T) /\ <<w>> \in Seq(T)
    <3>1. Append(<<>>, v) = <<v>> /\ Append(<<>>, w) = <<w>> OBVIOUS
    <3>2. <<>> \in Seq(T) BY EmptySeq
    <3> QED BY <1>2, <3>1, <3>2, AppendProperties
  <2> QED BY <1>2, <2>1, ConcatAssociative
<1>7. <<v>> \o <<w>> = <<v, w>>
  <2>1. <<v>> \in Seq({v, w}) /\ <<w>> \in Seq({v, w}) /\ <<v, w>> \in Seq({v, w}) OBVIOUS
  <2>2. /\ <<v>> \o <<w>> \in Seq({v, w})
        /\ Len(<<v>> \o <<w>>) = Len(<<v>>) + Len(<<w>>)
        /\ \A i \in 1 .. Len(<<v>>) + Len(<<w>>) :
             (<<v>> \o <<w>>)[i] = IF i <= Len(<<v>>) THEN <<v>>[i] ELSE <<w>>[i - Len(<<v>>)]
    BY ONLY <2>1, ConcatProperties
  <2>3. Len(<<v>>) = 1 /\ Len(<<w>>) = 1 /\ Len(<<v, w>>) = 2 OBVIOUS
  <2>4. /\ (<<v>> \o <<w>>)[1] = v /\ (<<v>> \o <<w>>)[2] = w
        /\ <<v, w>>[1] = v /\ <<v, w>>[2] = w
    BY <2>2, <2>3
  <2>5. Len(<<v>> \o <<w>>) = Len(<<v, w>>) BY <2>2, <2>3
  <2>6. \A i \in 1 .. Len(<<v>> \o <<w>>) : (<<v>> \o <<w>>)[i] = <<v, w>>[i]
    BY <2>3, <2>4, <2>5
  <2> QED BY ONLY <2>1, <2>2, <2>5, <2>6, SeqEqual
<1> QED BY <1>4, <1>5, <1>6, <1>7
-----------------------------------------------------------------------------
(* How the activations of a thread change.                                 *)

\* b takes the place of a: what other activations see of it is the same.
Alike(a, b) ==
  /\ Formed(b) /\ b.k = a.k
  /\ a.k \in {"script", "method"} => b.l = a.l
  /\ a.k = "pcall" => b.frames = a.frames

\* A thread without activations.
LEMMA NoneGood == ASSUME NEW cl PROVE Good(<<>>, cl)
<1>1. IsSeq(<<>>) /\ Len(<<>>) = 0 BY EmptySeq DEF IsSeq
<1> QED BY <1>1 DEF Good, Control, Awake

\* A call is made.
LEMMA AppendControl ==
  ASSUME NEW c, Control(c), NEW b, Formed(b),
         IF Len(c) = 0 THEN b.k = "java" ELSE Fits(c[Len(c)], b)
  PROVE  Control(Append(c, b))
<1> DEFINE d == Append(c, b)
<1>1. Len(c) \in Nat BY SeqFacts DEF Control
<1>2. /\ IsSeq(d) /\ Len(d) = Len(c) + 1
      /\ \A i \in 1 .. Len(c) : d[i] = c[i]
      /\ d[Len(c) + 1] = b
  BY AppendFacts DEF Control
<1> HIDE DEF d
<1>3. \A i \in 1 .. Len(d) : i = Len(c) + 1 \/ i \in 1 .. Len(c) BY <1>1, <1>2
<1>4. \A i \in 1 .. Len(d) : Formed(d[i]) BY <1>2, <1>3 DEF Control
<1>5. d[1].k = "java"
  <2>1. CASE Len(c) = 0 BY <1>2, <2>1
  <2>2. CASE Len(c) # 0 BY <1>1, <1>2, <2>2 DEF Control
  <2> QED BY <2>1, <2>2
<1>6. ASSUME NEW i \in 2 .. Len(d) PROVE Fits(d[i - 1], d[i])
  <2>1. CASE i = Len(c) + 1
    <3>1. i - 1 = Len(c) /\ Len(c) \in 1 .. Len(c) /\ Len(c) # 0 BY <1>1, <1>2, <2>1
    <3> QED BY <1>2, <2>1, <3>1
  <2>2. CASE i # Len(c) + 1
    <3>1. i \in 2 .. Len(c) /\ i \in 1 .. Len(c) /\ i - 1 \in 1 .. Len(c) BY <1>1, <1>2, <2>2
    <3> QED BY <1>2, <3>1 DEF Control
  <2> QED BY <2>1, <2>2
<1>7. Control(d) BY <1>2, <1>4, <1>5, <1>6 DEF Control
<1> QED BY <1>7 DEF d

\* Calls end, with or without an error.
LEMMA CutControl ==
  ASSUME NEW c, Control(c), NEW m \in 0 .. Len(c)
  PROVE  /\ Control(SubSeq(c, 1, m)) /\ Len(SubSeq(c, 1, m)) = m
         /\ \A i \in 1 .. m : SubSeq(c, 1, m)[i] = c[i]
<1> DEFINE d == SubSeq(c, 1, m)
<1>1. Len(c) \in Nat /\ m \in Int BY SeqFacts DEF Control
<1>2. IsSeq(d) /\ Len(d) = m /\ \A i \in 1 .. m : d[i] = c[i] BY <1>1, CutFacts
<1> HIDE DEF d
<1>3. \A i \in 1 .. m : i \in 1 .. Len(c) BY <1>1
<1>4. \A i \in 2 .. m : i \in 2 .. Len(c) /\ i \in 1 .. m /\ i - 1 \in 1 .. m BY <1>1
<1>5. m > 0 => 1 \in 1 .. m /\ Len(c) > 0 BY <1>1
<1>6. Control(d) BY <1>2, <1>3, <1>4, <1>5 DEF Control
<1> QED BY <1>2, <1>6 DEF d

\* Activations change in place.
LEMMA AlikeControl ==
  ASSUME NEW c, Control(c), NEW d, IsSeq(d), Len(d) = Len(c),
         \A i \in 1 .. Len(c) : Alike(c[i], d[i])
  PROVE  Control(d)
<1>1. Len(c) \in Nat BY SeqFacts DEF Control
<1>2. \A i \in 1 .. Len(c) : Formed(d[i]) BY DEF Alike
<1>3. Len(c) > 0 => d[1].k = "java" BY <1>1 DEF Control, Alike
<1>4. ASSUME NEW i \in 2 .. Len(c) PROVE Fits(d[i - 1], d[i])
  <2>1. i - 1 \in 1 .. Len(c) /\ i \in 1 .. Len(c) BY <1>1
  <2>2. Fits(c[i - 1], c[i]) BY DEF Control
  <2>3. Alike(c[i - 1], d[i - 1]) /\ Alike(c[i], d[i]) BY <2>1
  <2> QED BY <2>2, <2>3 DEF Fits, Alike
<1> QED BY <1>2, <1>3, <1>4 DEF Control

\* The top activation changes.
LEMMA RetopControl ==
  ASSUME NEW c, Control(c), Len(c) > 0, NEW b, Alike(c[Len(c)], b)
  PROVE  /\ Control(Append(Front(c), b)) /\ Len(Append(Front(c), b)) = Len(c)
         /\ \A i \in 1 .. Len(c) - 1 : Append(Front(c), b)[i] = c[i]
         /\ Append(Front(c), b)[Len(c)] = b
<1> DEFINE d == Append(Front(c), b)
<1>1. Len(c) \in Nat /\ IsSeq(c) BY SeqFacts DEF Control
<1>2. /\ IsSeq(d) /\ Len(d) = Len(c)
      /\ \A i \in 1 .. Len(c) - 1 : d[i] = c[i]
      /\ d[Len(c)] = b
  BY <1>1, RetopFacts
<1> HIDE DEF d
<1>3. ASSUME NEW i \in 1 .. Len(c) PROVE Alike(c[i], d[i])
  <2>1. CASE i = Len(c) BY <1>2, <2>1
  <2>2. CASE i # Len(c)
    <3>1. i \in 1 .. Len(c) - 1 BY <1>1, <2>2
    <3>2. d[i] = c[i] BY <1>2, <3>1
    <3> QED BY <3>2 DEF Control, Alike
  <2> QED BY <2>1, <2>2
<1>4. Control(d) BY <1>1, <1>2, <1>3, AlikeControl
<1> QED BY <1>2, <1>4 DEF d

\* The last activations of a thread whose script runs: a method is on it, and
\* it is in a pcall or a coroutine.
LEMMA ScriptBase ==
  ASSUME NEW c, Control(c), Len(c) > 0, c[Len(c)].k = "script"
  PROVE  /\ Len(c) \in Nat /\ Len(c) >= 3
         /\ c[Len(c) - 1].k \in {"pcall", "resume"}
         /\ c[Len(c) - 1].k = "pcall" => c[Len(c) - 2].k = "java" /\ c[Len(c)].l = "main"
         /\ c[Len(c) - 1].k = "resume" => c[Len(c) - 2].k = "script" /\ c[Len(c) - 2].l = "main"
                                            /\ c[Len(c)].l = "co"
<1>1. Len(c) \in Nat /\ c[1].k = "java" BY SeqFacts DEF Control
<1>2. Len(c) # 1 BY <1>1
<1>3. Len(c) \in 2 .. Len(c) BY <1>1, <1>2
<1>4. Fits(c[Len(c) - 1], c[Len(c)]) BY <1>3 DEF Control
<1>5. c[Len(c) - 1].k \in {"pcall", "resume"} BY <1>4 DEF Fits
<1>6. Len(c) # 2 BY <1>1, <1>5
<1>n. \A n \in Nat : n > 0 /\ n # 1 /\ n # 2 => n - 1 \in 2 .. n /\ n - 1 - 1 = n - 2 /\ n >= 3
  OBVIOUS
<1>7. Len(c) - 1 \in 2 .. Len(c) /\ Len(c) - 1 - 1 = Len(c) - 2 /\ Len(c) >= 3
  BY <1>1, <1>2, <1>6, <1>n
<1>8. Fits(c[Len(c) - 2], c[Len(c) - 1]) BY <1>7 DEF Control
<1> QED BY <1>1, <1>4, <1>5, <1>7, <1>8 DEF Fits

LEMMA MethodBase ==
  ASSUME NEW c, Control(c), Len(c) > 0, c[Len(c)].k = "method"
  PROVE  /\ Len(c) \in Nat /\ Len(c) >= 4
         /\ c[Len(c) - 1].k = "script" /\ c[Len(c)].l = c[Len(c) - 1].l
<1>1. Len(c) \in Nat /\ c[1].k = "java" BY SeqFacts DEF Control
<1>2. Len(c) \in 2 .. Len(c) BY <1>1
<1>3. Fits(c[Len(c) - 1], c[Len(c)]) BY <1>2 DEF Control
<1>4. c[Len(c) - 1].k = "script" /\ c[Len(c)].l = c[Len(c) - 1].l BY <1>3 DEF Fits
<1>5. Len(c) - 1 \in 0 .. Len(c) BY <1>1, <1>2
<1>6. PICK d : Control(d) /\ Len(d) = Len(c) - 1 /\ d[Len(c) - 1] = c[Len(c) - 1]
  <2>1. Len(c) - 1 \in 1 .. Len(c) - 1 BY <1>1, <1>2
  <2> QED BY <1>5, <2>1, CutControl
<1>7. Len(d) > 0 /\ d[Len(d)].k = "script" BY <1>1, <1>2, <1>4, <1>6
<1>8. Len(d) >= 3 BY <1>6, <1>7, ScriptBase
<1> QED BY <1>1, <1>4, <1>6, <1>8

LEMMA JavaBase ==
  ASSUME NEW c, Control(c), Len(c) > 1, c[Len(c)].k = "java"
  PROVE  Len(c) \in Nat /\ c[Len(c) - 1].k = "method"
<1>1. Len(c) \in Nat BY SeqFacts DEF Control
<1>2. Len(c) \in 2 .. Len(c) BY <1>1
<1>3. Fits(c[Len(c) - 1], c[Len(c)]) BY <1>2 DEF Control
<1> QED BY <1>1, <1>3 DEF Fits
-----------------------------------------------------------------------------
(* Who holds the monitor.                                                  *)

HoldsMonitor(c) == \E i \in 1 .. Len(c) : c[i].k # "java" \/ c[i].sync

LEMMA HoldsIs ==
  ASSUME NEW t \in Thread, Control(ctl[t])
  PROVE  Holds(t) <=> HoldsMonitor(ctl[t])
<1>1. DOMAIN ctl[t] = 1 .. Len(ctl[t]) BY SeqFacts DEF Control
<1> QED BY <1>1 DEF Holds, HoldsMonitor

\* A thread that is in more than Java code has the monitor.
LEMMA DeepHolds ==
  ASSUME NEW c, Control(c), Len(c) > 1
  PROVE  HoldsMonitor(c)
<1>1. Len(c) \in Nat BY SeqFacts DEF Control
<1>2. 2 \in 2 .. Len(c) /\ 2 \in 1 .. Len(c) /\ 2 - 1 = 1 BY <1>1
<1>3. Fits(c[1], c[2]) /\ c[1].k = "java" BY <1>1, <1>2 DEF Control
<1>4. c[2].k # "java" BY <1>3 DEF Fits
<1> QED BY <1>2, <1>4 DEF HoldsMonitor

\* A step of thread t keeps the first invariant if it leaves its own
\* activations in order and no one else's monitor is touched.
LEMMA StepKeeps ==
  ASSUME Calls, NEW t \in Thread, Typed',
         Holds(t) \/ CanEnter(t),
         \A s \in Thread : Good(ctl'[s], called'),
         \A s \in Thread \ {t} : HoldsMonitor(ctl'[s]) => HoldsMonitor(ctl[s]),
         env' = t \/ (env' = env /\ (Len(ctl'[t]) > 1 => Len(ctl[t]) > 1))
  PROVE  Calls'
<1>1. \A s \in Thread : /\ Control(ctl[s]) /\ Control(ctl'[s])
                        /\ Holds(s) <=> HoldsMonitor(ctl[s])
  BY HoldsIs DEF Calls, Good
<1>2. \A s \in Thread : Holds(s)' <=> HoldsMonitor(ctl'[s])
  <2>1. \A s \in Thread : DOMAIN ctl'[s] = 1 .. Len(ctl'[s]) BY <1>1, SeqFacts DEF Control
  <2> QED BY <2>1 DEF Holds, HoldsMonitor
<1>3. \A s \in Thread \ {t} : ~HoldsMonitor(ctl'[s])
  BY <1>1 DEF Calls, Exclusive, CanEnter
<1>4. Exclusive' BY <1>2, <1>3 DEF Exclusive
<1>5. \A s \in Thread \ {t} : ~(Len(ctl'[s]) > 1) BY <1>1, <1>3, DeepHolds
<1>6. EnvInv' BY <1>5 DEF EnvInv, Calls
<1>7. \A s \in Thread : Good(ctl[s], called)' BY DEF Good, Control, Awake, Honest
<1> QED BY <1>4, <1>6, <1>7 DEF Calls

\* The same, when only t's own activations change.
LEMMA OwnStep ==
  ASSUME Calls, NEW t \in Thread, Holds(t) \/ CanEnter(t),
         Stacks(stack'),
         called' = [u \in Userdata |-> called'[u]], called' = called \/ Holds(t),
         NEW d, ctl' = [ctl EXCEPT ![t] = d], Good(d, called'),
         env' = t \/ (env' = env /\ (Len(d) > 1 => Len(ctl[t]) > 1))
  PROVE  Calls'
<1>1. ctl' = [s \in Thread |-> ctl'[s]] /\ ctl'[t] = d /\ \A s \in Thread \ {t} : ctl'[s] = ctl[s]
  <2>1. DOMAIN ctl = Thread BY DEF Calls, Typed
  <2> QED BY <2>1
<1>2. Typed' BY <1>1 DEF Typed, Stacks
<1>3. ASSUME NEW s \in Thread, called' # called, s # t PROVE Good(ctl[s], called')
  <2>1. Good(ctl[s], called) /\ Good(ctl[t], called) BY DEF Calls
  <2>2. Holds(t) BY <1>3
  <2>3. ~Holds(s) BY <1>3, <2>2 DEF Calls, Exclusive
  <2>4. ~HoldsMonitor(ctl[s]) BY <2>1, <2>3, HoldsIs DEF Good
  <2>5. \A i \in 1 .. Len(ctl[s]) : ctl[s][i].k = "java" BY <2>4 DEF HoldsMonitor
  <2> QED BY <2>1, <2>5 DEF Good, Honest
<1>4. \A s \in Thread : Good(ctl'[s], called') BY <1>1, <1>3 DEF Calls
<1> QED BY <1>1, <1>2, <1>4, StepKeeps
-----------------------------------------------------------------------------
(* Every step keeps the first invariant.                                   *)

LEMMA StacksKept ==
  ASSUME NEW s, Stacks(s), NEW l \in LuaThread, NEW f
  PROVE  Stacks(SetFrame(s, l, f)) /\ Stacks(PushFrame(s, l, f)) /\ Stacks(PopFrame(s, l))
<1> DEFINE m == s["main"]
<1>1. IsSeq(m) /\ "main" \in LuaThread BY DEF Stacks, LuaThread
<1>2. IsSeq(Append(m, f)) BY <1>1, AppendFacts
<1>3. IsSeq(Front(m))
  <2>1. Len(m) - 1 \in Int BY <1>1, SeqFacts
  <2> QED BY <2>1, CutFacts DEF Front
<1>4. IsSeq(Append(Front(m), f)) BY <1>3, AppendFacts
<1>5. /\ SetFrame(s, l, f)["main"] = IF l = "main" THEN Append(Front(m), f) ELSE m
      /\ PushFrame(s, l, f)["main"] = IF l = "main" THEN Append(m, f) ELSE m
      /\ PopFrame(s, l)["main"] = IF l = "main" THEN Front(m) ELSE m
  BY <1>1 DEF Stacks, SetFrame, PushFrame, PopFrame
<1> QED BY <1>1, <1>2, <1>3, <1>4, <1>5 DEF Stacks, SetFrame, PushFrame, PopFrame

LEMMA InitCalls == Init => Calls
<1> SUFFICES ASSUME Init PROVE Calls OBVIOUS
<1>1. Stacks(stack)
  <2>1. << <<>> >> \in Seq({<<>>}) OBVIOUS
  <2> QED BY <2>1 DEF Init, Stacks, LuaThread, IsSeq
<1>2. Typed BY <1>1 DEF Typed, Init
<1>3. \A t \in Thread : ctl[t] = <<>> /\ Len(ctl[t]) = 0 /\ DOMAIN ctl[t] = {}
  BY DEF Init
<1>4. Exclusive BY <1>3 DEF Exclusive, Holds
<1>5. EnvInv BY <1>3 DEF EnvInv
<1>6. \A t \in Thread : Good(ctl[t], called) BY <1>3, NoneGood
<1> QED BY <1>2, <1>4, <1>5, <1>6 DEF Calls

\* What is known of a busy thread.
LEMMA BusyFacts ==
  ASSUME Calls, NEW t \in Thread, Busy(t)
  PROVE  /\ Control(ctl[t]) /\ Len(ctl[t]) \in Nat /\ Len(ctl[t]) > 0
         /\ Top(t) = ctl[t][Len(ctl[t])] /\ Formed(Top(t))
         /\ Honest(Top(t), called)
         /\ Top(t).k # "java" => Holds(t) /\ Len(ctl[t]) > 1 /\ env = t
<1> DEFINE c == ctl[t]
<1>1. Good(c, called) /\ Control(c) BY DEF Calls, Good
<1>2. Len(c) \in Nat /\ Len(c) > 0 BY <1>1, SeqFacts DEF Busy, Control
<1>3. Top(t) = c[Len(c)] /\ Len(c) \in 1 .. Len(c) BY <1>2 DEF Top, Last
<1>4. Formed(Top(t)) /\ Honest(Top(t), called) BY <1>1, <1>3 DEF Good, Control
<1>5. ASSUME Top(t).k # "java" PROVE Holds(t) /\ Len(c) > 1 /\ env = t
  <2>1. Len(c) # 1 BY <1>1, <1>3, <1>5 DEF Control
  <2>n. \A n \in Nat : n > 0 /\ n # 1 => n > 1 OBVIOUS
  <2>2. Len(c) > 1 BY <1>2, <2>1, <2>n
  <2>3. HoldsMonitor(c) BY <1>1, <2>2, DeepHolds
  <2> QED BY <1>1, <2>2, <2>3, HoldsIs DEF Calls, EnvInv
<1> QED BY <1>1, <1>2, <1>3, <1>4, <1>5

\* The top activation changes in place.
LEMMA RetopGood ==
  ASSUME NEW c, NEW cl, Good(c, cl), Len(c) > 0, NEW b, Alike(c[Len(c)], b), Honest(b, cl)
  PROVE  Good(Append(Front(c), b), cl) /\ Len(Append(Front(c), b)) = Len(c)
<1> DEFINE d == Append(Front(c), b)
<1>1. Control(c) /\ Len(c) \in Nat BY SeqFacts DEF Good, Control
<1>2. /\ Control(d) /\ Len(d) = Len(c) /\ \A i \in 1 .. Len(c) - 1 : d[i] = c[i]
      /\ d[Len(c)] = b
  BY <1>1, RetopControl
<1> HIDE DEF d
<1>3. \A i \in 1 .. Len(c) : i = Len(c) \/ i \in 1 .. Len(c) - 1 BY <1>1
<1>4. \A i \in 1 .. Len(c) : Honest(d[i], cl) BY <1>2, <1>3 DEF Good
<1>5. Awake(d) BY <1>2 DEF Good, Awake, Alike
<1>6. Good(d, cl) /\ Len(d) = Len(c) BY <1>2, <1>4, <1>5 DEF Good
<1> QED BY <1>6 DEF d

\* An activation is added.
LEMMA AppendGood ==
  ASSUME NEW c, NEW cl, Control(c), \A i \in 1 .. Len(c) : Honest(c[i], cl),
         NEW b, Formed(b), Honest(b, cl), b.k \in {"java", "script", "method"},
         IF Len(c) = 0 THEN b.k = "java" ELSE Fits(c[Len(c)], b)
  PROVE  Good(Append(c, b), cl) /\ Len(Append(c, b)) = Len(c) + 1
<1> DEFINE d == Append(c, b)
<1>1. IsSeq(c) /\ Len(c) \in Nat BY SeqFacts DEF Control
<1>2. Len(d) = Len(c) + 1 /\ (\A i \in 1 .. Len(c) : d[i] = c[i]) /\ d[Len(c) + 1] = b
  BY <1>1, AppendFacts
<1>3. Control(d) BY AppendControl
<1> HIDE DEF d
<1>4. \A i \in 1 .. Len(d) : i = Len(c) + 1 \/ i \in 1 .. Len(c) BY <1>1, <1>2
<1>5. \A i \in 1 .. Len(d) : Honest(d[i], cl) BY <1>2, <1>4
<1>6. Good(d, cl) /\ Len(d) = Len(c) + 1 BY <1>2, <1>3, <1>5 DEF Good, Awake
<1> QED BY <1>6 DEF d

\* Two activations are added: a pcall or a resume with its script.
LEMMA AppendTwoGood ==
  ASSUME NEW c, NEW cl, Control(c), Len(c) > 0, \A i \in 1 .. Len(c) : Honest(c[i], cl),
         NEW a, Formed(a), Honest(a, cl), Fits(c[Len(c)], a),
         NEW b, Formed(b), Honest(b, cl), b.k = "script", Fits(a, b)
  PROVE  Good(c \o <<a, b>>, cl) /\ Len(c \o <<a, b>>) = Len(c) + 2
<1>0. IsSeq(c) /\ Len(c) \in Nat BY SeqFacts DEF Control
<1>1. c \o <<a, b>> = Append(Append(c, a), b) BY <1>0, CatFacts
<1>2. PICK d : d = Append(c, a) OBVIOUS
<1>3. Control(d) BY <1>0, <1>2, AppendControl
<1>4. Len(d) = Len(c) + 1 /\ (\A i \in 1 .. Len(c) : d[i] = c[i]) /\ d[Len(c) + 1] = a
  BY <1>0, <1>2, AppendFacts
<1>5. \A i \in 1 .. Len(d) : i = Len(c) + 1 \/ i \in 1 .. Len(c) BY <1>0, <1>4
<1>6. \A i \in 1 .. Len(d) : Honest(d[i], cl) BY <1>4, <1>5
<1>7. Len(d) # 0 /\ Fits(d[Len(d)], b) BY <1>0, <1>4
<1>8. Good(Append(d, b), cl) /\ Len(Append(d, b)) = Len(d) + 1 BY <1>3, <1>6, <1>7, AppendGood
<1>9. Len(d) + 1 = Len(c) + 2 BY <1>0, <1>4
<1> QED BY <1>1, <1>2, <1>8, <1>9

\* Activations end and the one below goes on.
LEMMA CutGood ==
  ASSUME NEW c, NEW cl, Good(c, cl), NEW m \in 0 .. Len(c),
         m > 0 => c[m].k \in {"java", "script", "method"}
  PROVE  Good(SubSeq(c, 1, m), cl) /\ Len(SubSeq(c, 1, m)) = m
         /\ \A i \in 1 .. m : SubSeq(c, 1, m)[i] = c[i]
<1> DEFINE d == SubSeq(c, 1, m)
<1>1. Control(c) /\ Len(c) \in Nat BY SeqFacts DEF Good, Control
<1>2. Control(d) /\ Len(d) = m /\ \A i \in 1 .. m : d[i] = c[i] BY <1>1, CutControl
<1> HIDE DEF d
<1>3. \A i \in 1 .. m : i \in 1 .. Len(c) BY <1>1
<1>4. Good(d, cl) BY <1>2, <1>3 DEF Good, Awake
<1> QED BY <1>2, <1>4 DEF d

\* Java code and natives that change the top activation, the stack and env.
LEMMA RetopStep ==
  ASSUME Calls, NEW t \in Thread, InJava(t), CanEnter(t), NEW b, Alike(Top(t), b),
         ctl' = SetTop(t, b), NEW f, stack' = SetFrame(stack, "main", f),
         called' = called, env' = t
  PROVE  Calls'
<1>1. Busy(t) /\ Top(t).k = "java" BY DEF InJava
<1>2. /\ Len(ctl[t]) \in Nat /\ Len(ctl[t]) > 0 /\ Top(t) = ctl[t][Len(ctl[t])]
  BY <1>1, BusyFacts
<1>3. Good(ctl[t], called) BY DEF Calls
<1>4. Honest(b, called) BY <1>1 DEF Honest, Alike
<1>5. PICK d : d = Append(Front(ctl[t]), b) OBVIOUS
<1>6. Good(d, called) BY <1>2, <1>3, <1>4, <1>5, RetopGood
<1>7. ctl' = [ctl EXCEPT ![t] = d] BY <1>5 DEF SetTop
<1>8. Stacks(stack') BY StacksKept DEF Calls, Typed, LuaThread
<1>9. called' = [u \in Userdata |-> called'[u]] BY DEF Calls, Typed
<1>10. Good(d, called') BY <1>6
<1> QED BY <1>7, <1>8, <1>9, <1>10, OwnStep

\* The calls from Java.
LEMMA EngineCallIs ==
  ASSUME NEW a \in EngineCalls
  PROVE  \/ \E fn, v : a = Java("global", FALSE, ExecuteGlobalFunction(fn, <<v>>), 0)
         \/ a = Java("eval", FALSE, EvalLua("chunk"), 0)
         \/ a = Java("trace", FALSE, PrintStackTrace, 0)
         \/ a = Java("path", FALSE, AddSearchPath, 0)
         \/ a = Java("loader", FALSE, AddLuaLoader, 0)
         \/ \E nres \in {0, 1} : a = Java("file", FALSE, ExecuteScriptFile(nres), nres)
         \/ \E m, f, v : a = Java("module", FALSE, ExecuteModuleFunction(m, f, <<v>>), 0)
<1>1. CASE \E f : a \in GlobalCall(f) BY <1>1 DEF GlobalCall
<1>2. CASE \E m : a \in ModuleCall(m) BY <1>2 DEF ModuleCall
<1>3. CASE a \in {Java("file", FALSE, ExecuteScriptFile(nres), nres) : nres \in {0, 1}} BY <1>3
<1>4. CASE a \in {Java("eval", FALSE, EvalLua("chunk"), 0), Java("trace", FALSE, PrintStackTrace, 0),
                 Java("path", FALSE, AddSearchPath, 0), Java("loader", FALSE, AddLuaLoader, 0)}
  BY <1>4
<1> DEFINE A == UNION {GlobalCall(f) : f \in GlobalValues("go")}
           B == UNION {ModuleCall(m) : m \in GlobalValues("Mod")}
           C == {Java("eval", FALSE, EvalLua("chunk"), 0), Java("trace", FALSE, PrintStackTrace, 0),
                 Java("path", FALSE, AddSearchPath, 0), Java("loader", FALSE, AddLuaLoader, 0)}
           D == {Java("file", FALSE, ExecuteScriptFile(nres), nres) : nres \in {0, 1}}
<1>5. EngineCalls = A \cup B \cup C \cup D BY Zenon DEF EngineCalls
<1> HIDE DEF A, B, C, D
<1>7. a \in A \/ a \in B \/ a \in C \/ a \in D BY <1>5
<1>8. a \in A => \E f : a \in GlobalCall(f) BY DEF A
<1>9. a \in B => \E m : a \in ModuleCall(m) BY DEF B
<1> QED BY <1>1, <1>2, <1>3, <1>4, <1>7, <1>8, <1>9 DEF C, D

LEMMA InvokeIs ==
  ASSUME NEW a \in Invoke
  PROVE  \/ \E v : \E nres \in {0, 1} :
              a = Java("call", TRUE, NewLuaObject(Table("proxied"), "callback") \o Check(Function("callback"))
                         \o LuaObjectCall(Function("callback"), <<v>>, nres), nres)
         \/ \E p : a = Java("call", TRUE, NewLuaObject(p, "callback") \o Check(Nil), 0)
<1>1. CASE \E nres \in {0, 1} : a \in InvokeFor(TRUE, nres) BY <1>1 DEF InvokeFor
<1>2. CASE a \notin InvokeFor(TRUE, 0) \cup InvokeFor(TRUE, 1) BY <1>2 DEF Invoke, InvokeOn
<1> QED BY <1>1, <1>2

LEMMA CallsFormed ==
  ASSUME NEW a \in EngineCalls \cup Invoke \cup CallOf(0) \cup CallOf(1)
                     \cup {Java("register", TRUE, Register("print"), 0)}
  PROVE  Formed(a) /\ a.k = "java"
<1>1. \E who, sync, code, nres : a = Java(who, sync, code, nres)
  <2>1. CASE a \in EngineCalls
    <3>1. ASSUME NEW fn, NEW v, a = Java("global", FALSE, ExecuteGlobalFunction(fn, <<v>>), 0)
          PROVE  \E who, sync, code, nres : a = Java(who, sync, code, nres)
      BY ONLY <3>1
    <3>2. ASSUME NEW m, NEW f, NEW v, a = Java("module", FALSE, ExecuteModuleFunction(m, f, <<v>>), 0)
          PROVE  \E who, sync, code, nres : a = Java(who, sync, code, nres)
      BY ONLY <3>2
    <3>3. ASSUME NEW nres, a = Java("file", FALSE, ExecuteScriptFile(nres), nres)
          PROVE  \E who, sync, code, n : a = Java(who, sync, code, n)
      BY ONLY <3>3
    <3>4. ASSUME NEW who, NEW code, a = Java(who, FALSE, code, 0)
          PROVE  \E x, sync, c, n : a = Java(x, sync, c, n)
      BY ONLY <3>4
    <3> QED BY <2>1, <3>1, <3>2, <3>3, <3>4, EngineCallIs
  <2>2. CASE a \in Invoke
    <3>1. ASSUME NEW v, NEW nres, a = Java("call", TRUE,
                       NewLuaObject(Table("proxied"), "callback") \o Check(Function("callback"))
                         \o LuaObjectCall(Function("callback"), <<v>>, nres), nres)
          PROVE  \E who, sync, code, n : a = Java(who, sync, code, n)
      BY ONLY <3>1
    <3>2. ASSUME NEW p, a = Java("call", TRUE, NewLuaObject(p, "callback") \o Check(Nil), 0)
          PROVE  \E who, sync, code, n : a = Java(who, sync, code, n)
      BY ONLY <3>2
    <3> QED BY <2>2, <3>1, <3>2, InvokeIs
  <2>3. CASE a \in CallOf(0) BY <2>3 DEF CallOf
  <2>4. CASE a \in CallOf(1) BY <2>4 DEF CallOf
  <2> QED BY <2>1, <2>2, <2>3, <2>4
<1>2. PICK who, sync, code, nres : a = Java(who, sync, code, nres) BY <1>1
<1> QED BY <1>2 DEF Java, Formed

\* Java code starts, called from nowhere or from a method.
LEMMA StartStep ==
  ASSUME Calls, NEW t \in Thread, (~Busy(t) /\ CanEnter(t)) \/ InMethod(t),
         NEW a, Formed(a), a.k = "java",
         ctl' = Push(t, <<a>>), UNCHANGED <<stack, called, env>>
  PROVE  Calls'
<1> DEFINE c == ctl[t]
<1>1. Good(c, called) /\ Control(c) /\ IsSeq(c) /\ Len(c) \in Nat
  BY SeqFacts DEF Calls, Good, Control
<1>2. IF Len(c) = 0 THEN a.k = "java" ELSE Fits(c[Len(c)], a)
  <2>1. CASE ~Busy(t) BY <2>1, SeqFacts, <1>1 DEF Busy
  <2>2. CASE InMethod(t) BY <2>2, BusyFacts DEF InMethod, Fits
  <2> QED BY <2>1, <2>2
<1>3. Honest(a, called) BY DEF Honest
<1>4. PICK d : d = Append(c, a) OBVIOUS
<1>5. Good(d, called) /\ Len(d) = Len(c) + 1 BY <1>1, <1>2, <1>3, <1>4, AppendGood DEF Good
<1>6. ctl' = [ctl EXCEPT ![t] = d] BY <1>1, <1>4, CatFacts DEF Push
<1>7. /\ Holds(t) \/ CanEnter(t)
      /\ Len(d) > 1 => Len(ctl[t]) > 1
  <2>1. CASE ~Busy(t)
    <3>1. CanEnter(t) BY <2>1 DEF InMethod
    <3>2. Len(c) = 0 BY <1>1, <2>1, SeqFacts DEF Busy
    <3> QED BY <1>5, <3>1, <3>2
  <2>2. CASE InMethod(t)
    <3>1. Holds(t) /\ Len(c) > 1 BY <2>2, BusyFacts DEF InMethod
    <3> QED BY <3>1
  <2> QED BY <2>1, <2>2
<1>8. Stacks(stack') /\ called' = [u \in Userdata |-> called'[u]] /\ Good(d, called')
  BY <1>5 DEF Calls, Typed
<1> QED BY <1>6, <1>7, <1>8, OwnStep

LEMMA StartsCallCalls ==
  ASSUME Calls, NEW t \in Thread, StartsCall(t)
  PROVE  Calls'
<1>1. PICK a \in EngineCalls \cup Invoke \cup {Java("register", TRUE, Register("print"), 0)} :
        ctl' = Push(t, <<a>>)
  BY DEF StartsCall
<1>2. Formed(a) /\ a.k = "java" BY <1>1, CallsFormed
<1> QED BY <1>1, <1>2, StartStep DEF StartsCall

LEMMA MethodCallsCalls ==
  ASSUME Calls, NEW t \in Thread, MethodCalls(t)
  PROVE  Calls'
<1>1. PICK a \in EngineCalls \cup Invoke \cup CallOf(0) \cup CallOf(1) : ctl' = Push(t, <<a>>)
  BY DEF MethodCalls
<1>2. Formed(a) /\ a.k = "java" BY <1>1, CallsFormed
<1> QED BY <1>1, <1>2, StartStep DEF MethodCalls

LEMMA NativeCalls ==
  ASSUME Calls, NEW t \in Thread, Native(t)
  PROVE  Calls'
<1> DEFINE a == Top(t)
<1>1. Busy(t) /\ a.k = "java" /\ Formed(a) BY BusyFacts DEF Native, InJava
<1>2. PICK b : b = [a EXCEPT !.code = Tail(@)] OBVIOUS
<1>3. Alike(a, b) BY <1>1, <1>2 DEF Formed, Alike
<1>4. PICK f : f = Apply(Here, Head(a.code)) OBVIOUS
<1>5. /\ stack' = SetFrame(stack, "main", f) /\ ctl' = SetTop(t, b)
      /\ InJava(t) /\ CanEnter(t) /\ called' = called /\ env' = t
  BY <1>2, <1>4 DEF Native, PushJNIEnv
<1> QED BY <1>3, <1>5, RetopStep

LEMMA LoadFailsCalls ==
  ASSUME Calls, NEW t \in Thread, LoadFails(t)
  PROVE  Calls'
<1> DEFINE a == Top(t)
<1>1. Busy(t) /\ a.k = "java" /\ Formed(a) BY BusyFacts DEF LoadFails, InJava
<1>2. PICK b : b = [a EXCEPT !.failed = TRUE] OBVIOUS
<1>3. Alike(a, b) BY <1>1, <1>2 DEF Formed, Alike
<1>4. PICK f : f = Append(Here, Message) OBVIOUS
<1>5. /\ stack' = SetFrame(stack, "main", f) /\ ctl' = SetTop(t, b)
      /\ InJava(t) /\ CanEnter(t) /\ called' = called /\ env' = t
  BY <1>2, <1>4 DEF LoadFails, PushJNIEnv
<1> QED BY <1>3, <1>5, RetopStep

LEMMA NativePCallCalls ==
  ASSUME Calls, NEW t \in Thread, NativePCall(t)
  PROVE  Calls'
<1> DEFINE a == Top(t)
           c == ctl[t]
           op == Head(a.code)
           k == Len(Here) - Len(op.args)
           fn == IF k >= 1 THEN Here[k] ELSE Nil
           bb == [a EXCEPT !.code = Tail(@), !.meant = <<op.fn>> \o op.args,
                           !.did = IF k >= 1 THEN SubSeq(Here, k, Len(Here)) ELSE <<>>]
           below == SubSeq(Here, 1, IF k >= 1 THEN k - 1 ELSE 0)
           pc == [k |-> "pcall", frames |-> Len(stack["main"]), nres |-> op.n]
<1>0. /\ Busy(t) /\ a.k = "java" /\ Formed(a) /\ Control(c) /\ Len(c) \in Nat /\ Len(c) > 0
      /\ a = c[Len(c)] /\ Good(c, called)
  BY BusyFacts DEF NativePCall, InJava, Calls
<1>1. PICK b : b = bb OBVIOUS
<1>2. /\ InJava(t) /\ CanEnter(t) /\ called' = called /\ env' = t
      /\ IF fn.t = "function"
         THEN /\ ctl' = [ctl EXCEPT ![t] = Append(Front(@), b) \o <<pc, Script("main")>>]
              /\ stack' = SetFrame(stack, "main", below)
         ELSE /\ ctl' = SetTop(t, [b EXCEPT !.failed = TRUE])
              /\ stack' = SetFrame(stack, "main", Append(below, Message))
  BY <1>1 DEF NativePCall, PushJNIEnv
<1>3. Alike(a, b) /\ Formed(b) /\ b.k = "java" BY <1>0, <1>1 DEF Formed, Alike
<1>4. CASE fn.t = "function"
  <2>1. PICK d : d = Append(Front(c), b) OBVIOUS
  <2>2. Good(d, called) /\ Len(d) = Len(c)
    <3>1. Honest(b, called) BY <1>3 DEF Honest
    <3> QED BY <1>0, <1>3, <2>1, <3>1, RetopGood
  <2>3. d[Len(d)] = b BY <1>0, <1>3, <2>1, <2>2, RetopControl
  <2>4. Len(stack["main"]) \in Nat BY SeqFacts DEF Calls, Typed, Stacks
  <2>5. Formed(pc) /\ Honest(pc, called) /\ Fits(b, pc) BY <1>3, <2>4 DEF Formed, Honest, Fits
  <2>6. Formed(Script("main")) /\ Honest(Script("main"), called) /\ Fits(pc, Script("main"))
        /\ Script("main").k = "script"
    <3>1. <<>> \in Seq(Looked) /\ Len(<<>>) = 0 BY EmptySeq
    <3> QED BY <3>1 DEF Formed, Honest, Fits, Script
  <2>7. PICK p, s : p = pc /\ s = Script("main") OBVIOUS
  <2>8. PICK e : e = d \o <<p, s>> OBVIOUS
  <2>9. Good(e, called)
    <3>1. Control(d) /\ Len(d) > 0 /\ \A i \in 1 .. Len(d) : Honest(d[i], called)
      BY <1>0, <2>2 DEF Good
    <3>2. Formed(p) /\ Honest(p, called) /\ Fits(d[Len(d)], p)
          /\ Formed(s) /\ Honest(s, called) /\ s.k = "script" /\ Fits(p, s)
      BY <2>3, <2>5, <2>6, <2>7
    <3> QED BY <2>8, <3>1, <3>2, AppendTwoGood
  <2>10. ctl' = [ctl EXCEPT ![t] = e] BY <1>2, <1>4, <2>1, <2>7, <2>8
  <2>11. Stacks(stack')
    <3>1. PICK f : f = below OBVIOUS
    <3>2. stack' = SetFrame(stack, "main", f) BY <1>2, <1>4, <3>1
    <3> QED BY <3>2, StacksKept DEF Calls, Typed, LuaThread
  <2>12. called' = [u \in Userdata |-> called'[u]] BY <1>2 DEF Calls, Typed
  <2>13. Good(e, called') BY <1>2, <2>9
  <2> QED BY <1>2, <2>10, <2>11, <2>12, <2>13, OwnStep
<1>5. CASE fn.t # "function"
  <2>1. PICK b2 : b2 = [b EXCEPT !.failed = TRUE] OBVIOUS
  <2>2. Alike(a, b2) BY <1>0, <1>3, <2>1 DEF Formed, Alike
  <2>3. PICK f : f = Append(below, Message) OBVIOUS
  <2> HIDE DEF a, c, op, k, fn, bb, below, pc
  <2>4. ctl' = SetTop(t, b2) /\ stack' = SetFrame(stack, "main", f) BY <1>2, <1>5, <2>1, <2>3
  <2>5. Alike(Top(t), b2) BY <2>2 DEF a
  <2> QED BY <1>2, <2>4, <2>5, RetopStep
<1> QED BY <1>4, <1>5

LEMMA NativeDoFileCalls ==
  ASSUME Calls, NEW t \in Thread, NativeDoFile(t)
  PROVE  Calls'
<1> DEFINE a == Top(t)
           c == ctl[t]
           pc == [k |-> "pcall", frames |-> Len(stack["main"]), nres |-> Head(a.code).n]
<1>0. /\ Busy(t) /\ a.k = "java" /\ Formed(a) /\ Control(c) /\ Len(c) \in Nat /\ Len(c) > 0
      /\ a = c[Len(c)] /\ Good(c, called)
  BY BusyFacts DEF NativeDoFile, InJava, Calls
<1>1. PICK b : b = [a EXCEPT !.code = Tail(@)] OBVIOUS
<1>2. PICK p, s : p = pc /\ s = Script("main") OBVIOUS
<1>3. /\ CanEnter(t) /\ called' = called /\ env' = t /\ stack' = stack
      /\ ctl' = [ctl EXCEPT ![t] = Append(Front(@), b) \o <<p, s>>]
  BY <1>1, <1>2 DEF NativeDoFile, PushJNIEnv
<1>4. Alike(a, b) /\ Formed(b) /\ b.k = "java" BY <1>0, <1>1 DEF Formed, Alike
<1>5. PICK d : d = Append(Front(c), b) OBVIOUS
<1>6. Good(d, called) /\ Len(d) = Len(c) /\ d[Len(d)] = b
  <2>1. Honest(b, called) BY <1>4 DEF Honest
  <2>2. Good(d, called) /\ Len(d) = Len(c) BY <1>0, <1>4, <1>5, <2>1, RetopGood
  <2> QED BY <1>0, <1>4, <1>5, <2>2, RetopControl
<1>7. Formed(p) /\ Honest(p, called) /\ Fits(b, p)
  <2>1. Len(stack["main"]) \in Nat BY SeqFacts DEF Calls, Typed, Stacks
  <2> QED BY <1>2, <1>4, <2>1 DEF Formed, Honest, Fits
<1>8. Formed(s) /\ Honest(s, called) /\ Fits(p, s) /\ s.k = "script"
  <2>1. <<>> \in Seq(Looked) /\ Len(<<>>) = 0 BY EmptySeq
  <2> QED BY <1>2, <2>1 DEF Formed, Honest, Fits, Script
<1>9. PICK e : e = d \o <<p, s>> OBVIOUS
<1>10. Good(e, called)
  <2>1. Control(d) /\ Len(d) > 0 /\ \A i \in 1 .. Len(d) : Honest(d[i], called)
    BY <1>0, <1>6 DEF Good
  <2>2. Fits(d[Len(d)], p) BY <1>6, <1>7
  <2> QED BY <1>7, <1>8, <1>9, <2>1, <2>2, AppendTwoGood
<1>11. ctl' = [ctl EXCEPT ![t] = e] BY <1>3, <1>5, <1>9
<1>12. Stacks(stack') BY <1>3 DEF Calls, Typed, Stacks
<1>13. called' = [u \in Userdata |-> called'[u]] BY <1>3 DEF Calls, Typed
<1>14. Good(e, called') BY <1>3, <1>10
<1> QED BY <1>3, <1>11, <1>12, <1>13, <1>14, OwnStep

LEMMA JavaEndsCalls ==
  ASSUME Calls, NEW t \in Thread, JavaEnds(t)
  PROVE  Calls'
<1> DEFINE c == ctl[t]
<1>1. /\ Busy(t) /\ Top(t).k = "java" /\ Control(c) /\ Len(c) \in Nat /\ Len(c) > 0
      /\ Top(t) = c[Len(c)] /\ Good(c, called)
  BY BusyFacts DEF JavaEnds, InJava, Calls
<1>2. PICK d : d = SubSeq(c, 1, Len(c) - 1) OBVIOUS
<1>3. Good(d, called) /\ Len(d) = Len(c) - 1
  <2>1. Len(c) - 1 \in 0 .. Len(c) BY <1>1
  <2>2. Len(c) - 1 > 0 => c[Len(c) - 1].k = "method" BY <1>1, JavaBase
  <2> QED BY <1>1, <1>2, <2>1, <2>2, CutGood
<1>4. ctl' = [ctl EXCEPT ![t] = d] BY <1>2 DEF JavaEnds, Drop
<1>5. PICK f : stack' = SetFrame(stack, "main", f) BY DEF JavaEnds
<1>6. Stacks(stack') BY <1>5, StacksKept DEF Calls, Typed, LuaThread
<1>7. called' = called /\ env' = env /\ CanEnter(t) BY DEF JavaEnds
<1>8. called' = [u \in Userdata |-> called'[u]] BY <1>7 DEF Calls, Typed
<1>9. Good(d, called') BY <1>3, <1>7
<1>10. Len(d) > 1 => Len(ctl[t]) > 1 BY <1>1, <1>3
<1> QED BY <1>4, <1>6, <1>7, <1>8, <1>9, <1>10, OwnStep

LEMMA JavaFailsCalls ==
  ASSUME Calls, NEW t \in Thread, JavaFails(t)
  PROVE  Calls'
<1> DEFINE c == ctl[t]
           spills(s) == Append(Front(ctl[s]), [Top(s) EXCEPT !.spilt = TRUE])
<1>1. /\ Busy(t) /\ Top(t).k = "java" /\ Control(c) /\ Len(c) \in Nat /\ Len(c) > 0
      /\ Top(t) = c[Len(c)] /\ Good(c, called) /\ CanEnter(t)
      /\ called' = called /\ env' = env
  BY BusyFacts DEF JavaFails, InJava, Calls
<1>2. /\ ctl'[t] = Front(c) /\ ctl' = [s \in Thread |-> ctl'[s]]
      /\ \A s \in Thread \ {t} : ctl'[s] = ctl[s] \/ (InJava(s) /\ ctl'[s] = spills(s))
  BY DEF JavaFails
<1>3. Good(ctl'[t], called) /\ Len(ctl'[t]) = Len(c) - 1
  <2>1. Len(c) - 1 \in 0 .. Len(c) BY <1>1
  <2>2. Len(c) - 1 > 0 => c[Len(c) - 1].k = "method" BY <1>1, JavaBase
  <2>3. Front(c) = SubSeq(c, 1, Len(c) - 1) BY DEF Front
  <2> QED BY <1>1, <1>2, <2>1, <2>2, <2>3, CutGood
<1>4. ASSUME NEW s \in Thread \ {t}
      PROVE  Good(ctl'[s], called) /\ (HoldsMonitor(ctl'[s]) => HoldsMonitor(ctl[s]))
  <2>1. CASE ctl'[s] = ctl[s] BY <2>1 DEF Calls
  <2>2. CASE InJava(s) /\ ctl'[s] = spills(s)
    <3>1. /\ Busy(s) /\ Top(s).k = "java" /\ Formed(Top(s)) /\ Top(s) = ctl[s][Len(ctl[s])]
          /\ Len(ctl[s]) > 0 /\ Len(ctl[s]) \in Nat /\ Control(ctl[s])
      BY <2>2, BusyFacts DEF InJava
    <3>2. PICK b : b = [Top(s) EXCEPT !.spilt = TRUE] OBVIOUS
    <3>3. Alike(Top(s), b) /\ b.k = "java" /\ b.sync = Top(s).sync BY <3>1, <3>2 DEF Formed, Alike
    <3>4. Honest(b, called) BY <3>3 DEF Honest
    <3>5. PICK d : d = Append(Front(ctl[s]), b) OBVIOUS
    <3>6. Good(ctl[s], called) BY DEF Calls
    <3>7. Good(d, called) BY <3>1, <3>3, <3>4, <3>5, <3>6, RetopGood
    <3>8. /\ Len(d) = Len(ctl[s]) /\ d[Len(ctl[s])] = b
          /\ \A i \in 1 .. Len(ctl[s]) - 1 : d[i] = ctl[s][i]
      <4>1. PICK x : x = ctl[s] OBVIOUS
      <4>2. Control(x) /\ Len(x) > 0 /\ Alike(x[Len(x)], b) BY <3>1, <3>3, <4>1
      <4>3. d = Append(Front(x), b) BY <3>5, <4>1
      <4>4. Len(d) = Len(x) /\ d[Len(x)] = b /\ \A i \in 1 .. Len(x) - 1 : d[i] = x[i]
        BY <4>2, <4>3, RetopControl
      <4> QED BY <4>1, <4>4
    <3>9. HoldsMonitor(d) => HoldsMonitor(ctl[s])
      <4>1. ASSUME NEW i \in 1 .. Len(d), d[i].k # "java" \/ d[i].sync
            PROVE  ctl[s][i].k # "java" \/ ctl[s][i].sync
        <5>1. CASE i = Len(ctl[s]) BY <3>1, <3>3, <3>8, <4>1, <5>1
        <5>2. CASE i # Len(ctl[s])
          <6>1. i \in 1 .. Len(ctl[s]) - 1 BY <3>1, <3>8, <5>2
          <6> QED BY <3>8, <4>1, <6>1
        <5> QED BY <5>1, <5>2
      <4> QED BY <3>8, <4>1 DEF HoldsMonitor
    <3>10. ctl'[s] = d BY <2>2, <3>2, <3>5
    <3> QED BY <3>7, <3>9, <3>10
  <2> QED BY <1>2, <2>1, <2>2
<1>5. PICK f : stack' = SetFrame(stack, "main", f) BY DEF JavaFails
<1>6. Stacks(stack') BY <1>5, StacksKept DEF Calls, Typed, LuaThread
<1>7. Typed' BY <1>1, <1>2, <1>6 DEF Calls, Typed, Stacks
<1>8. \A s \in Thread : Good(ctl'[s], called') BY <1>1, <1>3, <1>4
<1>9. Len(ctl'[t]) > 1 => Len(ctl[t]) > 1 BY <1>1, <1>3
<1> QED BY <1>1, <1>4, <1>7, <1>8, <1>9, StepKeeps

\* An error ends the script on top of c, and the pcall or resume it is in.
LEMMA FailCalls ==
  ASSUME Calls, NEW t \in Thread, Holds(t), Len(ctl[t]) > 1,
         NEW c, Control(c), Len(c) > 0, c[Len(c)].k = "script",
         \A i \in 1 .. Len(c) : Honest(c[i], called),
         NEW s, Stacks(s), NEW e, Fail(t, c, s, e), called' = called, env' = env
  PROVE  Calls'
<1> DEFINE catch == c[Len(c) - 1]
<1>1. PICK below : below = SubSeq(c, 1, Len(c) - 2) OBVIOUS
<1>2. /\ Len(c) \in Nat /\ Len(c) >= 3 /\ catch.k \in {"pcall", "resume"}
      /\ catch.k = "pcall" => c[Len(c) - 2].k = "java"
      /\ catch.k = "resume" => c[Len(c) - 2].k = "script"
  BY ScriptBase
<1>n. \A n \in Nat : n >= 3 =>
        /\ n - 2 \in 0 .. n /\ n - 2 > 0 /\ n - 2 \in 1 .. n /\ n - 1 \in 1 .. n
        /\ n - 2 \in 1 .. n - 2
  OBVIOUS
<1>3. Good(c, called) BY <1>2 DEF Good, Awake
<1>4. /\ Good(below, called) /\ Len(below) = Len(c) - 2
      /\ below[Len(below)] = c[Len(c) - 2] /\ Len(below) > 0
  BY <1>1, <1>2, <1>3, <1>n, CutGood
<1>5. called' = [u \in Userdata |-> called'[u]] BY DEF Calls, Typed
<1>6. CASE catch.k = "pcall"
  <2>1. PICK b : b = [Last(below) EXCEPT !.failed = TRUE] OBVIOUS
  <2>2. Last(below) = c[Len(c) - 2] /\ Formed(Last(below)) BY <1>2, <1>4, <1>n DEF Last, Control
  <2>3. Alike(Last(below), b) /\ b.k = "java"
    <3>1. PICK j : j = Last(below) OBVIOUS
    <3>2. Formed(j) /\ j.k = "java" /\ b = [j EXCEPT !.failed = TRUE] BY <1>2, <1>6, <2>1, <2>2, <3>1
    <3>3. Alike(j, b) /\ b.k = "java" BY <3>2 DEF Formed, Alike
    <3> QED BY <3>1, <3>3
  <2>4. Honest(b, called) BY <2>3 DEF Honest
  <2>5. PICK d : d = Append(Front(below), b) OBVIOUS
  <2>6. Good(d, called) BY <1>4, <2>2, <2>3, <2>4, <2>5, RetopGood
  <2>7. ctl' = [ctl EXCEPT ![t] = d]
    <3>1. ctl' = [ctl EXCEPT ![t] = Append(Front(SubSeq(c, 1, Len(c) - 2)),
                                            [Last(SubSeq(c, 1, Len(c) - 2)) EXCEPT !.failed = TRUE])]
      BY <1>6 DEF Fail
    <3> QED BY <1>1, <2>1, <2>5, <3>1
  <2>8. Stacks(stack')
    <3>1. stack' = [s EXCEPT !["main"] =
                      Append(SubSeq(@, 1, catch.frames - 1), Append(@[catch.frames], e))]
      BY <1>6 DEF Fail
    <3>2. catch.frames - 1 \in Int
      <4>1. Formed(catch) BY <1>2, <1>n DEF Control
      <4>2. catch.frames \in Nat BY <1>6, <4>1 DEF Formed
      <4> QED BY <4>2
    <3>3. IsSeq(Append(SubSeq(s["main"], 1, catch.frames - 1), Append(s["main"][catch.frames], e)))
      BY <3>2, CutFacts, AppendFacts
    <3> QED BY <3>1, <3>3 DEF Stacks, LuaThread
  <2> QED BY <1>5, <2>6, <2>7, <2>8, OwnStep
<1>7. CASE catch.k = "resume"
  <2>1. ctl' = [ctl EXCEPT ![t] = below]
    <3>1. catch.k # "pcall" BY <1>7
    <3>2. ctl' = [ctl EXCEPT ![t] = SubSeq(c, 1, Len(c) - 2)] BY <3>1 DEF Fail
    <3> QED BY <1>1, <3>2
  <2>2. Stacks(stack')
    <3>1. stack' = [s EXCEPT !["main"] = Front(@), !["co"] = <<>>]
      <4>1. catch.k # "pcall" BY <1>7
      <4> QED BY <4>1 DEF Fail
    <3>2. IsSeq(Front(s["main"]))
      <4>1. Len(s["main"]) - 1 \in Int BY SeqFacts DEF Stacks
      <4> QED BY <4>1, CutFacts DEF Front
    <3> QED BY <3>1, <3>2 DEF Stacks, LuaThread
  <2> QED BY <1>4, <1>5, <2>1, <2>2, OwnStep
<1> QED BY <1>2, <1>6, <1>7

LEMMA ScriptFailsCalls ==
  ASSUME Calls, NEW t \in Thread, ScriptFails(t)
  PROVE  Calls'
<1>1. /\ Control(ctl[t]) /\ Len(ctl[t]) > 0 /\ ctl[t][Len(ctl[t])].k = "script"
      /\ Holds(t) /\ Len(ctl[t]) > 1
  BY BusyFacts DEF ScriptFails, InScript
<1>2. PICK e : Fail(t, ctl[t], stack, e) BY DEF ScriptFails
<1>3. /\ \A i \in 1 .. Len(ctl[t]) : Honest(ctl[t][i], called)
      /\ Stacks(stack) /\ called' = called /\ env' = env
  BY DEF Calls, Good, Typed, ScriptFails
<1>4. PICK c, s : c = ctl[t] /\ s = stack OBVIOUS
<1> QED BY <1>1, <1>2, <1>3, <1>4, FailCalls

LEMMA MethodThrowsCalls ==
  ASSUME Calls, NEW t \in Thread, MethodThrows(t)
  PROVE  Calls'
<1> DEFINE f == ctl[t]
<1>1. /\ Control(f) /\ Len(f) > 0 /\ f[Len(f)].k = "method" /\ Top(t) = f[Len(f)]
      /\ Holds(t) /\ Len(f) > 1
  BY BusyFacts DEF MethodThrows, InMethod
<1>2. PICK c : c = Front(f) OBVIOUS
<1>3. PICK s : s = PopFrame(stack, Top(t).l) OBVIOUS
<1>4. /\ Len(f) \in Nat /\ Len(f) >= 4 /\ f[Len(f) - 1].k = "script" /\ Formed(f[Len(f) - 1])
      /\ f[Len(f) - 1].l = Top(t).l /\ Good(f, called)
  <2>1. Len(f) \in Nat /\ Len(f) >= 4 /\ f[Len(f) - 1].k = "script" /\ f[Len(f) - 1].l = f[Len(f)].l
    BY <1>1, MethodBase
  <2>2. Len(f) - 1 \in 1 .. Len(f) BY <2>1
  <2>3. Formed(f[Len(f) - 1]) BY <1>1, <2>2 DEF Control
  <2> QED BY <1>1, <2>1, <2>3 DEF Calls
<1>5. Good(c, called) /\ Len(c) = Len(f) - 1 /\ c[Len(c)] = f[Len(f) - 1]
  <2>1. Len(f) - 1 \in 0 .. Len(f) /\ Len(f) - 1 \in 1 .. Len(f) - 1 BY <1>4
  <2>2. c = SubSeq(f, 1, Len(f) - 1) BY <1>2 DEF Front
  <2> QED BY <1>4, <2>1, <2>2, CutGood
<1>6. Top(t).l \in LuaThread
  <2>1. Control(c) /\ Len(c) > 0 /\ c[Len(c)].k = "script" BY <1>4, <1>5 DEF Good
  <2> QED BY <1>4, <1>5, <2>1, ScriptBase DEF LuaThread
<1>7. Stacks(s) BY <1>3, <1>6, StacksKept DEF Calls, Typed
<1>8. Fail(t, c, s, Message) /\ called' = called /\ env' = env
  BY <1>2, <1>3 DEF MethodThrows
<1>9. /\ Control(c) /\ Len(c) > 0 /\ c[Len(c)].k = "script"
      /\ \A i \in 1 .. Len(c) : Honest(c[i], called)
  BY <1>4, <1>5 DEF Good
<1>10. PICK e : e = Message OBVIOUS
<1> QED BY <1>1, <1>7, <1>8, <1>9, <1>10, FailCalls

\* What is known of a thread whose script runs.
LEMMA ScriptFacts ==
  ASSUME Calls, NEW t \in Thread, InScript(t)
  PROVE  /\ Good(ctl[t], called) /\ Control(ctl[t]) /\ Len(ctl[t]) \in Nat /\ Len(ctl[t]) >= 3
         /\ Top(t) = ctl[t][Len(ctl[t])] /\ Top(t).k = "script" /\ Top(t).l \in LuaThread
         /\ Formed(Top(t)) /\ Honest(Top(t), called)
         /\ Holds(t) /\ Stacks(stack) /\ called = [u \in Userdata |-> called[u]]
<1>1. /\ Control(ctl[t]) /\ Len(ctl[t]) > 0 /\ Top(t) = ctl[t][Len(ctl[t])]
      /\ Top(t).k = "script" /\ Formed(Top(t)) /\ Honest(Top(t), called) /\ Holds(t)
  BY BusyFacts DEF InScript
<1>2. Len(ctl[t]) \in Nat /\ Len(ctl[t]) >= 3 /\ Top(t).l \in LuaThread
  BY <1>1, ScriptBase DEF LuaThread
<1> QED BY <1>1, <1>2 DEF Calls, Typed

LEMMA ScriptReturnsCalls ==
  ASSUME Calls, NEW t \in Thread, ScriptReturns(t)
  PROVE  Calls'
<1> DEFINE c == ctl[t]
           catch == c[Len(c) - 1]
<1>1. /\ InScript(t) /\ Good(c, called) /\ Control(c) /\ Len(c) \in Nat /\ Len(c) >= 3 /\ Len(c) > 0
      /\ c[Len(c)].k = "script" /\ Holds(t) /\ Stacks(stack) /\ called = [u \in Userdata |-> called[u]]
  BY ScriptFacts DEF ScriptReturns
<1>2. /\ catch.k \in {"pcall", "resume"}
      /\ catch.k = "pcall" => c[Len(c) - 2].k = "java"
      /\ catch.k = "resume" => c[Len(c) - 2].k = "script"
  BY <1>1, ScriptBase
<1>n. \A n \in Nat : n >= 3 =>
        n - 2 \in 0 .. n /\ n - 2 > 0 /\ n - 2 \in 1 .. n /\ n - 2 \in 1 .. n - 2 /\ n > 1
  OBVIOUS
<1>3. PICK below : below = SubSeq(c, 1, Len(c) - 2) OBVIOUS
<1>4. /\ Good(below, called) /\ Len(below) = Len(c) - 2
      /\ below[Len(below)] = c[Len(c) - 2] /\ Len(below) > 0
  BY <1>1, <1>2, <1>3, <1>n, CutGood
<1>5. called' = called /\ env' = env BY DEF ScriptReturns
<1>6. CASE catch.k = "pcall"
  <2>1. PICK v \in Result :
          /\ ctl' = [ctl EXCEPT ![t] = Append(Front(SubSeq(c, 1, Len(c) - 2)),
                                              [Last(SubSeq(c, 1, Len(c) - 2)) EXCEPT !.ret = v])]
          /\ stack' = stack \/ stack' = SetFrame(stack, "main", Append(Here, v))
    BY <1>6 DEF ScriptReturns
  <2>2. PICK j : j = Last(below) OBVIOUS
  <2>3. PICK b : b = [j EXCEPT !.ret = v] OBVIOUS
  <2>4. j = c[Len(c) - 2] /\ Formed(j) /\ j.k = "java" BY <1>1, <1>2, <1>4, <1>6, <1>n, <2>2 DEF Last, Control
  <2>5. Alike(j, b) /\ b.k = "java" BY <2>3, <2>4 DEF Formed, Alike
  <2>6. Honest(b, called) BY <2>5 DEF Honest
  <2>7. PICK d : d = Append(Front(below), b) OBVIOUS
  <2>8. Good(d, called) BY <1>4, <2>4, <2>5, <2>6, <2>7, RetopGood
  <2>9. ctl' = [ctl EXCEPT ![t] = d] BY <1>3, <2>1, <2>2, <2>3, <2>7
  <2>10. Stacks(stack')
    <3>1. PICK f : f = Append(Here, v) OBVIOUS
    <3> QED BY <1>1, <2>1, <3>1, StacksKept DEF LuaThread
  <2>11. Good(d, called') /\ called' = [u \in Userdata |-> called'[u]] BY <1>1, <1>5, <2>8
  <2> QED BY <1>1, <1>5, <1>n, <2>9, <2>10, <2>11, OwnStep
<1>7. CASE catch.k = "resume"
  <2>0. catch.k # "pcall" BY <1>7
  <2>1. ctl' = [ctl EXCEPT ![t] = SubSeq(c, 1, Len(c) - 2)] /\ stack' = PopFrame(stack, "main")
    BY <2>0 DEF ScriptReturns
  <2>2. Stacks(stack') BY <1>1, <2>1, StacksKept DEF LuaThread
  <2>3. ctl' = [ctl EXCEPT ![t] = below] BY <1>3, <2>1
  <2>4. Good(below, called') /\ called' = [u \in Userdata |-> called'[u]] BY <1>1, <1>4, <1>5
  <2> QED BY <1>1, <1>5, <1>n, <2>2, <2>3, <2>4, OwnStep
<1> QED BY <1>2, <1>6, <1>7

LEMMA ScriptResumesCalls ==
  ASSUME Calls, NEW t \in Thread, ScriptResumes(t)
  PROVE  Calls'
<1> DEFINE c == ctl[t]
<1>1. /\ InScript(t) /\ Good(c, called) /\ Control(c) /\ Len(c) \in Nat /\ Len(c) >= 3 /\ Len(c) > 0
      /\ Top(t) = c[Len(c)] /\ Top(t).k = "script" /\ Formed(Top(t)) /\ Honest(Top(t), called)
      /\ Holds(t) /\ Stacks(stack) /\ called = [u \in Userdata |-> called[u]]
  BY ScriptFacts DEF ScriptResumes
<1>2. /\ ctl' = [ctl EXCEPT ![t] = Append(Front(@), Top(t)) \o <<[k |-> "resume"], Script("co")>>]
      /\ stack' = PushFrame(stack, "main", <<Coroutine>>) /\ Top(t).l = "main"
      /\ called' = called /\ env' = env
  BY DEF ScriptResumes
<1>3. PICK b : b = Top(t) OBVIOUS
<1>4. PICK d : d = Append(Front(c), b) OBVIOUS
<1>5. Alike(c[Len(c)], b) BY <1>1, <1>3 DEF Alike
<1>6. Good(d, called) /\ Len(d) = Len(c) BY <1>1, <1>3, <1>4, <1>5, RetopGood
<1>7. d[Len(d)] = b BY <1>1, <1>4, <1>5, <1>6, RetopControl
<1>8. PICK p, s : p = [k |-> "resume"] /\ s = Script("co") OBVIOUS
<1>9. /\ Formed(p) /\ Honest(p, called) /\ Fits(b, p)
      /\ Formed(s) /\ Honest(s, called) /\ s.k = "script" /\ Fits(p, s)
  <2>1. <<>> \in Seq(Looked) /\ Len(<<>>) = 0 BY EmptySeq
  <2> QED BY <1>1, <1>2, <1>3, <1>8, <2>1 DEF Formed, Honest, Fits, Script
<1>10. PICK e : e = d \o <<p, s>> OBVIOUS
<1>11. Good(e, called)
  <2>1. Control(d) /\ Len(d) > 0 /\ \A i \in 1 .. Len(d) : Honest(d[i], called)
    BY <1>1, <1>6 DEF Good
  <2> QED BY <1>7, <1>9, <1>10, <2>1, AppendTwoGood
<1>12. ctl' = [ctl EXCEPT ![t] = e] BY <1>2, <1>3, <1>4, <1>8, <1>10
<1>13. Stacks(stack')
  <2>1. PICK f : f = <<Coroutine>> OBVIOUS
  <2>2. stack' = PushFrame(stack, "main", f) BY <1>2, <2>1
  <2> QED BY <1>1, <2>2, StacksKept DEF LuaThread
<1>14. Good(e, called') /\ called' = [u \in Userdata |-> called'[u]] BY <1>1, <1>2, <1>11
<1>15. Len(c) > 1 BY <1>1
<1> QED BY <1>1, <1>2, <1>12, <1>13, <1>14, <1>15, OwnStep

LEMMA PushedKeeps ==
  ASSUME Stacks(stack), NEW l \in LuaThread, NEW f, NEW v
  PROVE  Stacks(Pushed(l, f, v)) /\ Stacks(PopFrame(Pushed(l, f, v), l))
<1>1. PICK s : s = PushFrame(stack, l, f) OBVIOUS
<1>2. Stacks(s) BY <1>1, StacksKept
<1>3. PICK g : g = Append(Frame(s, "main"), v) OBVIOUS
<1>4. PICK r : r = SetFrame(s, "main", g) OBVIOUS
<1>5. r = Pushed(l, f, v) BY <1>1, <1>3, <1>4 DEF Pushed
<1>6. Stacks(r) BY <1>2, <1>4, StacksKept DEF LuaThread
<1>7. Stacks(PopFrame(r, l)) BY <1>6, StacksKept
<1> QED BY <1>5, <1>6, <1>7

\* A function on 1..n is a sequence.
LEMMA FunctionSeq ==
  ASSUME NEW n \in Nat, NEW S, NEW f \in [1 .. n -> S]
  PROVE  f \in Seq(S) /\ IsSeq(f) /\ Len(f) = n
<1>1. f \in Seq(S) /\ Len(f) = n OBVIOUS
<1> QED BY <1>1 DEF IsSeq

\* What looking up u.key does to what a script has looked up before.
Marked(p, u, key) == [p EXCEPT !.stale = @ \/ (p.u = u /\ p.key # key)]
AllMarked(ps, u, key) == [x \in DOMAIN ps |-> Marked(ps[x], u, key)]

LEMMA MarkedFacts ==
  ASSUME NEW ps \in Seq(Looked), NEW u \in Userdata, NEW key \in Names,
         NEW cl, cl = [x \in Userdata |-> cl[x]],
         \A x \in 1 .. Len(ps) : ~ps[x].stale =>
           cl[ps[x].u] = ps[x].key \/ (ps[x].u = u /\ ps[x].key = key)
  PROVE  /\ AllMarked(ps, u, key) \in Seq(Looked) /\ Len(AllMarked(ps, u, key)) = Len(ps)
         /\ \A x \in 1 .. Len(ps) : ~AllMarked(ps, u, key)[x].stale =>
              [cl EXCEPT ![u] = key][AllMarked(ps, u, key)[x].u] = AllMarked(ps, u, key)[x].key
<1> DEFINE m == AllMarked(ps, u, key)
<1>1. Len(ps) \in Nat /\ DOMAIN ps = 1 .. Len(ps) /\ \A x \in 1 .. Len(ps) : ps[x] \in Looked
  BY LenProperties, ElementOfSeq
<1>2. ASSUME NEW p \in Looked
      PROVE  /\ Marked(p, u, key) \in Looked
             /\ Marked(p, u, key).u = p.u /\ Marked(p, u, key).key = p.key
             /\ ~Marked(p, u, key).stale => ~p.stale /\ (p.u = u => p.key = key)
  BY DEF Marked, Looked
<1>3. m \in [1 .. Len(ps) -> Looked] /\ \A x \in 1 .. Len(ps) : m[x] = Marked(ps[x], u, key)
  BY <1>1, <1>2 DEF AllMarked
<1>4. m \in Seq(Looked) /\ Len(m) = Len(ps) BY <1>1, <1>3, FunctionSeq
<1>5. ASSUME NEW x \in 1 .. Len(ps), ~m[x].stale
      PROVE  [cl EXCEPT ![u] = key][m[x].u] = m[x].key
  <2>1. PICK p : p = ps[x] OBVIOUS
  <2>2. /\ p \in Looked /\ m[x].u = p.u /\ m[x].key = p.key
        /\ ~p.stale /\ (p.u = u => p.key = key)
    BY <1>1, <1>2, <1>3, <1>5, <2>1
  <2>3. cl[p.u] = p.key \/ (p.u = u /\ p.key = key) BY <2>1, <2>2
  <2>4. p.u \in Userdata BY <2>2 DEF Looked
  <2> QED BY <2>2, <2>3, <2>4
<1> QED BY <1>4, <1>5

\* A method or a field of a Java object is looked up.
LEMMA ObjectIndexCalls ==
  ASSUME Calls, NEW t \in Thread, InScript(t), NEW u \in Userdata, NEW key \in Names,
         ObjectIndex(t, u, key), env' = env
  PROVE  Calls'
<1> DEFINE c == ctl[t]
           n == Len(c)
           a == Top(t)
           l == a.l
           fresh == Append(a.pend, [u |-> u, key |-> key, stale |-> FALSE])
           c2 == [c EXCEPT ![n] = [a EXCEPT !.pend = fresh]]
           mark(b) == [b EXCEPT !.pend = AllMarked(b.pend, u, key)]
           dd == [i \in DOMAIN c2 |-> IF c2[i].k = "script" THEN mark(c2[i]) ELSE c2[i]]
<1>1. /\ Good(c, called) /\ Control(c) /\ n \in Nat /\ n >= 3
      /\ a = c[n] /\ a.k = "script" /\ l \in LuaThread /\ Formed(a) /\ Honest(a, called)
      /\ Holds(t) /\ Stacks(stack) /\ called = [x \in Userdata |-> called[x]]
  BY ScriptFacts
<1>2. CASE key \in Fields
  <2>1. /\ stack' = PopFrame(Pushed(l, <<Object(u), Str(key)>>, Value("field", key)), l)
        /\ called' = called /\ ctl' = ctl
    BY <1>2 DEF ObjectIndex
  <2>2. Stacks(stack') BY <1>1, <2>1, PushedKeeps
  <2>3. PICK d : d = c OBVIOUS
  <2>4. ctl' = [ctl EXCEPT ![t] = d] BY <2>1, <2>3 DEF Calls, Typed
  <2>5. Good(d, called') BY <1>1, <2>1, <2>3
  <2>6. Len(d) > 1 => Len(ctl[t]) > 1 BY <2>3
  <2>7. called' = [x \in Userdata |-> called'[x]] BY <1>1, <2>1
  <2> QED BY <1>1, <2>2, <2>4, <2>5, <2>6, <2>7, OwnStep
<1>3. CASE key \notin Fields
  <2>1. called' = [called EXCEPT ![u] = key] /\ stack' = stack
    BY <1>3 DEF ObjectIndex, Remember
  <2>2. ctl' = [ctl EXCEPT ![t] = dd]
    BY <1>3 DEF ObjectIndex, AllMarked, Marked
  <2>3. DOMAIN c = 1 .. n /\ IsSeq(c) /\ n \in 1 .. n BY <1>1, SeqFacts DEF Control
  <2>4. a.pend \in Seq(Looked) /\ fresh \in Seq(Looked) /\ Len(fresh) = Len(a.pend) + 1
        /\ fresh[Len(a.pend) + 1] = [u |-> u, key |-> key, stale |-> FALSE]
        /\ \A x \in 1 .. Len(a.pend) : fresh[x] = a.pend[x]
        /\ Len(a.pend) \in Nat
    <3>1. a.pend \in Seq(Looked) BY <1>1 DEF Formed
    <3>2. [u |-> u, key |-> key, stale |-> FALSE] \in Looked BY DEF Looked
    <3> QED BY <3>1, <3>2, AppendProperties, LenProperties
  <2>5. ASSUME NEW i \in 1 .. n
        PROVE  /\ c2[i].k = c[i].k /\ (c[i].k \in {"script", "method"} => c2[i].l = c[i].l)
               /\ c[i].k # "script" => c2[i] = c[i]
               /\ Formed(c2[i])
               /\ c[i].k = "script" => \A x \in 1 .. Len(c2[i].pend) : ~c2[i].pend[x].stale =>
                    called[c2[i].pend[x].u] = c2[i].pend[x].key
                      \/ (c2[i].pend[x].u = u /\ c2[i].pend[x].key = key)
    <3>1. Formed(c[i]) /\ Honest(c[i], called) BY <1>1 DEF Good, Control
    <3>2. CASE i # n
      <4>1. c2[i] = c[i] BY <2>3, <3>2
      <4> QED BY <3>1, <4>1 DEF Honest
    <3>3. CASE i = n
      <4>1. PICK b : b = [a EXCEPT !.pend = fresh] OBVIOUS
      <4>2. c2[i] = b BY <2>3, <3>3, <4>1
      <4>3. b = [k |-> "script", l |-> a.l, pend |-> fresh] BY <1>1, <4>1 DEF Formed
      <4>4. b.k = "script" /\ b.l = a.l /\ b.pend = fresh /\ Formed(b)
        BY <2>4, <4>3 DEF Formed
      <4>5. \A x \in 1 .. Len(fresh) : x = Len(a.pend) + 1 \/ x \in 1 .. Len(a.pend) BY <2>4
      <4>6. \A x \in 1 .. Len(fresh) : ~fresh[x].stale =>
              called[fresh[x].u] = fresh[x].key \/ (fresh[x].u = u /\ fresh[x].key = key)
        BY <1>1, <2>4, <4>5 DEF Honest
      <4> QED BY <1>1, <3>3, <4>2, <4>4, <4>6
    <3> QED BY <3>2, <3>3
  <2>6. DOMAIN c2 = 1 .. n BY <2>3
  <2>7. PICK d : d = dd OBVIOUS
  <2>8. /\ IsSeq(d) /\ Len(d) = n
        /\ \A i \in 1 .. n : d[i] = IF c2[i].k = "script" THEN mark(c2[i]) ELSE c2[i]
    <3>1. \A i \in 1 .. n : d[i] = IF c2[i].k = "script" THEN mark(c2[i]) ELSE c2[i]
      BY <2>6, <2>7
    <3>2. PICK S : S = {dd[i] : i \in 1 .. n} OBVIOUS
    <3>3. d \in [1 .. n -> S] BY <2>6, <2>7, <3>2
    <3> QED BY <1>1, <3>1, <3>3, FunctionSeq
  <2>9. ASSUME NEW i \in 1 .. n
        PROVE  Alike(c[i], d[i]) /\ Honest(d[i], called')
    <3>1. PICK b : b = c2[i] OBVIOUS
    <3>2. PICK p : p = AllMarked(b.pend, u, key) OBVIOUS
    <3>3. Honest(c[i], called) BY <1>1 DEF Good
    <3>4. CASE c[i].k # "script"
      <4>1. d[i] = c[i] BY <2>5, <2>8, <3>4
      <4> QED BY <2>5, <3>3, <3>4, <4>1 DEF Alike, Honest
    <3>5. CASE c[i].k = "script"
      <4>1. b.k = "script" /\ Formed(b) /\ b.l = c[i].l BY <2>5, <3>1, <3>5
      <4>2. b.pend \in Seq(Looked) BY <4>1 DEF Formed
      <4>3. /\ p \in Seq(Looked) /\ Len(p) = Len(b.pend)
            /\ \A x \in 1 .. Len(p) : ~p[x].stale => called'[p[x].u] = p[x].key
        <5>1. \A x \in 1 .. Len(b.pend) : ~b.pend[x].stale =>
                called[b.pend[x].u] = b.pend[x].key \/ (b.pend[x].u = u /\ b.pend[x].key = key)
          BY <2>5, <3>1, <3>5
        <5>2. PICK cl, ps : cl = called /\ ps = b.pend OBVIOUS
        <5>3. /\ ps \in Seq(Looked) /\ cl = [x \in Userdata |-> cl[x]]
              /\ \A x \in 1 .. Len(ps) : ~ps[x].stale =>
                   cl[ps[x].u] = ps[x].key \/ (ps[x].u = u /\ ps[x].key = key)
          BY <1>1, <4>2, <5>1, <5>2
        <5>4. /\ AllMarked(ps, u, key) \in Seq(Looked) /\ Len(AllMarked(ps, u, key)) = Len(ps)
              /\ \A x \in 1 .. Len(ps) : ~AllMarked(ps, u, key)[x].stale =>
                   [cl EXCEPT ![u] = key][AllMarked(ps, u, key)[x].u] = AllMarked(ps, u, key)[x].key
          BY <5>3, MarkedFacts
        <5>5. p = AllMarked(ps, u, key) /\ called' = [cl EXCEPT ![u] = key] BY <2>1, <3>2, <5>2
        <5>6. /\ p \in Seq(Looked) /\ Len(p) = Len(ps)
              /\ \A x \in 1 .. Len(ps) : ~p[x].stale => [cl EXCEPT ![u] = key][p[x].u] = p[x].key
          BY ONLY <5>4, <5>5
        <5>7. \A x \in 1 .. Len(p) : ~p[x].stale => called'[p[x].u] = p[x].key
          BY ONLY <5>5, <5>6
        <5> QED BY <5>2, <5>6, <5>7
      <4>4. d[i] = [b EXCEPT !.pend = p] BY <2>8, <3>1, <3>2, <4>1
      <4>5. d[i] = [k |-> "script", l |-> b.l, pend |-> p] BY <4>1, <4>4 DEF Formed
      <4>6. d[i].k = "script" /\ d[i].l = b.l /\ d[i].pend = p BY <4>5
      <4>7. Formed(d[i]) BY <4>3, <4>5, <4>6 DEF Formed
      <4> QED BY <3>5, <4>1, <4>3, <4>6, <4>7 DEF Alike, Honest
    <3> QED BY <3>4, <3>5
  <2> HIDE DEF dd, c2
  <2>10. Control(d) BY <1>1, <2>8, <2>9, AlikeControl
  <2>11. Awake(d)
    <3>1. Alike(c[n], d[n]) BY <2>3, <2>9
    <3> QED BY <1>1, <2>8, <3>1 DEF Awake, Alike
  <2>12. Good(d, called') BY <2>8, <2>9, <2>10, <2>11 DEF Good
  <2>13. called' = [x \in Userdata |-> called'[x]] BY <1>1, <2>1
  <2>14. ctl' = [ctl EXCEPT ![t] = d] BY <2>2, <2>7
  <2>15. Stacks(stack') BY <1>1, <2>1
  <2>16. Len(ctl[t]) > 1 BY <1>1
  <2> QED BY <1>1, <2>12, <2>13, <2>14, <2>15, <2>16, OwnStep
<1> QED BY <1>2, <1>3

\* __index, of an object or a class: a class without such a member fails.
LEMMA ScriptLooksCalls ==
  ASSUME Calls, NEW t \in Thread, ScriptLooks(t)
  PROVE  Calls'
<1>1. InScript(t) /\ env' = env BY DEF ScriptLooks
<1>2. PICK u \in Userdata, key \in Names :
        IF u \in Classes THEN ClassIndex(t, u, key) ELSE ObjectIndex(t, u, key)
  BY DEF ScriptLooks
<1>3. CASE ObjectIndex(t, u, key) BY <1>1, <1>3, ObjectIndexCalls
<1>4. CASE ~ObjectIndex(t, u, key)
  <2>1. /\ Fail(t, ctl[t], stack, Message)
        /\ called' = called
    BY <1>2, <1>4 DEF ClassIndex
  <2>2. /\ Control(ctl[t]) /\ Len(ctl[t]) > 0 /\ Len(ctl[t]) > 1
        /\ ctl[t][Len(ctl[t])].k = "script" /\ Holds(t) /\ Stacks(stack)
        /\ \A i \in 1 .. Len(ctl[t]) : Honest(ctl[t][i], called)
    BY <1>1, ScriptFacts DEF Good
  <2>3. PICK c, s, e : /\ c = ctl[t] /\ s = stack
                       /\ e = Message
    OBVIOUS
  <2> QED BY <1>1, <2>1, <2>2, <2>3, FailCalls
<1> QED BY <1>3, <1>4

LEMMA ScriptFindsClassCalls ==
  ASSUME Calls, NEW t \in Thread, ScriptFindsClass(t)
  PROVE  Calls'
<1> DEFINE c == ctl[t]
<1>1. /\ InScript(t) /\ Good(c, called) /\ Control(c) /\ Len(c) \in Nat /\ Len(c) >= 3 /\ Len(c) > 0
      /\ Top(t) = c[Len(c)] /\ Top(t).k = "script" /\ Top(t).l \in LuaThread
      /\ Formed(Top(t)) /\ Honest(Top(t), called)
      /\ Holds(t) /\ Stacks(stack) /\ called = [u \in Userdata |-> called[u]]
  BY ScriptFacts DEF ScriptFindsClass
<1>2. PICK n : \/ stack' = PopFrame(Pushed(Top(t).l, <<Table("_G"), Str(n)>>, Object(n)), Top(t).l)
               \/ stack' = PopFrame(PushFrame(stack, Top(t).l, <<Table("_G"), Str(n)>>), Top(t).l)
  BY DEF ScriptFindsClass
<1>3. PICK l, f, v : l = Top(t).l /\ f = <<Table("_G"), Str(n)>> /\ v = Object(n) OBVIOUS
<1>4. Stacks(stack')
  <2>1. CASE stack' = PopFrame(Pushed(l, f, v), l) BY <1>1, <1>3, <2>1, PushedKeeps
  <2>2. CASE stack' = PopFrame(PushFrame(stack, l, f), l)
    <3>1. PICK s : s = PushFrame(stack, l, f) OBVIOUS
    <3>2. Stacks(s) BY <1>1, <1>3, <3>1, StacksKept
    <3> QED BY <1>1, <1>3, <2>2, <3>1, <3>2, StacksKept
  <2> QED BY <1>2, <1>3, <2>1, <2>2
<1>5. PICK b : b = Top(t) OBVIOUS
<1>6. PICK d : d = Append(Front(c), b) OBVIOUS
<1>7. Alike(c[Len(c)], b) BY <1>1, <1>5 DEF Alike
<1>8. Good(d, called) /\ Len(d) = Len(c) BY <1>1, <1>5, <1>6, <1>7, RetopGood
<1>9. ctl' = [ctl EXCEPT ![t] = d] /\ called' = called /\ env' = env
  BY <1>5, <1>6 DEF ScriptFindsClass, SetTop
<1>10. Good(d, called') /\ called' = [u \in Userdata |-> called'[u]] BY <1>1, <1>8, <1>9
<1> QED BY <1>1, <1>4, <1>8, <1>9, <1>10, OwnStep

\* The arguments of a call, as Java finds them on the main thread.
LEMMA GivenFacts ==
  ASSUME NEW first, NEW given, IsSeq(given), Len(given) < 2
  PROVE  <<first>> \o given # <<>> /\ Tail(<<first>> \o given) = given
<1>1. given = <<>> \/ given = <<given[1]>>
  <2>1. Len(given) \in Nat /\ (given = <<>> <=> Len(given) = 0) BY SeqFacts
  <2>2. CASE Len(given) = 1
    <3>1. PICK w, r : w = given[1] /\ r = <<given[1]>> OBVIOUS
    <3>2. r \in Seq({w}) /\ Len(r) = 1 /\ r[1] = w BY <3>1
    <3>3. IsSeq(r) /\ \A i \in 1 .. Len(given) : given[i] = r[i] BY <2>2, <3>1, <3>2 DEF IsSeq
    <3> QED BY <2>2, <3>1, <3>2, <3>3, SameSeq
  <2>3. \A n \in Nat : n < 2 => n = 0 \/ n = 1 OBVIOUS
  <2> QED BY <2>1, <2>2, <2>3
<1>2. CASE given = <<>> BY <1>2
<1>3. CASE given = <<given[1]>>
  <2>1. PICK w : w = given[1] OBVIOUS
  <2>2. <<first>> \in Seq({first}) OBVIOUS
  <2>3. <<first>> \o <<w>> = Append(<<first>>, w) BY <2>2, CatFacts DEF IsSeq
  <2>4. Append(<<first>>, w) = <<first, w>>
    <3>1. <<first>> \in Seq({first, w}) /\ <<first, w>> \in Seq({first, w}) OBVIOUS
    <3>2. PICK q, r : q = Append(<<first>>, w) /\ r = <<first, w>> OBVIOUS
    <3>3. Len(<<first>>) = 1 /\ <<first>>[1] = first /\ 1 \in 1 .. 1 OBVIOUS
    <3>4. IsSeq(q) /\ Len(q) = 2 /\ q[1] = first /\ q[2] = w
      <4>1. PICK x : x = <<first>> OBVIOUS
      <4>2. IsSeq(x) /\ Len(x) = 1 /\ x[1] = first BY <3>1, <3>3, <4>1 DEF IsSeq
      <4>3. q = Append(x, w) BY <3>2, <4>1
      <4>4. /\ IsSeq(q) /\ Len(q) = Len(x) + 1 /\ q[Len(x) + 1] = w
            /\ \A i \in 1 .. Len(x) : q[i] = x[i]
        BY <4>2, <4>3, AppendFacts
      <4> QED BY <4>2, <4>4
    <3>5. IsSeq(r) /\ Len(r) = 2 /\ r[1] = first /\ r[2] = w BY <3>1, <3>2 DEF IsSeq
    <3>6. \A i \in 1 .. 2 : i = 1 \/ i = 2 OBVIOUS
    <3>7. \A i \in 1 .. Len(q) : q[i] = r[i] BY <3>4, <3>5, <3>6
    <3>8. q = r BY <3>4, <3>5, <3>7, SameSeq
    <3> QED BY <3>2, <3>8
  <2>5. Tail(<<first, w>>) = <<w>> /\ <<first, w>> # <<>> OBVIOUS
  <2> QED BY <1>3, <2>1, <2>3, <2>4, <2>5
<1> QED BY <1>1, <1>2, <1>3

\* A script calls Java.  The method runs, or the script fails.
LEMMA CallsJavaCalls ==
  ASSUME Calls, NEW t \in Thread, InScript(t),
         NEW a, Alike(Top(t), a), Honest(a, called),
         NEW first, NEW asked, NEW stale, NEW name,
         NEW given, IsSeq(given), Len(given) < 2,
         ~stale => name = asked,
         CallsJava(t, a, first, asked, stale, name, given), called' = called, env' = env
  PROVE  Calls'
<1> DEFINE c == ctl[t]
           args == <<first>> \o given
           s == PushFrame(stack, a.l, args)
           read == Frame(s, "main")
           told == IF read = <<>> THEN read ELSE Tail(read)
<1>1. /\ Good(c, called) /\ Control(c) /\ Len(c) \in Nat /\ Len(c) >= 3 /\ Len(c) > 0 /\ Len(c) > 1
      /\ Top(t) = c[Len(c)] /\ Top(t).k = "script" /\ Top(t).l \in LuaThread
      /\ Holds(t) /\ Stacks(stack) /\ called = [u \in Userdata |-> called[u]]
  BY ScriptFacts
<1>2. a.k = "script" /\ a.l = Top(t).l /\ Formed(a) BY <1>1 DEF Alike
<1>3. PICK sp : sp = s OBVIOUS
<1>4. Stacks(sp)
  <2>1. PICK f : f = args OBVIOUS
  <2> QED BY <1>1, <1>2, <1>3, <2>1, StacksKept
<1>5. CASE Fail(t, c, stack, Message)
  <2>1. PICK x, r, e : /\ x = c /\ r = stack
                       /\ e = Message
    OBVIOUS
  <2>2. \A i \in 1 .. Len(c) : Honest(c[i], called) BY <1>1 DEF Good
  <2> QED BY <1>1, <1>5, <2>1, <2>2, FailCalls
<1>6. CASE ~Fail(t, c, stack, Message)
  <2>1. /\ stack' = s
        /\ ctl' = [ctl EXCEPT ![t] = Front(@) \o <<a, Method(a.l, asked, given, stale, name, told)>>]
    BY <1>6 DEF CallsJava
  <2>2. PICK m : m = Method(a.l, asked, given, stale, name, told) OBVIOUS
  <2>3. a.l = "main" => told = given
    <3>1. ASSUME a.l = "main" PROVE read = args
      <4>1. s["main"] = Append(stack["main"], args) BY <1>1, <3>1 DEF PushFrame, Stacks, LuaThread
      <4>2. PICK st, f : st = stack["main"] /\ f = args OBVIOUS
      <4>3. IsSeq(st) BY <1>1, <4>2 DEF Stacks
      <4>4. Last(Append(st, f)) = f BY <4>3, FrontOfAppend
      <4> QED BY <4>1, <4>2, <4>4 DEF Frame
    <3>2. args # <<>> /\ Tail(args) = given BY GivenFacts
    <3> QED BY <3>1, <3>2
  <2>4. m = [k |-> "method", l |-> a.l, asked |-> asked, given |-> given, stale |-> stale,
             name |-> name, args |-> told]
    BY <2>2 DEF Method
  <2>5. m.k = "method" /\ m.l = a.l /\ Formed(m) /\ Honest(m, called) /\ Fits(a, m)
    <3>1. PICK j : j = told OBVIOUS
    <3> HIDE DEF told
    <3>2. /\ m.k = "method" /\ m.l = a.l /\ m.asked = asked /\ m.given = given
          /\ m.stale = stale /\ m.name = name /\ m.args = told
      BY <2>4
    <3> QED BY <1>2, <2>3, <3>2 DEF Formed, Honest, Fits
  <2>6. PICK f : f = Front(c) OBVIOUS
  <2>7. PICK d : d = Append(f, a) OBVIOUS
  <2>8. Good(d, called) /\ Len(d) = Len(c)
    <3>1. PICK x : x = c OBVIOUS
    <3>2. Good(x, called) /\ Len(x) > 0 /\ Alike(x[Len(x)], a) BY <1>1, <3>1
    <3>3. d = Append(Front(x), a) BY <2>6, <2>7, <3>1
    <3> QED BY <3>1, <3>2, <3>3, RetopGood
  <2>9. d[Len(d)] = a
    <3>1. PICK x : x = c OBVIOUS
    <3>2. Control(x) /\ Len(x) > 0 /\ Alike(x[Len(x)], a) BY <1>1, <3>1
    <3>3. d = Append(Front(x), a) BY <2>6, <2>7, <3>1
    <3> QED BY <2>8, <3>1, <3>2, <3>3, RetopControl
  <2>10. PICK e : e = Append(d, m) OBVIOUS
  <2>11. Good(e, called)
    <3>1. Control(d) /\ Len(d) # 0 /\ \A i \in 1 .. Len(d) : Honest(d[i], called)
      BY <1>1, <2>8 DEF Good
    <3> QED BY <2>5, <2>9, <2>10, <3>1, AppendGood
  <2>12. f \o <<a, m>> = e
    <3>1. IsSeq(f)
      <4>1. Len(c) - 1 \in Int /\ f = SubSeq(c, 1, Len(c) - 1) BY <1>1, <2>6 DEF Front
      <4> QED BY <4>1, CutFacts
    <3> QED BY <2>7, <2>10, <3>1, CatFacts
  <2>13. ctl' = [ctl EXCEPT ![t] = e]
    <3>1. ctl' = [ctl EXCEPT ![t] = Front(@) \o <<a, m>>] BY <2>1, <2>2
    <3>2. ctl' = [ctl EXCEPT ![t] = f \o <<a, m>>] BY <2>6, <3>1
    <3> QED BY <2>12, <3>2
  <2>14. Stacks(stack') BY <1>3, <1>4, <2>1
  <2>15. Good(e, called') /\ called' = [u \in Userdata |-> called'[u]] BY <1>1, <2>11
  <2> QED BY <1>1, <2>13, <2>14, <2>15, OwnStep
<1> QED BY <1>5, <1>6

LEMMA ScriptCallsCalls ==
  ASSUME Calls, NEW t \in Thread, ScriptCalls(t)
  PROVE  Calls'
<1>1. InScript(t) /\ Top(t).pend # <<>> /\ called' = called /\ env' = env BY DEF ScriptCalls
<1>2. Formed(Top(t)) /\ Honest(Top(t), called) /\ Top(t).k = "script" BY <1>1, ScriptFacts
<1>3. PICK b : b = Top(t) OBVIOUS
<1>4. PICK ps : ps = b.pend OBVIOUS
<1>5. ps \in Seq(Looked) /\ ps # <<>> BY <1>1, <1>2, <1>3, <1>4 DEF Formed
<1>6. Len(ps) \in Nat /\ Len(ps) > 0 BY <1>5, LenProperties, EmptySeq
<1>7. PICK p : p = Last(ps) OBVIOUS
<1>8. p \in Looked /\ (~p.stale => called[p.u] = p.key)
  <2>1. p = ps[Len(ps)] /\ Len(ps) \in 1 .. Len(ps) BY <1>6, <1>7 DEF Last
  <2>2. ps[Len(ps)] \in Looked BY <1>5, <2>1, ElementOfSeq
  <2> QED BY <1>2, <1>3, <1>4, <2>1, <2>2 DEF Honest
<1>9. PICK qs : qs = Front(ps) OBVIOUS
<1>10. /\ qs \in Seq(Looked) /\ Len(qs) = Len(ps) - 1
       /\ \A x \in 1 .. Len(qs) : qs[x] = ps[x] /\ x \in 1 .. Len(ps)
  <2>1. qs = SubSeq(ps, 1, Len(ps) - 1) BY <1>9 DEF Front
  <2>2. Len(ps) - 1 \in Int /\ Len(ps) - 1 >= 0 BY <1>6
  <2>3. Len(qs) = Len(ps) - 1 /\ \A x \in 1 .. Len(ps) - 1 : qs[x] = ps[x]
    <3>n. \A n \in Nat : n > 0 => (IF n - 1 >= 1 THEN n - 1 ELSE 0) = n - 1 OBVIOUS
    <3>1. (IF Len(ps) - 1 >= 1 THEN Len(ps) - 1 ELSE 0) = Len(ps) - 1 BY <1>6, <3>n
    <3> QED BY <2>1, <2>2, <3>1, CutFacts
  <2>4. qs \in Seq(Looked) BY <1>5, <1>6, <2>1
  <2> QED BY <1>6, <2>3, <2>4
<1>11. PICK a : a = [b EXCEPT !.pend = qs] OBVIOUS
<1>12. a = [k |-> "script", l |-> b.l, pend |-> qs] BY <1>2, <1>3, <1>11 DEF Formed
<1>13. a.k = "script" /\ a.l = b.l /\ a.pend = qs BY <1>12
<1>14. Alike(b, a) BY <1>2, <1>3, <1>10, <1>12, <1>13 DEF Formed, Alike
<1>15. Honest(a, called)
  <2>1. \A x \in 1 .. Len(ps) : ~ps[x].stale => called[ps[x].u] = ps[x].key
    BY <1>2, <1>3, <1>4 DEF Honest
  <2> QED BY <1>10, <1>13, <2>1 DEF Honest
<1>16. PICK given \in {<<>>} \cup {<<v>> : v \in Argument} :
         CallsJava(t, [Top(t) EXCEPT !.pend = Front(@)],
                   Object(Last(Top(t).pend).u), Last(Top(t).pend).key, Last(Top(t).pend).stale,
                   called[Last(Top(t).pend).u], given)
  BY DEF ScriptCalls
<1>17. IsSeq(given) /\ Len(given) < 2
  <2>1. CASE given = <<>> BY <2>1, EmptySeq DEF IsSeq
  <2>2. CASE given # <<>>
    <3>1. PICK v : given = <<v>> BY <1>16, <2>2
    <3>2. \A r : r = <<v>> => r \in Seq({v}) /\ Len(r) = 1 OBVIOUS
    <3> QED BY <3>1, <3>2 DEF IsSeq
  <2> QED BY <2>1, <2>2
<1>18. PICK first, asked, stale, name :
         first = Object(p.u) /\ asked = p.key /\ stale = p.stale /\ name = called[p.u]
  OBVIOUS
<1>19. CallsJava(t, a, first, asked, stale, name, given)
  <2>1. [Top(t) EXCEPT !.pend = Front(@)] = a BY <1>3, <1>4, <1>9, <1>11
  <2>2. Last(Top(t).pend) = p BY <1>3, <1>4, <1>7
  <2> QED BY <1>16, <1>18, <2>1, <2>2
<1>20. Alike(Top(t), a) /\ (~stale => name = asked) BY <1>3, <1>8, <1>14, <1>18
<1> QED BY <1>1, <1>15, <1>17, <1>19, <1>20, CallsJavaCalls

LEMMA ScriptEntersCalls ==
  ASSUME Calls, NEW t \in Thread, ScriptEnters(t)
  PROVE  Calls'
<1>1. InScript(t) /\ called' = called /\ env' = env BY DEF ScriptEnters
<1>2. Formed(Top(t)) /\ Honest(Top(t), called) BY <1>1, ScriptFacts
<1>3. PICK e \in Entries : CallsJava(t, Top(t), e.first, e.name, FALSE, e.name, e.given)
  BY DEF ScriptEnters
<1>4. \E v : e.given = <<v>> BY <1>3 DEF Entries
<1>5. PICK a, first, name, given : a = Top(t) /\ first = e.first /\ name = e.name /\ given = e.given
  OBVIOUS
<1>6. IsSeq(given) /\ Len(given) < 2
  <2>1. PICK v : given = <<v>> BY <1>4, <1>5
  <2>2. \A r : r = <<v>> => r \in Seq({v}) /\ Len(r) = 1 OBVIOUS
  <2>3. given \in Seq({v}) /\ Len(given) = 1 BY ONLY <2>1, <2>2
  <2> QED BY <2>3 DEF IsSeq
<1>7. Alike(Top(t), a) /\ Honest(a, called) BY <1>2, <1>5 DEF Alike
<1>8. CallsJava(t, a, first, name, FALSE, name, given) BY <1>3, <1>5
<1> QED BY <1>1, <1>6, <1>7, <1>8, CallsJavaCalls

LEMMA MethodReturnsCalls ==
  ASSUME Calls, NEW t \in Thread, MethodReturns(t)
  PROVE  Calls'
<1> DEFINE c == ctl[t]
<1>1. /\ Control(c) /\ Len(c) > 0 /\ c[Len(c)].k = "method" /\ Top(t) = c[Len(c)]
      /\ Holds(t) /\ Len(c) > 1
  BY BusyFacts DEF MethodReturns, InMethod
<1>2. /\ Len(c) \in Nat /\ Len(c) >= 4 /\ c[Len(c) - 1].k = "script"
      /\ c[Len(c)].l = c[Len(c) - 1].l
  BY <1>1, MethodBase
<1>3. PICK d : d = SubSeq(c, 1, Len(c) - 1) OBVIOUS
<1>4. Good(d, called) /\ Len(d) = Len(c) - 1 /\ d[Len(d)] = c[Len(c) - 1]
  <2>1. Len(c) - 1 \in 0 .. Len(c) /\ Len(c) - 1 \in 1 .. Len(c) - 1 BY <1>2
  <2>2. Good(c, called) BY DEF Calls
  <2> QED BY <1>2, <1>3, <2>1, <2>2, CutGood
<1>5. Top(t).l \in LuaThread
  <2>1. Control(d) /\ Len(d) > 0 /\ d[Len(d)].k = "script" BY <1>2, <1>4 DEF Good
  <2> QED BY <1>1, <1>2, <1>4, <2>1, ScriptBase DEF LuaThread
<1>6. PICK v : stack' = PopFrame(IF v = Nil THEN stack ELSE SetFrame(stack, "main", Append(Here, v)), Top(t).l)
  BY DEF MethodReturns
<1>7. PICK l, f, s : /\ l = Top(t).l /\ f = Append(Here, v)
                     /\ s = (IF v = Nil THEN stack ELSE SetFrame(stack, "main", Append(Here, v)))
  OBVIOUS
<1>8. Stacks(s) BY <1>7, StacksKept DEF Calls, Typed, LuaThread
<1>9. Stacks(stack')
  <2>1. stack' = PopFrame(s, l) /\ l \in LuaThread BY <1>5, <1>6, <1>7
  <2> QED BY <1>8, <2>1, StacksKept
<1>10. ctl' = [ctl EXCEPT ![t] = d] /\ called' = called /\ env' = env
  BY <1>3 DEF MethodReturns, Drop
<1>11. Good(d, called') /\ called' = [u \in Userdata |-> called'[u]]
  BY <1>4, <1>10 DEF Calls, Typed
<1> QED BY <1>1, <1>9, <1>10, <1>11, OwnStep
-----------------------------------------------------------------------------

LEMMA NextCalls == Calls /\ [Next]_vars => Calls'
<1> SUFFICES ASSUME Calls, [Next]_vars PROVE Calls' OBVIOUS
<1>1. CASE UNCHANGED vars
  BY <1>1 DEF vars, Calls, Typed, Stacks, Exclusive, Holds, EnvInv, Good, Control, Awake, Honest
<1>2. CASE Next
  BY <1>2, StartsCallCalls, NativeCalls, LoadFailsCalls, NativePCallCalls, NativeDoFileCalls,
     JavaEndsCalls, JavaFailsCalls, ScriptFailsCalls, ScriptReturnsCalls, ScriptResumesCalls, ScriptLooksCalls,
     ScriptFindsClassCalls, ScriptCallsCalls, ScriptEntersCalls, MethodReturnsCalls,
     MethodThrowsCalls, MethodCallsCalls
  DEF Next
<1> QED BY <1>1, <1>2

\* The inductive invariant: the activations of every thread nest as calls do,
\* one thread at most has the monitor of the LuaState, the environment is that
\* of the thread that is in Lua, and what a script has looked up and not marked
\* stale is what the metatable of the object remembers.
THEOREM CallsCorrect == Spec => []Calls
<1>1. Init => Calls BY InitCalls
<1>2. Calls /\ [Next]_vars => Calls' BY NextCalls
<1> QED BY <1>1, <1>2, PTL DEF Spec

\* C code that calls into Java does so with the JNI environment of the thread
\* it runs on (PushJNIEnv and the natives of LuaState, one after the other
\* under the monitor), however many threads and callbacks there are.
THEOREM EnvOfCallerCorrect == Spec => []EnvOfCaller
<1>1. Calls => EnvOfCaller BY BusyFacts DEF EnvOfCaller
<1> QED BY <1>1, CallsCorrect, PTL

\* o:m(args) in a script runs method m with args, although the name is kept in
\* the metatable of o from the lookup to the call (objectIndex and
\* objectIndexReturn), unless another method of o was looked up in between.
THEOREM RunsTheMethodNamedCorrect == Spec => []RunsTheMethodNamed
<1>1. ASSUME Calls PROVE RunsTheMethodNamed
  <2>1. ASSUME NEW t \in Thread, NEW i \in DOMAIN ctl[t] PROVE Honest(ctl[t][i], called)
    <3>1. Good(ctl[t], called) /\ DOMAIN ctl[t] = 1 .. Len(ctl[t])
      BY <1>1, SeqFacts DEF Calls, Good, Control
    <3> QED BY <3>1 DEF Good
  <2> QED BY <2>1 DEF RunsTheMethodNamed, Honest
<1> QED BY <1>1, CallsCorrect, PTL
-----------------------------------------------------------------------------
(* Java code and its part of the stack: what it has pushed and not popped, *)
(* g, lies on a base that its later natives do not touch.  Java code takes *)
(* all of it off again, or what LuaEngine says it leaves, and its pcalls   *)
(* find the function and arguments it pushed.                              *)
-----------------------------------------------------------------------------
(* Natives and the code that Java runs.                                    *)

Ops == {"push", "load", "getField", "setField", "pop", "setTop", "remove", "concat", "getTable"}
Running == {"pcall", "doFile"}
Coded(code) ==
  /\ IsSeq(code)
  /\ \A i \in 1 .. Len(code) :
       /\ code[i].op \in Ops \cup Running /\ code[i].n \in Nat
       /\ code[i].op = "pcall" => IsSeq(code[i].args)

\* Native op finds enough of its own on the stack.
Enough(g, op) ==
  /\ op.op \in Ops
  /\ op.op \in {"getField", "setField"} => Len(g) > 0
  /\ op.op = "pop" => op.n <= Len(g)
  /\ op.op \in {"remove", "concat", "getTable"} => Len(g) > 1

\* Op turns g into r, where a pcall finds its function and arguments.
Turns(g, op, r) ==
  \/ Enough(g, op) /\ r = Apply(g, op)
  \/ op.op = "doFile" /\ r = g
  \/ /\ op.op = "pcall" /\ IsSeq(op.args) /\ Len(g) = Len(r) + 1 + Len(op.args)
     /\ \A i \in 1 .. Len(r) : g[i] = r[i]
     /\ g[Len(r) + 1] = op.fn
     /\ \A i \in 1 .. Len(op.args) : g[Len(r) + 1 + i] = op.args[i]

\* The calls that empty the stack, and those that can fail, with what is on
\* the base at the end of the code and at a pcall that k natives follow.
Clears == {"eval", "module", "file"}
Failing == {"global", "eval", "module", "file", "trace", "call"}
Residue(who, k) == IF (who = "module" /\ k = 0) \/ who = "trace" THEN 1 ELSE 0
Rest(who) == IF who = "module" THEN 1 ELSE 0

\* o: what the code has on its base before the first native and after each.
Path(who, nres, code, o) ==
  LET n == Len(code)
  IN /\ Coded(code) /\ nres \in {0, 1}
     /\ \A i \in 0 .. n : IsSeq(o[i])
     /\ \A i \in 1 .. n : Turns(o[i - 1], code[i], o[i])
     /\ \A i \in 1 .. n : code[i].op \in Running =>
          who \in Failing /\ code[i].n = nres /\ Len(o[i]) = Residue(who, n - i)
     /\ \A i \in 1 .. n : code[i].op \in {"load", "doFile"} => who \in Clears /\ Len(o[i - 1]) = 0
     /\ \A i \in 1 .. n : code[i].op = "setTop" => who \in Clears /\ i = 1
     /\ Len(o[n]) = Rest(who)
     /\ nres = 1 => who \in {"call", "file"} /\ \A i \in 1 .. n : code[i].op \in Running <=> i = n
Ready(a, g) == \E o : o[0] = g /\ Path(a.who, a.nres, a.code, o)

Begun(a) == ~(Len(a.code) > 0 /\ a.code[1].op = "setTop")
Base(a) == IF a.who \in Clears /\ Begun(a) THEN 0 ELSE a.top

\* g lies on x elements of frame f.
On(f, x, g) == /\ IsSeq(f) /\ IsSeq(g) /\ x \in Nat /\ x + Len(g) <= Len(f)
               /\ \A i \in 1 .. Len(g) : f[x + i] = g[i]

\* Above g is an error value, or a result.
Extra(a) == IF a.failed \/ (a.nres = 1 /\ Len(a.code) = 0) THEN 1 ELSE 0

\* What a has on the frame f ends at height m.
Sits(a, f, m) ==
  /\ a.did = a.meant /\ a.top \in Nat
  /\ \E g : /\ Ready(a, g) /\ On(f, Base(a), g) /\ m = Base(a) + Len(g) + Extra(a)
            /\ a.failed => a.who \in Failing /\ Len(g) = Residue(a.who, Len(a.code)) /\ Begun(a)
  /\ m <= Len(f)
  /\ ~a.failed /\ Extra(a) = 1 => f[m] = a.ret

\* a has no more on f than an error value is pushed on.
Halts(a, f) ==
  /\ a.did = a.meant /\ a.top \in Nat /\ ~a.failed /\ a.who \in Failing /\ Begun(a)
  /\ \E g : /\ Ready(a, g) /\ On(f, Base(a), g) /\ Len(f) = Base(a) + Len(g)
            /\ Len(g) = Residue(a.who, Len(a.code))

\* The pcall of a has its function and arguments and has not returned.
Waits(a, f) == Halts(a, f) /\ (a.nres = 1 => Len(a.code) = 0)

Same(f, r, x) == x <= Len(r) /\ \A i \in 1 .. x : r[i] = f[i]
-----------------------------------------------------------------------------
(* Natives on a part of a frame.                                           *)

LEMMA FrontFacts ==
  ASSUME NEW s, IsSeq(s), Len(s) > 0
  PROVE  /\ IsSeq(Front(s)) /\ Len(Front(s)) = Len(s) - 1
         /\ \A i \in 1 .. Len(s) - 1 : Front(s)[i] = s[i]
         /\ Last(s) = s[Len(s)]
<1>1. Len(s) \in Nat /\ Len(s) - 1 \in Int BY SeqFacts
<1>2. Front(s) = SubSeq(s, 1, Len(s) - 1) BY DEF Front
<1>n. \A n \in Nat : n > 0 => (IF n - 1 >= 1 THEN n - 1 ELSE 0) = n - 1 OBVIOUS
<1>3. (IF Len(s) - 1 >= 1 THEN Len(s) - 1 ELSE 0) = Len(s) - 1 BY <1>1, <1>n
<1> QED BY <1>1, <1>2, <1>3, CutFacts DEF Last

LEMMA FrontSeq ==
  ASSUME NEW s, IsSeq(s)
  PROVE  IsSeq(Front(s))
<1>1. Len(s) - 1 \in Int BY SeqFacts
<1> QED BY <1>1, CutFacts DEF Front

LEMMA ConcatFacts ==
  ASSUME NEW s, IsSeq(s), NEW r, IsSeq(r)
  PROVE  /\ IsSeq(s \o r) /\ Len(s \o r) = Len(s) + Len(r)
         /\ \A i \in 1 .. Len(s) : (s \o r)[i] = s[i]
         /\ \A i \in 1 .. Len(r) : (s \o r)[Len(s) + i] = r[i]
<1>1. PICK S : s \in Seq(S) BY DEF IsSeq
<1>2. PICK R : r \in Seq(R) BY DEF IsSeq
<1>3. Len(s) \in Nat /\ DOMAIN s = 1 .. Len(s) /\ Len(r) \in Nat /\ DOMAIN r = 1 .. Len(r)
  BY SeqFacts
<1>4. s \in Seq(S \cup R) /\ r \in Seq(S \cup R)
  <2>1. \A i \in 1 .. Len(s) : s[i] \in S \cup R BY <1>1, ElementOfSeq
  <2>2. \A i \in 1 .. Len(r) : r[i] \in S \cup R BY <1>2, ElementOfSeq
  <2> QED BY <1>1, <1>2, <1>3, <2>1, <2>2
<1>5. /\ s \o r \in Seq(S \cup R) /\ Len(s \o r) = Len(s) + Len(r)
      /\ \A i \in 1 .. Len(s) + Len(r) :
           (s \o r)[i] = IF i <= Len(s) THEN s[i] ELSE r[i - Len(s)]
  BY ONLY <1>4, ConcatProperties
<1>6. \A i \in 1 .. Len(s) : (s \o r)[i] = s[i] BY <1>3, <1>5
<1>7. ASSUME NEW i \in 1 .. Len(r) PROVE (s \o r)[Len(s) + i] = r[i]
  <2>1. Len(s) + i \in 1 .. Len(s) + Len(r) /\ ~(Len(s) + i <= Len(s)) /\ Len(s) + i - Len(s) = i
    BY <1>3
  <2> QED BY <1>5, <2>1
<1> QED BY <1>5, <1>6, <1>7 DEF IsSeq

\* The element below the last is removed.
LEMMA RemoveFacts ==
  ASSUME NEW s, IsSeq(s), Len(s) > 1
  PROVE  /\ IsSeq(RemoveAt(s, Len(s) - 1)) /\ Len(RemoveAt(s, Len(s) - 1)) = Len(s) - 1
         /\ \A i \in 1 .. Len(s) - 2 : RemoveAt(s, Len(s) - 1)[i] = s[i]
         /\ RemoveAt(s, Len(s) - 1)[Len(s) - 1] = s[Len(s)]
<1>1. PICK n : n = Len(s) OBVIOUS
<1>2. n \in Nat /\ n > 1 BY <1>1, SeqFacts
<1>3. PICK p, q : p = SubSeq(s, 1, n - 1 - 1) /\ q = SubSeq(s, n - 1 + 1, n) OBVIOUS
<1>4. RemoveAt(s, n - 1) = p \o q BY <1>1, <1>3 DEF RemoveAt
<1>5. n - 1 - 1 = n - 2 /\ n - 2 \in Int /\ (IF n - 2 >= 1 THEN n - 2 ELSE 0) = n - 2
      /\ n - 1 + 1 = n
  BY <1>2
<1>6. IsSeq(p) /\ Len(p) = n - 2 /\ \A i \in 1 .. n - 2 : p[i] = s[i]
  <2>1. p = SubSeq(s, 1, n - 2) BY <1>3, <1>5
  <2> QED BY <1>5, <2>1, CutFacts
<1>7. IsSeq(q) /\ Len(q) = 1 /\ q[1] = s[n]
  <2>1. PICK S : s \in Seq(S) BY DEF IsSeq
  <2>2. n \in Int /\ n >= 1 /\ n <= n BY <1>2
  <2>3. q = SubSeq(s, n, n) BY <1>3, <1>5
  <2>4. \A i \in n .. n : s[i] \in S BY <1>1, <1>2, <2>1, ElementOfSeq
  <2>5. /\ SubSeq(s, n, n) \in Seq(S)
        /\ Len(SubSeq(s, n, n)) = IF n <= n THEN n - n + 1 ELSE 0
        /\ \A i \in 1 .. n - n + 1 : SubSeq(s, n, n)[i] = s[n + i - 1]
    BY ONLY <2>2, <2>4, SubSeqProperties
  <2>6. n - n + 1 = 1 /\ n + 1 - 1 = n /\ 1 \in 1 .. n - n + 1 BY <1>2
  <2> QED BY <2>2, <2>3, <2>5, <2>6 DEF IsSeq
<1>8. /\ IsSeq(p \o q) /\ Len(p \o q) = Len(p) + Len(q)
      /\ \A i \in 1 .. Len(p) : (p \o q)[i] = p[i]
      /\ \A i \in 1 .. Len(q) : (p \o q)[Len(p) + i] = q[i]
  <2>1. IsSeq(p) /\ IsSeq(q) BY <1>6, <1>7
  <2> QED BY ONLY <2>1, ConcatFacts
<1>9. Len(p) + 1 = n - 1 /\ 1 \in 1 .. Len(q) BY <1>2, <1>6, <1>7
<1>10. (p \o q)[n - 1] = s[n] BY <1>7, <1>8, <1>9
<1>11. \A i \in 1 .. n - 2 : (p \o q)[i] = s[i] BY <1>6, <1>8
<1> QED BY <1>1, <1>4, <1>7, <1>8, <1>9, <1>10, <1>11

\* Whatever a native finds, a frame stays a sequence.
LEMMA ApplySeq ==
  ASSUME NEW f, IsSeq(f), NEW op, op.op \in Ops, op.n \in Nat
  PROVE  IsSeq(Apply(f, op))
<1>1. Len(f) \in Nat BY SeqFacts
<1>2. CASE op.op \in {"push", "load"}
  <2>1. Apply(f, op) = Append(f, op.v) BY <1>2 DEF Apply
  <2> QED BY <2>1, AppendFacts
<1>3. CASE op.op = "getField"
  <2>1. Apply(f, op) = Append(f, Field(Last(f), op.v.v)) BY <1>3 DEF Apply
  <2>2. PICK w : w = Field(Last(f), op.v.v) OBVIOUS
  <2> QED BY <2>1, <2>2, AppendFacts
<1>4. CASE op.op = "setField"
  <2>1. Apply(f, op) = Front(f) BY <1>4 DEF Apply
  <2> QED BY <2>1, FrontSeq
<1>5. CASE op.op = "pop"
  <2>1. Apply(f, op) = SubSeq(f, 1, Len(f) - op.n) BY <1>5 DEF Apply
  <2>2. Len(f) - op.n \in Int BY <1>1
  <2> QED BY <2>1, <2>2, CutFacts
<1>6. CASE op.op = "setTop"
  <2>1. Apply(f, op) = <<>> BY <1>6 DEF Apply
  <2> QED BY <2>1, EmptySeq DEF IsSeq
<1>7. CASE op.op = "remove"
  <2>1. Apply(f, op) = RemoveAt(f, Len(f) - 1) BY <1>7 DEF Apply
  <2>2. PICK p : p = SubSeq(f, 1, Len(f) - 1 - 1) OBVIOUS
  <2>3. PICK q, n, m : q = SubSeq(f, m, n) /\ m = Len(f) - 1 + 1 /\ n = Len(f) OBVIOUS
  <2>4. RemoveAt(f, Len(f) - 1) = p \o q BY <2>2, <2>3 DEF RemoveAt
  <2>5. IsSeq(p)
    <3>1. Len(f) - 1 - 1 \in Int BY <1>1
    <3> QED BY <2>2, <3>1, CutFacts
  <2>6. IsSeq(q)
    <3>1. PICK S : S = {f[i] : i \in m .. n} OBVIOUS
    <3>2. m \in Int /\ n \in Int /\ \A i \in m .. n : f[i] \in S BY <1>1, <2>3, <3>1
    <3>3. SubSeq(f, m, n) \in Seq(S) BY ONLY <3>2, SubSeqProperties
    <3> QED BY <2>3, <3>3 DEF IsSeq
  <2> QED BY <2>1, <2>4, <2>5, <2>6, ConcatFacts
<1>8. CASE op.op = "concat"
  <2>1. Apply(f, op) = Append(Front(Front(f)), Last(f)) BY <1>8 DEF Apply
  <2>2. PICK r : r = Front(f) OBVIOUS
  <2>3. PICK q, w : q = Front(r) /\ w = Last(f) OBVIOUS
  <2>4. IsSeq(r) BY <2>2, FrontSeq
  <2>5. IsSeq(q) BY <2>3, <2>4, FrontSeq
  <2> QED BY <2>1, <2>2, <2>3, <2>5, AppendFacts
<1>9. CASE op.op = "getTable"
  <2>1. Apply(f, op) = Append(Front(f), Field(f[Len(f) - 1], Last(f).v)) BY <1>9 DEF Apply
  <2>2. PICK q, w : q = Front(f) /\ w = Field(f[Len(f) - 1], Last(f).v) OBVIOUS
  <2>3. IsSeq(q) BY <2>2, FrontSeq
  <2> QED BY <2>1, <2>2, <2>3, AppendFacts
<1> QED BY <1>2, <1>3, <1>4, <1>5, <1>6, <1>7, <1>8, <1>9 DEF Ops

\* g is all that is on x elements of f.
Tops(f, x, g) == On(f, x, g) /\ Len(f) = x + Len(g)

LEMMA SameTrans ==
  ASSUME NEW f, NEW r, NEW q, NEW x \in Nat, Same(f, r, x), Same(r, q, x)
  PROVE  Same(f, q, x)
BY DEF Same

LEMMA AppendOn ==
  ASSUME NEW f, NEW x, NEW g, Tops(f, x, g), NEW v
  PROVE  Tops(Append(f, v), x, Append(g, v)) /\ Same(f, Append(f, v), x)
<1>1. PICK r, h : r = Append(f, v) /\ h = Append(g, v) OBVIOUS
<1>2. IsSeq(f) /\ IsSeq(g) /\ x \in Nat /\ Len(f) = x + Len(g)
      /\ \A i \in 1 .. Len(g) : f[x + i] = g[i]
  BY DEF Tops, On
<1>3. Len(f) \in Nat /\ Len(g) \in Nat BY <1>2, SeqFacts
<1>4. IsSeq(r) /\ Len(r) = Len(f) + 1 /\ (\A i \in 1 .. Len(f) : r[i] = f[i]) /\ r[Len(f) + 1] = v
  BY <1>1, <1>2, AppendFacts
<1>5. IsSeq(h) /\ Len(h) = Len(g) + 1 /\ (\A i \in 1 .. Len(g) : h[i] = g[i]) /\ h[Len(g) + 1] = v
  BY <1>1, <1>2, AppendFacts
<1>6. ASSUME NEW i \in 1 .. Len(h) PROVE r[x + i] = h[i]
  <2>1. CASE i = Len(g) + 1
    <3>1. x + i = Len(f) + 1 BY <1>2, <1>3, <2>1
    <3> QED BY <1>4, <1>5, <2>1, <3>1
  <2>2. CASE i # Len(g) + 1
    <3>1. i \in 1 .. Len(g) /\ x + i \in 1 .. Len(f) BY <1>2, <1>3, <1>5, <2>2
    <3> QED BY <1>2, <1>4, <1>5, <3>1
  <2> QED BY <2>1, <2>2
<1>7. Len(r) = x + Len(h) BY <1>2, <1>3, <1>4, <1>5
<1>8. Len(r) \in Nat BY <1>3, <1>4
<1>9. On(r, x, h) BY <1>2, <1>4, <1>5, <1>6, <1>7, <1>8 DEF On
<1>10. Same(f, r, x) BY <1>2, <1>3, <1>4 DEF Same
<1> QED BY <1>1, <1>7, <1>9, <1>10 DEF Tops

LEMMA CutOn ==
  ASSUME NEW f, NEW x, NEW g, Tops(f, x, g), NEW k \in Nat, k <= Len(g)
  PROVE  /\ Tops(SubSeq(f, 1, Len(f) - k), x, SubSeq(g, 1, Len(g) - k))
         /\ Same(f, SubSeq(f, 1, Len(f) - k), x)
<1>1. PICK r, h : r = SubSeq(f, 1, Len(f) - k) /\ h = SubSeq(g, 1, Len(g) - k) OBVIOUS
<1>2. IsSeq(f) /\ IsSeq(g) /\ x \in Nat /\ Len(f) = x + Len(g)
      /\ \A i \in 1 .. Len(g) : f[x + i] = g[i]
  BY DEF Tops, On
<1>3. Len(f) \in Nat /\ Len(g) \in Nat BY <1>2, SeqFacts
<1>4. PICK n, m : n = Len(f) - k /\ m = Len(g) - k OBVIOUS
<1>5. n \in Int /\ m \in Int /\ n \in Nat /\ m \in Nat /\ n = x + m BY <1>2, <1>3, <1>4
<1>n. \A j \in Nat : (IF j >= 1 THEN j ELSE 0) = j OBVIOUS
<1>6. (IF n >= 1 THEN n ELSE 0) = n /\ (IF m >= 1 THEN m ELSE 0) = m BY <1>5, <1>n
<1>7. IsSeq(r) /\ Len(r) = n /\ \A i \in 1 .. n : r[i] = f[i] BY <1>1, <1>4, <1>5, <1>6, CutFacts
<1>8. IsSeq(h) /\ Len(h) = m /\ \A i \in 1 .. m : h[i] = g[i] BY <1>1, <1>4, <1>5, <1>6, CutFacts
<1>9. ASSUME NEW i \in 1 .. m PROVE r[x + i] = h[i]
  <2>1. x + i \in 1 .. n /\ i \in 1 .. Len(g) BY <1>2, <1>3, <1>4, <1>5
  <2> QED BY <1>2, <1>7, <1>8, <2>1
<1>10. On(r, x, h) BY <1>2, <1>5, <1>7, <1>8, <1>9 DEF On
<1>11. Same(f, r, x) BY <1>2, <1>5, <1>7 DEF Same
<1> QED BY <1>1, <1>5, <1>7, <1>8, <1>10, <1>11 DEF Tops

LEMMA FrontOn ==
  ASSUME NEW f, NEW x, NEW g, Tops(f, x, g), Len(g) > 0
  PROVE  /\ Tops(Front(f), x, Front(g)) /\ Same(f, Front(f), x)
         /\ Last(f) = Last(g) /\ Len(Front(g)) = Len(g) - 1
<1>1. IsSeq(f) /\ IsSeq(g) /\ x \in Nat /\ Len(f) = x + Len(g)
      /\ \A i \in 1 .. Len(g) : f[x + i] = g[i]
  BY DEF Tops, On
<1>2. Len(g) \in Nat /\ 1 <= Len(g) BY <1>1, SeqFacts
<1>3. Tops(SubSeq(f, 1, Len(f) - 1), x, SubSeq(g, 1, Len(g) - 1))
      /\ Same(f, SubSeq(f, 1, Len(f) - 1), x)
  BY <1>2, CutOn
<1>4. f[x + Len(g)] = g[Len(g)] BY <1>1, <1>2
<1>5. Len(Front(g)) = Len(g) - 1 BY <1>1, FrontFacts
<1> QED BY <1>1, <1>3, <1>4, <1>5 DEF Front, Last

\* A native that finds enough of its own leaves what is under it.
LEMMA ApplyOn ==
  ASSUME NEW f, NEW x, NEW g, Tops(f, x, g), NEW op, Enough(g, op), op.n \in Nat, op.op # "setTop"
  PROVE  Tops(Apply(f, op), x, Apply(g, op)) /\ Same(f, Apply(f, op), x)
<1>1. IsSeq(f) /\ IsSeq(g) /\ x \in Nat /\ Len(f) = x + Len(g)
      /\ \A i \in 1 .. Len(g) : f[x + i] = g[i]
  BY DEF Tops, On
<1>2. Len(f) \in Nat /\ Len(g) \in Nat BY <1>1, SeqFacts
<1>3. CASE op.op \in {"push", "load"}
  <2>1. PICK v : v = op.v OBVIOUS
  <2>2. Apply(f, op) = Append(f, v) /\ Apply(g, op) = Append(g, v) BY <1>3, <2>1 DEF Apply
  <2> QED BY <2>2, AppendOn
<1>4. CASE op.op = "getField"
  <2>1. PICK v : v = Field(Last(g), op.v.v) OBVIOUS
  <2>0. Last(f) = Last(g)
    <3>1. Len(g) > 0 BY <1>4 DEF Enough
    <3> QED BY <3>1, FrontOn
  <2>2. Apply(f, op) = Append(f, v) /\ Apply(g, op) = Append(g, v) BY <1>4, <2>0, <2>1 DEF Apply
  <2> QED BY <2>2, AppendOn
<1>5. CASE op.op = "setField"
  <2>1. Apply(f, op) = Front(f) /\ Apply(g, op) = Front(g) BY <1>5 DEF Apply
  <2>2. Len(g) > 0 BY <1>5 DEF Enough
  <2> QED BY <2>1, <2>2, FrontOn
<1>6. CASE op.op = "pop"
  <2>1. PICK k : k = op.n OBVIOUS
  <2>2. Apply(f, op) = SubSeq(f, 1, Len(f) - k) /\ Apply(g, op) = SubSeq(g, 1, Len(g) - k)
    BY <1>6, <2>1 DEF Apply
  <2>3. k \in Nat /\ k <= Len(g) BY <1>6, <2>1 DEF Enough
  <2> QED BY <2>2, <2>3, CutOn
<1>7. CASE op.op = "remove"
  <2>1. PICK r, h : r = RemoveAt(f, Len(f) - 1) /\ h = RemoveAt(g, Len(g) - 1) OBVIOUS
  <2>2. Apply(f, op) = r /\ Apply(g, op) = h BY <1>7, <2>1 DEF Apply
  <2>3. Len(g) > 1 BY <1>7 DEF Enough
  <2>4. Len(f) > 1 BY <1>1, <1>2, <2>3
  <2>5. /\ IsSeq(r) /\ Len(r) = Len(f) - 1 /\ \A i \in 1 .. Len(f) - 2 : r[i] = f[i]
        /\ r[Len(f) - 1] = f[Len(f)]
    BY <1>1, <2>1, <2>4, RemoveFacts
  <2>6. /\ IsSeq(h) /\ Len(h) = Len(g) - 1 /\ \A i \in 1 .. Len(g) - 2 : h[i] = g[i]
        /\ h[Len(g) - 1] = g[Len(g)]
    BY <1>1, <2>1, <2>3, RemoveFacts
  <2>7. ASSUME NEW i \in 1 .. Len(h) PROVE r[x + i] = h[i]
    <3>1. CASE i = Len(g) - 1
      <4>1. x + i = Len(f) - 1 /\ Len(f) = x + Len(g) /\ Len(g) \in 1 .. Len(g)
        BY <1>1, <1>2, <2>3, <3>1
      <4>2. f[x + Len(g)] = g[Len(g)] BY <1>1, <4>1
      <4> QED BY <2>5, <2>6, <3>1, <4>1, <4>2
    <3>2. CASE i # Len(g) - 1
      <4>1. i \in 1 .. Len(g) - 2 /\ i \in 1 .. Len(g) /\ x + i \in 1 .. Len(f) - 2
        BY <1>1, <1>2, <2>3, <2>6, <3>2
      <4> QED BY <1>1, <2>5, <2>6, <4>1
    <3> QED BY <3>1, <3>2
  <2>8. Len(r) = x + Len(h) /\ Len(h) \in Nat BY <1>1, <1>2, <2>3, <2>5, <2>6
  <2>9. On(r, x, h) BY <1>1, <2>5, <2>6, <2>7, <2>8 DEF On
  <2>10. Same(f, r, x) BY <1>1, <1>2, <2>3, <2>5 DEF Same
  <2> QED BY <2>2, <2>8, <2>9, <2>10 DEF Tops
<1>8. CASE op.op \in {"concat", "getTable"}
  <2>1. Len(g) > 1 /\ Len(g) > 0 BY <1>2, <1>8 DEF Enough
  <2>2. PICK r, h : r = Front(f) /\ h = Front(g) OBVIOUS
  <2>3. Tops(r, x, h) /\ Same(f, r, x) /\ Last(f) = Last(g) /\ Len(h) = Len(g) - 1
    BY <2>1, <2>2, FrontOn
  <2>4. CASE op.op = "concat"
    <3>1. PICK w : w = Last(g) OBVIOUS
    <3>2. Len(h) > 0 BY <1>2, <2>1, <2>3
    <3>3. PICK q, p : q = Front(r) /\ p = Front(h) OBVIOUS
    <3>4. Tops(q, x, p) /\ Same(r, q, x) BY <2>3, <3>2, <3>3, FrontOn
    <3>5. Tops(Append(q, w), x, Append(p, w)) /\ Same(q, Append(q, w), x) BY <3>4, AppendOn
    <3>6. Apply(f, op) = Append(q, w) /\ Apply(g, op) = Append(p, w)
      BY <2>2, <2>3, <2>4, <3>1, <3>3 DEF Apply
    <3>7. Same(f, Append(q, w), x) BY <1>1, <2>3, <3>4, <3>5, SameTrans
    <3> QED BY <3>5, <3>6, <3>7
  <2>5. CASE op.op = "getTable"
    <3>1. PICK w : w = Field(g[Len(g) - 1], Last(g).v) OBVIOUS
    <3>0. f[Len(f) - 1] = g[Len(g) - 1]
      <4>1. Len(g) - 1 \in 1 .. Len(g) /\ x + (Len(g) - 1) = Len(f) - 1 BY <1>1, <1>2, <2>1
      <4> QED BY <1>1, <4>1
    <3>2. Apply(f, op) = Append(r, w) /\ Apply(g, op) = Append(h, w)
      BY <2>2, <2>3, <2>5, <3>0, <3>1 DEF Apply
    <3>3. Tops(Append(r, w), x, Append(h, w)) /\ Same(r, Append(r, w), x) BY <2>3, AppendOn
    <3>4. Same(f, Append(r, w), x) BY <1>1, <2>3, <3>3, SameTrans
    <3> QED BY <3>2, <3>3, <3>4
  <2> QED BY <1>8, <2>4, <2>5
<1> QED BY <1>3, <1>4, <1>5, <1>6, <1>7, <1>8 DEF Enough, Ops
-----------------------------------------------------------------------------
(* What the natives of an activation do to its part.                       *)

\* b is a after a native, as far as its part of the frame is concerned.
Same3(a, b) == b.who = a.who /\ b.nres = a.nres /\ b.top = a.top

LEMMA TailFacts ==
  ASSUME NEW s, IsSeq(s), Len(s) > 0
  PROVE  /\ IsSeq(Tail(s)) /\ Len(Tail(s)) = Len(s) - 1 /\ Head(s) = s[1]
         /\ \A i \in 1 .. Len(s) - 1 : Tail(s)[i] = s[i + 1]
<1>1. PICK S : s \in Seq(S) BY DEF IsSeq
<1>2. s # <<>> BY <1>1, EmptySeq
<1>3. /\ Head(s) \in S /\ Tail(s) \in Seq(S)
      /\ Len(Tail(s)) = Len(s) - 1 /\ Head(s) = s[1]
      /\ \A i \in 1 .. Len(s) - 1 : Tail(s)[i] = s[i + 1]
  <2>1. Len(s) \in Nat BY SeqFacts
  <2>2. Len(Tail(s)) = Len(s) - 1 /\ \A i \in 1 .. Len(Tail(s)) : Tail(s)[i] = s[i + 1]
    BY ONLY <1>1, <1>2, HeadTailProperties
  <2>3. Head(s) \in S /\ Tail(s) \in Seq(S) BY ONLY <1>1, <1>2, HeadTailProperties
  <2>4. Head(s) = s[1] BY <1>1, <1>2
  <2> QED BY <2>2, <2>3, <2>4
<1> QED BY <1>3 DEF IsSeq

\* One native is done.
LEMMA PathTail ==
  ASSUME NEW who, NEW nres, NEW code, NEW o, Path(who, nres, code, o), Len(code) > 0
  PROVE  /\ \E r : r[0] = o[1] /\ Path(who, nres, Tail(code), r)
         /\ Len(Tail(code)) > 0 => Tail(code)[1].op # "setTop"
         /\ Len(Tail(code)) \in Nat /\ Len(Tail(code)) = Len(code) - 1
<1>1. PICK n, c : n = Len(code) /\ c = Tail(code) OBVIOUS
<1>2. PICK r : r = [i \in 0 .. n - 1 |-> o[i + 1]] OBVIOUS
<1>3. IsSeq(code) /\ n \in Nat /\ n > 0 BY <1>1, SeqFacts DEF Path, Coded
<1>4. IsSeq(c) /\ Len(c) = n - 1 /\ \A i \in 1 .. n - 1 : c[i] = code[i + 1]
  BY <1>1, <1>3, TailFacts
<1>5. \A i \in 0 .. n - 1 : r[i] = o[i + 1] BY <1>2
<1>6. \A i \in 1 .. n - 1 : /\ i + 1 \in 1 .. n /\ i + 1 # 1 /\ i \in 0 .. n - 1
                            /\ i - 1 \in 0 .. n - 1
                            /\ i - 1 + 1 = i /\ i + 1 - 1 = i /\ n - (i + 1) = n - 1 - i
  BY <1>3
<1>7. \A i \in 0 .. n - 1 : i + 1 \in 0 .. n BY <1>3
<1>8. n - 1 \in 0 .. n - 1 /\ n - 1 + 1 = n /\ 0 \in 0 .. n - 1 /\ 0 + 1 = 1 BY <1>3
<1>9. Coded(c)
  <2>1. \A i \in 1 .. Len(c) : /\ c[i].op \in Ops \cup Running /\ c[i].n \in Nat
                               /\ c[i].op = "pcall" => IsSeq(c[i].args)
    <3>1. Coded(code) BY DEF Path
    <3> QED BY <1>1, <1>4, <1>6, <3>1 DEF Coded
  <2> QED BY <1>4, <2>1 DEF Coded
<1>10. \A i \in 0 .. n - 1 : IsSeq(r[i]) BY <1>1, <1>5, <1>7 DEF Path
<1>11. ASSUME NEW i \in 1 .. n - 1
       PROVE  /\ Turns(r[i - 1], c[i], r[i])
              /\ c[i].op \in Running => who \in Failing /\ c[i].n = nres
                 /\ Len(r[i]) = Residue(who, n - 1 - i)
              /\ c[i].op \in {"load", "doFile"} => who \in Clears /\ Len(r[i - 1]) = 0
              /\ c[i].op # "setTop"
  <2>1. PICK j : j = i + 1 OBVIOUS
  <2>2. j \in 1 .. n /\ j - 1 = i /\ j # 1 /\ n - j = n - 1 - i BY <1>6, <2>1
  <2>3. c[i] = code[j] /\ r[i] = o[j] /\ r[i - 1] = o[j - 1]
    <3>1. c[i] = code[j] /\ r[i] = o[j] BY <1>4, <1>5, <1>6, <2>1
    <3>2. PICK k : k = i - 1 /\ k \in 0 .. n - 1 /\ k + 1 = i BY <1>6
    <3>3. r[k] = o[k + 1] BY <1>5, <3>2
    <3> QED BY <2>2, <3>1, <3>2, <3>3
  <2>4. /\ Turns(o[j - 1], code[j], o[j])
        /\ code[j].op \in Running => who \in Failing /\ code[j].n = nres
           /\ Len(o[j]) = Residue(who, n - j)
        /\ code[j].op \in {"load", "doFile"} => who \in Clears /\ Len(o[j - 1]) = 0
        /\ code[j].op # "setTop"
    <3>1. Turns(o[j - 1], code[j], o[j]) BY <1>1, <2>2 DEF Path
    <3>2. code[j].op \in Running => who \in Failing /\ code[j].n = nres
                                   /\ Len(o[j]) = Residue(who, n - j)
      BY <1>1, <2>2 DEF Path
    <3>3. code[j].op \in {"load", "doFile"} => who \in Clears /\ Len(o[j - 1]) = 0
      BY <1>1, <2>2 DEF Path
    <3>4. code[j].op # "setTop" BY <1>1, <2>2 DEF Path
    <3> QED BY <3>1, <3>2, <3>3, <3>4
  <2> QED BY <2>2, <2>3, <2>4
<1>12. Len(r[n - 1]) = Rest(who) BY <1>1, <1>5, <1>8 DEF Path
<1>13. nres = 1 => who \in {"call", "file"} /\ \A i \in 1 .. n - 1 : c[i].op \in Running <=> i = n - 1
  <2>1. \A i \in 1 .. n - 1 : i + 1 = n <=> i = n - 1 BY <1>3
  <2> QED BY <1>1, <1>4, <1>6, <2>1 DEF Path
<1>14. nres \in {0, 1} BY DEF Path
<1>15. Path(who, nres, c, r) BY <1>4, <1>9, <1>10, <1>11, <1>12, <1>13, <1>14 DEF Path
<1>16. r[0] = o[1] BY <1>5, <1>8
<1>17. Len(c) > 0 => c[1].op # "setTop" BY <1>3, <1>4, <1>11
<1> QED BY <1>1, <1>3, <1>4, <1>15, <1>16, <1>17

\* Before a native of a: all that a has, and what the native turns it into.
LEMMA SitsFacts ==
  ASSUME NEW a, NEW f, Sits(a, f, Len(f)), ~a.failed, Len(a.code) > 0
  PROVE  \E g, o : /\ o[0] = g /\ Path(a.who, a.nres, a.code, o)
                   /\ Tops(f, Base(a), g) /\ Turns(g, a.code[1], o[1])
                   /\ IsSeq(o[1]) /\ Len(a.code) \in Nat /\ a.code[1].n \in Nat
<1>1. PICK g : Ready(a, g) /\ On(f, Base(a), g) /\ Len(f) = Base(a) + Len(g) + Extra(a)
  BY DEF Sits
<1>2. PICK o : o[0] = g /\ Path(a.who, a.nres, a.code, o) BY <1>1 DEF Ready
<1>3. IsSeq(a.code) /\ Len(a.code) \in Nat BY <1>2, SeqFacts DEF Path, Coded
<1>4. Extra(a) = 0 BY <1>3 DEF Extra
<1>5. IsSeq(g) /\ Base(a) \in Nat BY <1>1 DEF On
<1>6. Len(g) \in Nat BY <1>5, SeqFacts
<1>7. Tops(f, Base(a), g) BY <1>1, <1>4, <1>5, <1>6 DEF Tops
<1>8. 1 \in 1 .. Len(a.code) /\ 1 - 1 = 0 /\ 1 \in 0 .. Len(a.code) BY <1>3
<1>9. Turns(g, a.code[1], o[1]) /\ IsSeq(o[1]) /\ a.code[1].n \in Nat BY <1>2, <1>8 DEF Path, Coded
<1> QED BY <1>2, <1>3, <1>7, <1>9

\* A native other than those that run Lua code.
LEMMA NativeSits ==
  ASSUME NEW a, NEW f, Sits(a, f, Len(f)), ~a.failed, Len(a.code) > 0, a.code[1].op \notin Running,
         NEW b, Same3(a, b), b.code = Tail(a.code), b.did = a.did, b.meant = a.meant,
         b.failed = a.failed, b.ret = a.ret,
         NEW r, r = Apply(f, a.code[1])
  PROVE  Sits(b, r, Len(r)) /\ (a.who \notin Clears => Same(f, r, a.top))
<1>1. PICK g, o : /\ o[0] = g /\ Path(a.who, a.nres, a.code, o)
                  /\ Tops(f, Base(a), g) /\ Turns(g, a.code[1], o[1])
                  /\ IsSeq(o[1]) /\ Len(a.code) \in Nat /\ a.code[1].n \in Nat
  BY SitsFacts
<1>2. PICK op, h : op = a.code[1] /\ h = Apply(g, op) OBVIOUS
<1>3. Enough(g, op) /\ o[1] = h BY <1>1, <1>2 DEF Turns, Running
<1>4. /\ \E q : q[0] = o[1] /\ Path(a.who, a.nres, Tail(a.code), q)
      /\ Len(Tail(a.code)) > 0 => Tail(a.code)[1].op # "setTop"
      /\ Len(Tail(a.code)) \in Nat /\ Len(Tail(a.code)) = Len(a.code) - 1
  <2>1. PICK who, nres, code : who = a.who /\ nres = a.nres /\ code = a.code OBVIOUS
  <2>2. Path(who, nres, code, o) /\ Len(code) > 0 BY <1>1, <2>1
  <2>3. /\ \E q : q[0] = o[1] /\ Path(who, nres, Tail(code), q)
        /\ Len(Tail(code)) > 0 => Tail(code)[1].op # "setTop"
        /\ Len(Tail(code)) \in Nat /\ Len(Tail(code)) = Len(code) - 1
    BY ONLY <2>2, PathTail
  <2> QED BY <2>1, <2>3
<1>5. Ready(b, h) BY <1>3, <1>4 DEF Ready, Same3
<1>6. Begun(b) BY <1>4 DEF Begun
<1>7. Extra(b) = 0
  <2>1. ASSUME a.nres = 1, Len(b.code) = 0 PROVE FALSE
    <3>1. Len(a.code) = 1 BY <1>1, <1>4, <2>1
    <3>2. 1 \in 1 .. Len(a.code) BY <3>1
    <3> QED BY <1>1, <2>1, <3>1, <3>2 DEF Path
  <2> QED BY <2>1 DEF Extra, Same3
<1>8. /\ Tops(r, Base(b), h)
      /\ a.who \notin Clears => Same(f, r, a.top)
  <2>1. CASE op.op # "setTop"
    <3>1. Begun(a) BY <1>2, <2>1 DEF Begun
    <3>2. Base(b) = Base(a) BY <1>6, <3>1 DEF Base, Same3
    <3>3. Tops(r, Base(a), h) /\ Same(f, r, Base(a))
      <4>1. PICK x : x = Base(a) OBVIOUS
      <4>2. Tops(f, x, g) /\ op.n \in Nat /\ r = Apply(f, op) BY <1>1, <1>2, <4>1
      <4>3. Tops(r, x, h) /\ Same(f, r, x) BY <1>2, <1>3, <2>1, <4>2, ApplyOn
      <4> QED BY <4>1, <4>3
    <3> QED BY <3>2, <3>3 DEF Base
  <2>2. CASE op.op = "setTop"
    <3>1. r = <<>> /\ h = <<>> BY <1>2, <2>2 DEF Apply
    <3>2. a.who \in Clears
      <4>1. 1 \in 1 .. Len(a.code) BY <1>1
      <4> QED BY <1>1, <1>2, <2>2, <4>1 DEF Path
    <3>3. Base(b) = 0 BY <1>6, <3>2 DEF Base, Same3
    <3>4. IsSeq(<<>>) /\ Len(<<>>) = 0 BY EmptySeq DEF IsSeq
    <3>5. Tops(r, 0, h) BY <3>1, <3>4 DEF Tops, On
    <3> QED BY <3>2, <3>3, <3>5
  <2> QED BY <2>1, <2>2
<1>9. Len(r) = Base(b) + Len(h) + Extra(b) /\ Len(r) <= Len(r)
  <2>1. Len(r) = Base(b) + Len(h) /\ IsSeq(r) /\ IsSeq(h) BY <1>8 DEF Tops, On
  <2>2. Len(r) \in Nat BY <2>1, SeqFacts
  <2> QED BY <1>7, <2>1, <2>2
<1>10. b.did = b.meant /\ b.top \in Nat /\ ~b.failed BY DEF Sits, Same3
<1>11. Sits(b, r, Len(r)) BY <1>5, <1>7, <1>8, <1>9, <1>10 DEF Sits, Tops
<1> QED BY <1>8, <1>11

\* Loading can fail as a pcall can: nothing is on the base.
LEMMA LoadHalts ==
  ASSUME NEW a, NEW f, Sits(a, f, Len(f)), ~a.failed, Len(a.code) > 0,
         a.code[1].op \in {"load", "doFile"}
  PROVE  Halts(a, f)
<1>1. PICK g, o : /\ o[0] = g /\ Path(a.who, a.nres, a.code, o)
                  /\ Tops(f, Base(a), g) /\ Turns(g, a.code[1], o[1])
                  /\ IsSeq(o[1]) /\ Len(a.code) \in Nat /\ a.code[1].n \in Nat
  BY SitsFacts
<1>2. 1 \in 1 .. Len(a.code) /\ 1 - 1 = 0 BY <1>1
<1>3. a.who \in Clears /\ Len(g) = 0 BY <1>1, <1>2 DEF Path
<1>4. Len(g) = Residue(a.who, Len(a.code)) BY <1>3 DEF Residue, Clears
<1>5. Ready(a, g) BY <1>1 DEF Ready
<1>6. Begun(a) BY DEF Begun
<1>7. a.who \in Failing BY <1>3 DEF Clears, Failing
<1> QED BY <1>1, <1>4, <1>5, <1>6, <1>7 DEF Halts, Tops, Sits

\* A file that has been loaded runs on what was there.
LEMMA DoFileWaits ==
  ASSUME NEW a, NEW f, Sits(a, f, Len(f)), ~a.failed, Len(a.code) > 0, a.code[1].op = "doFile",
         NEW b, Same3(a, b), b.code = Tail(a.code), b.did = a.did, b.meant = a.meant,
         b.failed = a.failed
  PROVE  Waits(b, f) /\ a.code[1].n = a.nres /\ IsSeq(f)
<1>1. PICK g, o : /\ o[0] = g /\ Path(a.who, a.nres, a.code, o)
                  /\ Tops(f, Base(a), g) /\ Turns(g, a.code[1], o[1])
                  /\ IsSeq(o[1]) /\ Len(a.code) \in Nat /\ a.code[1].n \in Nat
  BY SitsFacts
<1>2. o[1] = g BY <1>1 DEF Turns, Enough, Ops
<1>3. /\ \E q : q[0] = o[1] /\ Path(a.who, a.nres, Tail(a.code), q)
      /\ Len(Tail(a.code)) > 0 => Tail(a.code)[1].op # "setTop"
      /\ Len(Tail(a.code)) \in Nat /\ Len(Tail(a.code)) = Len(a.code) - 1
  <2>1. PICK who, nres, code : who = a.who /\ nres = a.nres /\ code = a.code OBVIOUS
  <2>2. Path(who, nres, code, o) /\ Len(code) > 0 BY <1>1, <2>1
  <2>3. /\ \E q : q[0] = o[1] /\ Path(who, nres, Tail(code), q)
        /\ Len(Tail(code)) > 0 => Tail(code)[1].op # "setTop"
        /\ Len(Tail(code)) \in Nat /\ Len(Tail(code)) = Len(code) - 1
    BY ONLY <2>2, PathTail
  <2> QED BY <2>1, <2>3
<1>4. Ready(b, g) BY <1>2, <1>3 DEF Ready, Same3
<1>5. Begun(a) /\ Begun(b) /\ Base(b) = Base(a) BY <1>3 DEF Begun, Base, Same3
<1>6. 1 \in 1 .. Len(a.code) BY <1>1
<1>7. /\ a.who \in Failing /\ a.code[1].n = a.nres /\ Len(g) = Residue(a.who, Len(a.code) - 1)
      /\ a.nres = 1 => 1 = Len(a.code)
  BY <1>1, <1>2, <1>6 DEF Path, Running
<1>8. Waits(b, f)
  <2>1. b.did = b.meant /\ b.top \in Nat /\ ~b.failed /\ b.who \in Failing /\ Begun(b)
    BY <1>5, <1>7 DEF Sits, Same3
  <2>2. Len(g) = Residue(b.who, Len(b.code)) BY <1>3, <1>7 DEF Same3
  <2>3. b.nres = 1 => Len(b.code) = 0 BY <1>3, <1>7 DEF Same3
  <2> QED BY <1>1, <1>4, <1>5, <2>1, <2>2, <2>3 DEF Waits, Halts, Tops
<1> QED BY <1>1, <1>7, <1>8 DEF Tops, On

\* What a pcall finds, and what is left when it has taken it.
LEMMA PCallWaits ==
  ASSUME NEW a, NEW f, Sits(a, f, Len(f)), ~a.failed, Len(a.code) > 0, a.code[1].op = "pcall",
         NEW b, Same3(a, b), b.code = Tail(a.code), b.did = b.meant,
         b.failed = a.failed,
         NEW k, k = Len(f) - Len(a.code[1].args)
  PROVE  /\ k \in Nat /\ k >= 1 /\ IsSeq(f) /\ a.code[1].n = a.nres /\ a.nres \in {0, 1}
         /\ SubSeq(f, k, Len(f)) = <<a.code[1].fn>> \o a.code[1].args
         /\ Waits(b, SubSeq(f, 1, k - 1))
         /\ a.who \notin Clears => Same(f, SubSeq(f, 1, k - 1), a.top)
<1>1. PICK g, o : /\ o[0] = g /\ Path(a.who, a.nres, a.code, o)
                  /\ Tops(f, Base(a), g) /\ Turns(g, a.code[1], o[1])
                  /\ IsSeq(o[1]) /\ Len(a.code) \in Nat /\ a.code[1].n \in Nat
  BY SitsFacts
<1>2. PICK op, h, x, args : op = a.code[1] /\ h = o[1] /\ x = Base(a) /\ args = op.args OBVIOUS
<1>3. /\ IsSeq(args) /\ Len(g) = Len(h) + 1 + Len(args)
      /\ \A i \in 1 .. Len(h) : g[i] = h[i]
      /\ g[Len(h) + 1] = op.fn
      /\ \A i \in 1 .. Len(args) : g[Len(h) + 1 + i] = args[i]
  BY <1>1, <1>2 DEF Turns, Enough, Ops
<1>4. IsSeq(f) /\ IsSeq(g) /\ x \in Nat /\ Len(f) = x + Len(g)
      /\ \A i \in 1 .. Len(g) : f[x + i] = g[i]
  BY <1>1, <1>2 DEF Tops, On
<1>5. Len(f) \in Nat /\ Len(g) \in Nat /\ Len(h) \in Nat /\ Len(args) \in Nat /\ IsSeq(h)
  BY <1>1, <1>2, <1>3, <1>4, SeqFacts
<1>n. \A X, H, A, K, F, G \in Int :
        X >= 0 /\ H >= 0 /\ A >= 0 /\ F = X + G /\ G = H + 1 + A /\ K = F - A =>
          K = X + H + 1 /\ K \in Nat /\ K >= 1 /\ K <= F /\ K + 1 - 1 = X + (H + 1)
          /\ H + 1 \in 1 .. G
  OBVIOUS
<1>6. k = x + Len(h) + 1 /\ k \in Nat /\ k >= 1 /\ k <= Len(f)
      /\ k + 1 - 1 = x + (Len(h) + 1) /\ Len(h) + 1 \in 1 .. Len(g)
  <2>1. k = Len(f) - Len(args) BY <1>2
  <2>2. x >= 0 /\ Len(h) >= 0 /\ Len(args) >= 0 /\ Len(f) = x + Len(g)
        /\ Len(g) = Len(h) + 1 + Len(args)
    BY <1>3, <1>4, <1>5
  <2>3. x \in Int /\ Len(h) \in Int /\ Len(args) \in Int /\ Len(f) \in Int /\ Len(g) \in Int
        /\ k \in Int
    BY <1>4, <1>5, <2>1
  <2> QED BY ONLY <1>n, <2>1, <2>2, <2>3
<1>7. SubSeq(f, k, Len(f)) = <<op.fn>> \o args
  <2>1. PICK n, p, w : n = Len(f) /\ p = SubSeq(f, k, n) /\ w = op.fn OBVIOUS
  <2>2. IsSeq(p) /\ Len(p) = Len(args) + 1 /\ \A i \in 1 .. Len(args) + 1 : p[i] = f[k + i - 1]
    <3>1. PICK S : f \in Seq(S) BY <1>4 DEF IsSeq
    <3>2. ASSUME NEW i \in k .. n PROVE f[i] \in S
      <4>1. i \in 1 .. Len(f) BY <1>5, <1>6, <2>1
      <4> QED BY ONLY <3>1, <4>1, ElementOfSeq
    <3>3. k \in Int /\ n \in Int BY <1>5, <1>6, <2>1
    <3>4. /\ SubSeq(f, k, n) \in Seq(S)
          /\ Len(SubSeq(f, k, n)) = IF k <= n THEN n - k + 1 ELSE 0
          /\ \A i \in 1 .. n - k + 1 : SubSeq(f, k, n)[i] = f[k + i - 1]
      BY ONLY <3>2, <3>3, SubSeqProperties
    <3>5. k <= n /\ n - k + 1 = Len(args) + 1 BY <1>2, <1>5, <1>6, <2>1
    <3> QED BY <2>1, <3>4, <3>5 DEF IsSeq
  <2>3. PICK c : c = <<w>> OBVIOUS
  <2>4. IsSeq(c) /\ Len(c) = 1 /\ c[1] = w
    <3>1. c \in Seq({w}) /\ Len(c) = 1 /\ c[1] = w BY <2>3
    <3> QED BY <3>1 DEF IsSeq
  <2>5. PICK q : q = c \o args OBVIOUS
  <2>6. /\ IsSeq(q) /\ Len(q) = Len(c) + Len(args)
        /\ \A i \in 1 .. Len(c) : q[i] = c[i]
        /\ \A i \in 1 .. Len(args) : q[Len(c) + i] = args[i]
    <3>1. IsSeq(c) /\ IsSeq(args) BY <1>3, <2>4
    <3>2. /\ IsSeq(c \o args) /\ Len(c \o args) = Len(c) + Len(args)
          /\ \A i \in 1 .. Len(c) : (c \o args)[i] = c[i]
          /\ \A i \in 1 .. Len(args) : (c \o args)[Len(c) + i] = args[i]
      BY ONLY <3>1, ConcatFacts
    <3> QED BY <2>5, <3>2
  <2>7. Len(p) = Len(q) BY <1>5, <2>2, <2>4, <2>6
  <2>8. ASSUME NEW i \in 1 .. Len(p) PROVE p[i] = q[i]
    <3>1. CASE i = 1
      <4>1. k + i - 1 = x + (Len(h) + 1) /\ Len(h) + 1 \in 1 .. Len(g) /\ i \in 1 .. Len(args) + 1
        BY <1>6, <2>2, <3>1
      <4>2. p[i] = w BY <1>3, <1>4, <2>1, <2>2, <4>1
      <4>3. q[i] = w BY <2>4, <2>6, <3>1
      <4> QED BY <4>2, <4>3
    <3>2. CASE i # 1
      <4>1. PICK j : j = i - 1 OBVIOUS
      <4>2. j \in 1 .. Len(args) /\ i = 1 + j /\ i \in 1 .. Len(args) + 1 BY <1>5, <2>2, <3>2, <4>1
      <4>3. k + i - 1 = x + (Len(h) + 1 + j) /\ Len(h) + 1 + j \in 1 .. Len(g)
        <5>1. \A X, H, A, K, G, J \in Int :
                X >= 0 /\ H >= 0 /\ J \in 1 .. A /\ G = H + 1 + A /\ K = X + H + 1 =>
                  K + (1 + J) - 1 = X + (H + 1 + J) /\ H + 1 + J \in 1 .. G
          OBVIOUS
        <5>2. x >= 0 /\ Len(h) >= 0 /\ j \in 1 .. Len(args) /\ Len(g) = Len(h) + 1 + Len(args)
              /\ k = x + Len(h) + 1 /\ i = 1 + j
          <6>1. x >= 0 BY <1>4
          <6>2. Len(h) >= 0 BY <1>5
          <6>3. j \in 1 .. Len(args) /\ i = 1 + j BY <4>2
          <6>4. Len(g) = Len(h) + 1 + Len(args) /\ k = x + Len(h) + 1 BY <1>3, <1>6
          <6> QED BY ONLY <6>1, <6>2, <6>3, <6>4
        <5>3. x \in Int /\ Len(h) \in Int /\ Len(args) \in Int /\ Len(g) \in Int /\ k \in Int
              /\ j \in Int
          BY <1>4, <1>5, <1>6, <4>2
        <5> QED BY ONLY <5>1, <5>2, <5>3
      <4>4. p[i] = args[j] BY <1>3, <1>4, <2>2, <4>2, <4>3
      <4>5. q[1 + j] = args[j] BY <2>4, <2>6, <4>2
      <4> QED BY <4>2, <4>4, <4>5
    <3> QED BY <3>1, <3>2
  <2>9. p = q BY <2>2, <2>6, <2>7, <2>8, SameSeq
  <2> QED BY <2>1, <2>3, <2>5, <2>9
<1>8. PICK below : below = SubSeq(f, 1, k - 1) OBVIOUS
<1>9. Tops(below, x, h) /\ Same(f, below, x)
  <2>1. PICK m : m = k - 1 OBVIOUS
  <2>2. m = x + Len(h) /\ m \in Int /\ m \in Nat /\ m <= Len(f) BY <1>4, <1>5, <1>6, <2>1
  <2>3. (IF m >= 1 THEN m ELSE 0) = m
    <3>1. \A j \in Nat : (IF j >= 1 THEN j ELSE 0) = j OBVIOUS
    <3> QED BY <2>2, <3>1
  <2>4. IsSeq(below) /\ Len(below) = m /\ \A i \in 1 .. m : below[i] = f[i]
    BY <1>8, <2>1, <2>2, <2>3, CutFacts
  <2>5. ASSUME NEW i \in 1 .. Len(h) PROVE below[x + i] = h[i]
    <3>1. x + i \in 1 .. m /\ i \in 1 .. Len(g) BY <1>3, <1>4, <1>5, <2>2
    <3> QED BY <1>3, <1>4, <2>4, <3>1
  <2>6. On(below, x, h) BY <1>4, <1>5, <2>2, <2>4, <2>5 DEF On
  <2>7. Same(f, below, x) BY <1>4, <1>5, <2>2, <2>4 DEF Same
  <2> QED BY <2>2, <2>4, <2>6, <2>7 DEF Tops
<1>10. /\ \E q : q[0] = o[1] /\ Path(a.who, a.nres, Tail(a.code), q)
       /\ Len(Tail(a.code)) > 0 => Tail(a.code)[1].op # "setTop"
       /\ Len(Tail(a.code)) \in Nat /\ Len(Tail(a.code)) = Len(a.code) - 1
  <2>1. PICK who, nres, code : who = a.who /\ nres = a.nres /\ code = a.code OBVIOUS
  <2>2. Path(who, nres, code, o) /\ Len(code) > 0 BY <1>1, <2>1
  <2>3. /\ \E q : q[0] = o[1] /\ Path(who, nres, Tail(code), q)
        /\ Len(Tail(code)) > 0 => Tail(code)[1].op # "setTop"
        /\ Len(Tail(code)) \in Nat /\ Len(Tail(code)) = Len(code) - 1
    BY ONLY <2>2, PathTail
  <2> QED BY <2>1, <2>3
<1>11. Ready(b, h) BY <1>2, <1>10 DEF Ready, Same3
<1>12. Begun(a) /\ Begun(b) /\ Base(b) = x BY <1>2, <1>10 DEF Begun, Base, Same3
<1>13. 1 \in 1 .. Len(a.code) BY <1>1
<1>14. /\ a.who \in Failing /\ op.n = a.nres /\ Len(h) = Residue(a.who, Len(a.code) - 1)
       /\ a.nres \in {0, 1} /\ (a.nres = 1 => 1 = Len(a.code))
  BY <1>1, <1>2, <1>13 DEF Path, Running
<1>15. Waits(b, below)
  <2>1. b.did = b.meant /\ b.top \in Nat /\ ~b.failed /\ b.who \in Failing /\ Begun(b)
    BY <1>12, <1>14 DEF Sits, Same3
  <2>2. Len(h) = Residue(b.who, Len(b.code)) BY <1>10, <1>14 DEF Same3
  <2>3. b.nres = 1 => Len(b.code) = 0 BY <1>10, <1>14 DEF Same3
  <2> QED BY <1>9, <1>11, <1>12, <2>1, <2>2, <2>3 DEF Waits, Halts, Tops
<1>16. a.who \notin Clears => Same(f, below, a.top) BY <1>2, <1>9 DEF Base
<1> QED BY <1>2, <1>4, <1>6, <1>7, <1>8, <1>14, <1>15, <1>16

LEMMA AppendSame ==
  ASSUME NEW f, IsSeq(f), NEW x \in Nat, x <= Len(f), NEW v
  PROVE  Same(f, Append(f, v), x)
<1>1. PICK r : r = Append(f, v) OBVIOUS
<1>2. Len(f) \in Nat /\ Len(r) = Len(f) + 1 /\ \A i \in 1 .. Len(f) : r[i] = f[i]
  BY <1>1, SeqFacts, AppendFacts
<1>3. Same(f, r, x) BY <1>2 DEF Same
<1> QED BY <1>1, <1>3

\* A part under more of its frame.
LEMMA OnAppend ==
  ASSUME NEW f, NEW x, NEW g, On(f, x, g), NEW v
  PROVE  On(Append(f, v), x, g)
<1>1. PICK r : r = Append(f, v) OBVIOUS
<1>2. IsSeq(f) /\ IsSeq(g) /\ x \in Nat /\ x + Len(g) <= Len(f)
      /\ \A i \in 1 .. Len(g) : f[x + i] = g[i]
  BY DEF On
<1>3. Len(f) \in Nat /\ Len(g) \in Nat BY <1>2, SeqFacts
<1>4. IsSeq(r) /\ Len(r) = Len(f) + 1 /\ \A i \in 1 .. Len(f) : r[i] = f[i]
  BY <1>1, <1>2, AppendFacts
<1>5. \A i \in 1 .. Len(g) : x + i \in 1 .. Len(f) BY <1>2, <1>3
<1>6. On(r, x, g) BY <1>2, <1>3, <1>4, <1>5 DEF On
<1> QED BY <1>1, <1>6

\* An error value e comes back.
LEMMA HaltSits ==
  ASSUME NEW a, NEW f, Halts(a, f), NEW e,
         NEW b, Same3(a, b), b.code = a.code, b.did = a.did, b.meant = a.meant, b.failed = TRUE,
         NEW r, r = Append(f, e)
  PROVE  IsSeq(f) /\ Sits(b, r, Len(r)) /\ (a.who \notin Clears => Same(f, r, a.top))
<1>1. PICK g : Ready(a, g) /\ On(f, Base(a), g) /\ Len(f) = Base(a) + Len(g)
               /\ Len(g) = Residue(a.who, Len(a.code))
  BY DEF Halts
<1>2. PICK x : x = Base(a) OBVIOUS
<1>3. Ready(b, g) /\ Base(b) = x BY <1>1, <1>2 DEF Ready, Base, Begun, Same3
<1>4. Extra(b) = 1 BY DEF Extra
<1>5. IsSeq(f) /\ IsSeq(g) /\ x \in Nat BY <1>1, <1>2 DEF On
<1>6. Len(f) \in Nat /\ Len(g) \in Nat /\ Len(r) = Len(f) + 1 BY <1>5, SeqFacts, AppendFacts
<1>7. On(r, x, g) BY <1>1, <1>2, OnAppend
<1>8. Len(r) = x + Len(g) + 1 /\ Len(r) <= Len(r) BY <1>1, <1>2, <1>5, <1>6
<1>9. b.did = b.meant /\ b.top \in Nat /\ b.who \in Failing /\ Begun(b) BY DEF Halts, Same3, Begun
<1>10. Len(g) = Residue(b.who, Len(b.code)) BY <1>1 DEF Same3
<1>11. Sits(b, r, Len(r)) BY <1>3, <1>4, <1>7, <1>8, <1>9, <1>10 DEF Sits
<1>12. a.who \notin Clears => Same(f, r, a.top)
  <2>1. ASSUME a.who \notin Clears PROVE Same(f, r, a.top)
    <3>1. a.top = x BY <1>2, <2>1 DEF Base
    <3>2. x <= Len(f) BY <1>1, <1>2, <1>5, <1>6
    <3>3. Same(f, r, x) BY <1>5, <3>2, AppendSame
    <3> QED BY <3>1, <3>3
  <2> QED BY <2>1
<1> QED BY <1>5, <1>11, <1>12

LEMMA FailSits ==
  ASSUME NEW a, NEW f, Waits(a, f), NEW e,
         NEW b, Same3(a, b), b.code = a.code, b.did = a.did, b.meant = a.meant, b.failed = TRUE,
         NEW r, r = Append(f, e)
  PROVE  IsSeq(f) /\ Sits(b, r, Len(r)) /\ (a.who \notin Clears => Same(f, r, a.top))
BY HaltSits DEF Waits

\* The function returns, with a result v if one is wanted.
LEMMA ReturnSits ==
  ASSUME NEW a, NEW f, Waits(a, f), NEW v,
         NEW b, Same3(a, b), b.code = a.code, b.did = a.did, b.meant = a.meant,
         b.failed = a.failed, b.ret = v,
         NEW r, r = IF a.nres = 0 THEN f ELSE Append(f, v)
  PROVE  IsSeq(f) /\ Sits(b, r, Len(r)) /\ (a.who \notin Clears => Same(f, r, a.top))
<1>1. PICK g : Ready(a, g) /\ On(f, Base(a), g) /\ Len(f) = Base(a) + Len(g)
               /\ Len(g) = Residue(a.who, Len(a.code))
  BY DEF Waits, Halts
<1>2. PICK x : x = Base(a) OBVIOUS
<1>3. Ready(b, g) /\ Base(b) = x BY <1>1, <1>2 DEF Ready, Base, Begun, Same3
<1>4. IsSeq(f) /\ IsSeq(g) /\ x \in Nat BY <1>1, <1>2 DEF On
<1>5. Len(f) \in Nat /\ Len(g) \in Nat BY <1>4, SeqFacts
<1>6. a.nres \in {0, 1} BY <1>1 DEF Ready, Path
<1>7. b.did = b.meant /\ b.top \in Nat /\ ~b.failed BY DEF Waits, Halts, Same3
<1>8. a.who \notin Clears => a.top = x /\ x <= Len(f) BY <1>1, <1>2, <1>4, <1>5 DEF Base
<1>9. CASE a.nres = 0
  <2>1. r = f /\ Extra(b) = 0 BY <1>7, <1>9 DEF Extra, Same3
  <2>2. Len(r) = x + Len(g) + 0 /\ Len(r) <= Len(r) BY <1>1, <1>2, <1>4, <1>5, <2>1
  <2>3. Sits(b, r, Len(r)) BY <1>1, <1>2, <1>3, <1>7, <2>1, <2>2 DEF Sits
  <2>4. Same(f, f, x) BY <1>4, <1>5, <1>1, <1>2 DEF Same
  <2> QED BY <1>4, <1>8, <2>1, <2>3, <2>4
<1>10. CASE a.nres = 1
  <2>1. r = Append(f, v) /\ Extra(b) = 1 BY <1>7, <1>10 DEF Extra, Same3, Waits, Halts
  <2>2. Len(r) = Len(f) + 1 /\ r[Len(f) + 1] = v BY <1>4, <2>1, AppendFacts
  <2>3. On(r, x, g) BY <1>1, <1>2, <2>1, OnAppend
  <2>4. Len(r) = x + Len(g) + 1 /\ Len(r) <= Len(r) /\ r[Len(r)] = v
    BY <1>1, <1>2, <1>4, <1>5, <2>2
  <2>5. Sits(b, r, Len(r)) BY <1>3, <1>7, <2>1, <2>3, <2>4 DEF Sits
  <2>6. a.who \notin Clears => Same(f, r, x) BY <1>4, <1>8, <2>1, AppendSame
  <2> QED BY <1>4, <1>8, <2>5, <2>6
<1> QED BY <1>6, <1>9, <1>10

\* The code is at its end.
LEMMA EndFacts ==
  ASSUME NEW a, NEW f, Sits(a, f, Len(f)), ~a.failed, Len(a.code) = 0,
         NEW r, r = SubSeq(f, 1, Len(f) - Taken(a))
  PROVE  /\ IsSeq(f) /\ a.nres \in {0, 1} /\ (Taken(a) = 1 => Last(f) = a.ret)
         /\ a.who = "eval" => Len(r) = 0
         /\ a.who = "module" => Len(r) = 1
         /\ a.who = "file" => Len(r) = a.nres
         /\ a.who \notin Clears => Len(r) = a.top /\ Same(f, r, a.top)
<1>1. PICK g : Ready(a, g) /\ On(f, Base(a), g) /\ Len(f) = Base(a) + Len(g) + Extra(a)
  BY DEF Sits
<1>2. PICK x, m, z : x = Base(a) /\ m = Taken(a) /\ z = a.nres OBVIOUS
<1>3. IsSeq(f) /\ IsSeq(g) /\ x \in Nat BY <1>1, <1>2 DEF On
<1>4. Len(f) \in Nat /\ Len(g) \in Nat BY <1>3, SeqFacts
<1>5. z \in {0, 1} /\ Len(g) = Rest(a.who) /\ (z = 1 => a.who \in {"call", "file"})
  BY <1>1, <1>2 DEF Ready, Path
<1>6. Extra(a) = z BY <1>2, <1>5 DEF Extra
<1>7. m \in {0, 1} /\ m <= z /\ (a.who # "file" => m = z) /\ (a.who = "file" => m = 0)
  BY <1>2, <1>5 DEF Taken
<1>8. Taken(a) = 1 => Last(f) = a.ret
  <2>1. Taken(a) = 1 => Extra(a) = 1 BY <1>2, <1>5, <1>6, <1>7
  <2> QED BY <2>1 DEF Sits, Last
<1>9. PICK n : n = Len(f) - m OBVIOUS
<1>10. n = x + Len(g) + (z - m) /\ n \in Nat /\ n \in Int /\ x <= n /\ n <= Len(f)
  <2>1. \A F, X, G, E, M, N \in Int :
          X >= 0 /\ G >= 0 /\ M >= 0 /\ M <= E /\ F = X + G + E /\ N = F - M =>
            N = X + G + (E - M) /\ N \in Nat /\ N \in Int /\ X <= N /\ N <= F
    OBVIOUS
  <2>2. Len(f) = x + Len(g) + z BY ONLY <1>1, <1>2, <1>6
  <2>3. x \in Int /\ x >= 0 /\ Len(g) \in Int /\ Len(g) >= 0 /\ Len(f) \in Int /\ z \in Int
        /\ m \in Int /\ m >= 0 /\ n \in Int
    <3>1. z \in Int /\ m \in Int /\ m >= 0 BY <1>5, <1>7
    <3> QED BY ONLY <1>3, <1>4, <1>9, <3>1
  <2> QED BY ONLY <1>7, <1>9, <2>1, <2>2, <2>3
<1>11. (IF n >= 1 THEN n ELSE 0) = n
  <2>1. \A j \in Nat : (IF j >= 1 THEN j ELSE 0) = j OBVIOUS
  <2> QED BY <1>10, <2>1
<1>12. Len(r) = n /\ \A i \in 1 .. n : r[i] = f[i] BY <1>2, <1>9, <1>10, <1>11, CutFacts
<1>13. Same(f, r, x)
  <2>1. \A i \in 1 .. x : i \in 1 .. n BY ONLY <1>3, <1>10
  <2> QED BY ONLY <1>10, <1>12, <2>1 DEF Same
<1>14. Begun(a) BY DEF Begun
<1>15. a.who \in Clears => x = 0 BY <1>2, <1>14 DEF Base
<1>16. a.who \notin Clears => x = a.top BY <1>2 DEF Base
<1>17. Len(g) = IF a.who = "module" THEN 1 ELSE 0 BY <1>5 DEF Rest
<1>18. a.who \in {"eval", "module"} => z = 0 /\ m = 0 BY <1>5, <1>7
<1>n. 0 + 0 + (0 - 0) = 0 /\ 0 + 1 + (0 - 0) = 1 OBVIOUS
<1>19. a.who = "eval" => Len(r) = 0 BY ONLY <1>n, <1>10, <1>12, <1>15, <1>17, <1>18 DEF Clears
<1>20. a.who = "module" => Len(r) = 1 BY ONLY <1>n, <1>10, <1>12, <1>15, <1>17, <1>18 DEF Clears
<1>21. a.who = "file" => Len(r) = a.nres
  <2>1. ASSUME a.who = "file" PROVE Len(r) = a.nres
    <3>1. x = 0 /\ Len(g) = 0 /\ m = 0 BY <1>7, <1>15, <1>17, <2>1 DEF Clears
    <3>2. 0 + 0 + (z - 0) = z BY <1>5
    <3> QED BY ONLY <1>2, <1>10, <1>12, <3>1, <3>2
  <2> QED BY <2>1
<1>22. a.who \notin Clears => Len(r) = a.top
  <2>1. ASSUME a.who \notin Clears PROVE Len(r) = a.top
    <3>1. Len(g) = 0 /\ m = z BY <1>7, <1>17, <2>1 DEF Clears
    <3>2. x + 0 + (z - z) = x BY <1>3, <1>5
    <3> QED BY ONLY <1>10, <1>12, <1>16, <2>1, <3>1, <3>2
  <2> QED BY <2>1
<1> QED BY <1>2, <1>3, <1>5, <1>8, <1>13, <1>16, <1>19, <1>20, <1>21, <1>22

\* A pcall or loading has failed.
LEMMA FailedFacts ==
  ASSUME NEW a, NEW f, Sits(a, f, Len(f)), a.failed
  PROVE  /\ IsSeq(f) /\ Len(f) > 0 /\ a.who \in Failing
         /\ a.who \in {"eval", "module", "file"} =>
              Len(f) = IF Len(a.code) = 0 /\ a.who = "module" THEN 2 ELSE 1
         /\ a.who = "global" => Len(f) = a.top + 1
         /\ a.who = "call" => Len(Front(f)) = a.top
         /\ a.who = "trace" => Len(Front(f)) = a.top + 1
         /\ a.who \in {"call", "trace"} => Same(f, Front(f), a.top)
         /\ a.who \notin Clears => Same(f, f, a.top)
<1>1. PICK g : /\ Ready(a, g) /\ On(f, Base(a), g) /\ Len(f) = Base(a) + Len(g) + Extra(a)
               /\ a.who \in Failing /\ Len(g) = Residue(a.who, Len(a.code)) /\ Begun(a)
  BY DEF Sits
<1>2. PICK x : x = Base(a) OBVIOUS
<1>3. IsSeq(f) /\ IsSeq(g) /\ x \in Nat BY <1>1, <1>2 DEF On
<1>4. Len(f) \in Nat /\ Len(g) \in Nat BY <1>3, SeqFacts
<1>5. Len(f) = x + Len(g) + 1 BY <1>1, <1>2 DEF Extra
<1>6. a.who \in Clears => x = 0 BY <1>1, <1>2 DEF Base
<1>7. a.who \notin Clears => x = a.top BY <1>2 DEF Base
<1>8. Len(g) = IF (a.who = "module" /\ Len(a.code) = 0) \/ a.who = "trace" THEN 1 ELSE 0
  BY <1>1 DEF Residue
<1>9. a.who \in {"eval", "module", "file"} =>
        Len(f) = IF Len(a.code) = 0 /\ a.who = "module" THEN 2 ELSE 1
  BY <1>5, <1>6, <1>8 DEF Clears
<1>10. a.who \in {"global", "call"} => Len(f) = a.top + 1 /\ x = a.top
  <2>1. ASSUME a.who \in {"global", "call"} PROVE Len(f) = a.top + 1 /\ x = a.top
    <3>1. Len(g) = 0 /\ x = a.top BY <1>7, <1>8, <2>1 DEF Clears
    <3> QED BY <1>3, <1>5, <3>1
  <2> QED BY <2>1
<1>11. Len(f) > 0 /\ x <= Len(f) BY <1>3, <1>4, <1>5
<1>12. a.who \in {"call", "trace"} =>
         Len(Front(f)) = a.top + Len(g) /\ Same(f, Front(f), a.top)
  <2>1. ASSUME a.who \in {"call", "trace"}
        PROVE Len(Front(f)) = a.top + Len(g) /\ Same(f, Front(f), a.top)
    <3>1. IsSeq(Front(f)) /\ Len(Front(f)) = Len(f) - 1
          /\ \A i \in 1 .. Len(f) - 1 : Front(f)[i] = f[i]
      BY <1>3, <1>11, FrontFacts
    <3>2. Len(Front(f)) = x + Len(g) /\ x = a.top BY <1>3, <1>4, <1>5, <1>7, <2>1, <3>1 DEF Clears
    <3>3. Len(f) - 1 = x + Len(g) BY <3>1, <3>2
    <3>4. \A i \in 1 .. x : i \in 1 .. Len(f) - 1 BY <1>3, <1>4, <3>3
    <3>5. x <= Len(Front(f)) BY <1>3, <1>4, <3>2
    <3> QED BY <3>1, <3>2, <3>4, <3>5 DEF Same
  <2> QED BY <2>1
<1>14. (a.who = "call" => Len(Front(f)) = a.top) /\ (a.who = "trace" => Len(Front(f)) = a.top + 1)
  <2>1. a.who = "call" => Len(g) = 0 /\ a.top = x BY <1>7, <1>8 DEF Clears
  <2>2. a.who = "trace" => Len(g) = 1 BY <1>8
  <2>3. x + 0 = x BY <1>3
  <2> QED BY <1>12, <2>1, <2>2, <2>3
<1>13. a.who \notin Clears => Same(f, f, a.top) BY <1>3, <1>4, <1>7, <1>11 DEF Same
<1> QED BY <1>1, <1>3, <1>9, <1>10, <1>11, <1>12, <1>13, <1>14
-----------------------------------------------------------------------------
(* The code that Java code starts with.                                    *)

\* Native i of n, op, may turn g into r.
Fine(who, nres, n, g, op, r, i) ==
  /\ Turns(g, op, r) /\ IsSeq(r) /\ op.op \in Ops \cup Running /\ op.n \in Nat
  /\ op.op \in Running => who \in Failing /\ op.n = nres /\ Len(r) = Residue(who, n - i)
  /\ op.op \in {"load", "doFile"} => who \in Clears /\ Len(g) = 0
  /\ op.op = "setTop" => who \in Clears /\ i = 1
  /\ nres = 1 => (op.op \in Running <=> i = n)

LEMMA PathIntro ==
  ASSUME NEW who, NEW nres \in {0, 1}, NEW code, IsSeq(code), NEW o, IsSeq(o[0]),
         NEW n, n = Len(code), nres = 1 => who \in {"call", "file"}, Len(o[n]) = Rest(who),
         \A i \in 1 .. n : Fine(who, nres, n, o[i - 1], code[i], o[i], i)
  PROVE  Path(who, nres, code, o)
<1>1. n \in Nat BY SeqFacts
<1>2. \A i \in 0 .. n : i = 0 \/ i \in 1 .. n BY <1>1
<1>3. \A i \in 0 .. n : IsSeq(o[i]) BY <1>2 DEF Fine
<1>4. Coded(code) BY DEF Coded, Fine, Turns, Enough, Ops
<1>5. \A i \in 1 .. n : Turns(o[i - 1], code[i], o[i]) BY DEF Fine
<1>6. \A i \in 1 .. n : code[i].op \in Running =>
        who \in Failing /\ code[i].n = nres /\ Len(o[i]) = Residue(who, n - i)
  BY DEF Fine
<1>7. \A i \in 1 .. n : code[i].op \in {"load", "doFile"} => who \in Clears /\ Len(o[i - 1]) = 0
  BY DEF Fine
<1>8. \A i \in 1 .. n : code[i].op = "setTop" => who \in Clears /\ i = 1 BY DEF Fine
<1>9. nres = 1 => who \in {"call", "file"} /\ \A i \in 1 .. n : code[i].op \in Running <=> i = n
  BY DEF Fine
<1> QED BY <1>3, <1>4, <1>5, <1>6, <1>7, <1>8, <1>9 DEF Path

LEMMA PushFine ==
  ASSUME NEW who, NEW nres, NEW n, NEW i, nres = 1 => i # n, NEW g, IsSeq(g), NEW v
  PROVE  Fine(who, nres, n, g, PushOp(v), Append(g, v), i)
<1>1. PICK r : r = Append(g, v) OBVIOUS
<1>2. IsSeq(r) BY <1>1, AppendFacts
<1>3. PICK op : op = PushOp(v) OBVIOUS
<1>4. op.op = "push" /\ op.v = v /\ op.n = 1 BY <1>3 DEF PushOp, Op
<1>5. Apply(g, op) = r BY <1>1, <1>4 DEF Apply
<1>6. Enough(g, op) BY <1>4 DEF Enough, Ops
<1> QED BY <1>1, <1>2, <1>3, <1>4, <1>5, <1>6 DEF Fine, Turns, Ops, Running

LEMMA LoadFine ==
  ASSUME NEW who \in Clears, NEW nres, nres # 1, NEW n, NEW i, NEW g, IsSeq(g), Len(g) = 0, NEW v
  PROVE  Fine(who, nres, n, g, Op("load", v, 1), Append(g, v), i)
<1>1. PICK r : r = Append(g, v) OBVIOUS
<1>2. IsSeq(r) BY <1>1, AppendFacts
<1>3. PICK op : op = Op("load", v, 1) OBVIOUS
<1>4. op.op = "load" /\ op.v = v /\ op.n = 1 BY <1>3 DEF Op
<1>5. Apply(g, op) = r BY <1>1, <1>4 DEF Apply
<1>6. Enough(g, op) BY <1>4 DEF Enough, Ops
<1> QED BY <1>1, <1>2, <1>3, <1>4, <1>5, <1>6 DEF Fine, Turns, Ops, Running

LEMMA SetTopFine ==
  ASSUME NEW who \in Clears, NEW nres, NEW n, nres = 1 => 1 # n, NEW g, IsSeq(g)
  PROVE  Fine(who, nres, n, g, SetTopZero, <<>>, 1)
<1>1. IsSeq(<<>>) BY EmptySeq DEF IsSeq
<1>2. PICK op : op = SetTopZero OBVIOUS
<1>3. op.op = "setTop" /\ op.n = 0 BY <1>2 DEF SetTopZero, Op
<1>4. Apply(g, op) = <<>> BY <1>3 DEF Apply
<1>5. Enough(g, op) BY <1>3 DEF Enough, Ops
<1> QED BY <1>1, <1>2, <1>3, <1>4, <1>5 DEF Fine, Turns, Ops, Running

LEMMA DoFileFine ==
  ASSUME NEW who \in Clears, NEW nres \in {0, 1}, NEW n, NEW i, nres = 1 => i = n, NEW g, IsSeq(g),
         Len(g) = 0, Len(g) = Residue(who, n - i)
  PROVE  Fine(who, nres, n, g, Op("doFile", Nil, nres), g, i)
<1>1. PICK op : op = Op("doFile", Nil, nres) OBVIOUS
<1>2. op.op = "doFile" /\ op.n = nres BY <1>1 DEF Op
<1>3. who \in Failing BY DEF Clears, Failing
<1>4. Fine(who, nres, n, g, op, g, i) BY <1>2, <1>3 DEF Fine, Turns, Running
<1> QED BY <1>1, <1>4

LEMMA GetFieldFine ==
  ASSUME NEW who, NEW nres, nres # 1, NEW n, NEW i, NEW g, IsSeq(g), Len(g) > 0, NEW k
  PROVE  Fine(who, nres, n, g, GetField(k), Append(g, Field(Last(g), k)), i)
<1>1. PICK r, v : v = Field(Last(g), k) /\ r = Append(g, v) OBVIOUS
<1>2. IsSeq(r) BY <1>1, AppendFacts
<1>3. PICK op : op = GetField(k) OBVIOUS
<1>4. op.op = "getField" /\ op.v.v = k /\ op.n = 1 BY <1>3 DEF GetField, Op, Str, Value
<1>5. Apply(g, op) = r BY <1>1, <1>4 DEF Apply
<1>6. Enough(g, op) BY <1>4 DEF Enough, Ops
<1> QED BY <1>1, <1>2, <1>3, <1>4, <1>5, <1>6 DEF Fine, Turns, Ops, Running

LEMMA SetFieldFine ==
  ASSUME NEW who, NEW nres, nres # 1, NEW n, NEW i, NEW g, IsSeq(g), NEW v, NEW k
  PROVE  Fine(who, nres, n, Append(g, v), SetField(k), g, i)
<1>1. PICK r : r = Append(g, v) OBVIOUS
<1>2. IsSeq(r) /\ Len(r) = Len(g) + 1 /\ Front(r) = g /\ Len(g) \in Nat
  BY <1>1, AppendFacts, FrontOfAppend, SeqFacts
<1>3. PICK op : op = SetField(k) OBVIOUS
<1>4. op.op = "setField" /\ op.n = 1 BY <1>3 DEF SetField, Op
<1>5. Apply(r, op) = g BY <1>2, <1>4 DEF Apply
<1>6. Enough(r, op) BY <1>2, <1>4 DEF Enough, Ops
<1> QED BY <1>1, <1>2, <1>3, <1>4, <1>5, <1>6 DEF Fine, Turns, Ops, Running

LEMMA PopFine ==
  ASSUME NEW who, NEW nres, NEW n, NEW i, nres = 1 => i # n, NEW g, IsSeq(g), NEW v
  PROVE  /\ Fine(who, nres, n, Append(g, v), Pop(1), g, i)
         /\ \A w : Fine(who, nres, n, Append(Append(g, v), w), Pop(2), g, i)
<1>1. PICK r : r = Append(g, v) OBVIOUS
<1>2. IsSeq(r) /\ Len(r) = Len(g) + 1 /\ Front(r) = g /\ Len(g) \in Nat
  BY <1>1, AppendFacts, FrontOfAppend, SeqFacts
<1>3. Fine(who, nres, n, r, Pop(1), g, i)
  <2>1. PICK op : op = Pop(1) OBVIOUS
  <2>2. op.op = "pop" /\ op.n = 1 BY <2>1 DEF Pop, Op
  <2>3. Apply(r, op) = g BY <1>2, <2>2 DEF Apply, Front
  <2>4. Enough(r, op) BY <1>2, <2>2 DEF Enough, Ops
  <2>5. Fine(who, nres, n, r, op, g, i) BY <2>2, <2>3, <2>4 DEF Fine, Turns, Ops, Running
  <2> QED BY <2>1, <2>5
<1>4. ASSUME NEW w PROVE Fine(who, nres, n, Append(r, w), Pop(2), g, i)
  <2>1. PICK q : q = Append(r, w) OBVIOUS
  <2>2. IsSeq(q) /\ Len(q) = Len(g) + 2 /\ Front(q) = r
    BY <1>2, <2>1, AppendFacts, FrontOfAppend
  <2>3. PICK op : op = Pop(2) OBVIOUS
  <2>4. op.op = "pop" /\ op.n = 2 BY <2>3 DEF Pop, Op
  <2>5. Apply(q, op) = g
    <3>1. Apply(q, op) = SubSeq(q, 1, Len(g))
      <4>1. Apply(q, op) = SubSeq(q, 1, Len(q) - op.n) BY <2>4 DEF Apply
      <4>2. Len(q) - op.n = Len(g) BY <1>2, <2>2, <2>4
      <4> QED BY <4>1, <4>2
    <3>2. PICK p : p = SubSeq(q, 1, Len(g)) OBVIOUS
    <3>3. (IF Len(g) >= 1 THEN Len(g) ELSE 0) = Len(g) /\ Len(g) \in Int
      <4>1. \A j \in Nat : (IF j >= 1 THEN j ELSE 0) = j OBVIOUS
      <4> QED BY <1>2, <4>1
    <3>4. IsSeq(p) /\ Len(p) = Len(g) /\ \A j \in 1 .. Len(g) : p[j] = q[j]
      BY <3>2, <3>3, CutFacts
    <3>5. \A j \in 1 .. Len(r) : q[j] = r[j] BY <1>2, <2>1, AppendFacts
    <3>6. \A j \in 1 .. Len(g) : r[j] = g[j] BY <1>1, AppendFacts
    <3>7. \A j \in 1 .. Len(g) : j \in 1 .. Len(r) BY <1>2
    <3>8. p = g BY <3>4, <3>5, <3>6, <3>7, SameSeq
    <3> QED BY <3>1, <3>2, <3>8
  <2>6. Enough(q, op) BY <1>2, <2>2, <2>4 DEF Enough, Ops
  <2>7. Fine(who, nres, n, q, op, g, i) BY <2>4, <2>5, <2>6 DEF Fine, Turns, Ops, Running
  <2> QED BY <2>1, <2>3, <2>7
<1> QED BY <1>1, <1>3, <1>4

LEMMA TwoFine ==
  ASSUME NEW who, NEW nres, NEW n, NEW i, nres = 1 => i # n, NEW g, IsSeq(g), NEW v, NEW w
  PROVE  /\ Fine(who, nres, n, Append(Append(g, v), w), Concat2, Append(g, w), i)
         /\ Fine(who, nres, n, Append(Append(g, v), w), Remove2, Append(g, w), i)
         /\ Fine(who, nres, n, Append(Append(g, v), w), Op("getTable", Nil, 0),
                 Append(Append(g, v), Field(v, w.v)), i)
<1>1. PICK r : r = Append(g, v) OBVIOUS
<1>2. IsSeq(r) /\ Len(r) = Len(g) + 1 /\ Front(r) = g /\ Len(g) \in Nat
  BY <1>1, AppendFacts, FrontOfAppend, SeqFacts
<1>3. PICK q : q = Append(r, w) OBVIOUS
<1>4. IsSeq(q) /\ Len(q) = Len(g) + 2 /\ Front(q) = r /\ Last(q) = w /\ Len(q) > 1
  BY <1>2, <1>3, AppendFacts, FrontOfAppend
<1>5. PICK p : p = Append(g, w) OBVIOUS
<1>6. IsSeq(p) /\ Len(p) = Len(g) + 1 /\ p[Len(g) + 1] = w /\ \A j \in 1 .. Len(g) : p[j] = g[j]
  BY <1>5, AppendFacts
<1>7. Fine(who, nres, n, q, Concat2, p, i)
  <2>1. PICK op : op = Concat2 OBVIOUS
  <2>2. op.op = "concat" /\ op.n = 1 BY <2>1 DEF Concat2, Op
  <2>3. Apply(q, op) = p BY <1>2, <1>4, <1>5, <2>2 DEF Apply
  <2>4. Enough(q, op) BY <1>4, <2>2 DEF Enough, Ops
  <2> QED BY <1>6, <2>1, <2>2, <2>3, <2>4 DEF Fine, Turns, Ops, Running
<1>8. Fine(who, nres, n, q, Remove2, p, i)
  <2>1. PICK op : op = Remove2 OBVIOUS
  <2>2. op.op = "remove" /\ op.n = 1 BY <2>1 DEF Remove2, Op
  <2>3. Apply(q, op) = p
    <3>1. PICK m : m = RemoveAt(q, Len(q) - 1) OBVIOUS
    <3>2. /\ IsSeq(m) /\ Len(m) = Len(q) - 1 /\ \A j \in 1 .. Len(q) - 2 : m[j] = q[j]
          /\ m[Len(q) - 1] = q[Len(q)]
      BY <1>4, <3>1, RemoveFacts
    <3>3. Len(q) - 2 = Len(g) /\ Len(q) - 1 = Len(g) + 1 BY <1>2, <1>4
    <3>4. q[Len(q)] = w BY <1>4 DEF Last
    <3>5. ASSUME NEW j \in 1 .. Len(g) PROVE m[j] = p[j]
      <4>1. j \in 1 .. Len(r) BY <1>2
      <4>2. q[j] = r[j] BY <1>2, <1>3, <4>1, AppendFacts
      <4>3. r[j] = g[j] BY <1>1, AppendFacts
      <4> QED BY <1>6, <3>2, <3>3, <4>2, <4>3
    <3>6. \A j \in 1 .. Len(m) : j = Len(g) + 1 \/ j \in 1 .. Len(g) BY <1>2, <3>2, <3>3
    <3>7. \A j \in 1 .. Len(m) : m[j] = p[j] BY <1>6, <3>2, <3>3, <3>4, <3>5, <3>6
    <3>8. m = p BY <1>6, <3>2, <3>3, <3>7, SameSeq
    <3> QED BY <2>2, <3>1, <3>8 DEF Apply
  <2>4. Enough(q, op) BY <1>4, <2>2 DEF Enough, Ops
  <2> QED BY <1>6, <2>1, <2>2, <2>3, <2>4 DEF Fine, Turns, Ops, Running
<1>9. Fine(who, nres, n, q, Op("getTable", Nil, 0), Append(r, Field(v, w.v)), i)
  <2>1. PICK op : op = Op("getTable", Nil, 0) OBVIOUS
  <2>2. op.op = "getTable" /\ op.n = 0 BY <2>1 DEF Op
  <2>3. PICK u, m : u = Field(v, w.v) /\ m = Append(r, u) OBVIOUS
  <2>4. Apply(q, op) = m
    <3>1. Len(q) - 1 = Len(r) /\ Len(r) \in 1 .. Len(r) /\ Len(g) + 1 = Len(r) BY <1>2, <1>4
    <3>2. q[Len(r)] = v /\ q[Len(q) - 1] = v BY <1>1, <1>2, <1>3, <3>1, AppendFacts
    <3> QED BY <1>4, <2>2, <2>3, <3>2 DEF Apply
  <2>5. IsSeq(m) BY <1>2, <2>3, AppendFacts
  <2>6. Enough(q, op) BY <1>4, <2>2 DEF Enough, Ops
  <2>7. Fine(who, nres, n, q, op, m, i) BY <2>2, <2>4, <2>5, <2>6 DEF Fine, Turns, Ops, Running
  <2> QED BY <2>1, <2>3, <2>7
<1> QED BY <1>1, <1>3, <1>5, <1>7, <1>8, <1>9

\* On g are function v and arguments: a pcall takes them.
Carries(q, g, v, args) ==
  /\ IsSeq(args) /\ IsSeq(g) /\ Len(q) = Len(g) + 1 + Len(args)
  /\ \A j \in 1 .. Len(g) : q[j] = g[j]
  /\ q[Len(g) + 1] = v
  /\ \A j \in 1 .. Len(args) : q[Len(g) + 1 + j] = args[j]

LEMMA PCallFine ==
  ASSUME NEW who \in Failing, NEW nres \in {0, 1}, NEW n, NEW i, nres = 1 => i = n,
         NEW q, NEW g, NEW v, NEW args, Carries(q, g, v, args), Len(g) = Residue(who, n - i)
  PROVE  Fine(who, nres, n, q, PCall(v, args, nres), g, i)
<1>1. PICK op : op = PCall(v, args, nres) OBVIOUS
<1>2. op.op = "pcall" /\ op.fn = v /\ op.args = args /\ op.n = nres BY <1>1 DEF PCall
<1>3. Turns(q, op, g) /\ IsSeq(g) BY <1>2 DEF Turns, Carries
<1>4. Fine(who, nres, n, q, op, g, i) BY <1>2, <1>3 DEF Fine, Ops, Running
<1> QED BY <1>1, <1>4

LEMMA OneFacts ==
  ASSUME NEW v
  PROVE  IsSeq(<<v>>) /\ Len(<<v>>) = 1 /\ <<v>>[1] = v
<1>1. <<v>> \in Seq({v}) /\ Len(<<v>>) = 1 /\ <<v>>[1] = v OBVIOUS
<1> QED BY <1>1 DEF IsSeq

LEMMA NilFacts == IsSeq(<<>>) /\ Len(<<>>) = 0
BY EmptySeq DEF IsSeq

LEMMA PushesFacts ==
  ASSUME NEW v
  PROVE  Pushes(<<v>>) = <<PushOp(v)>>
<1>1. PICK p, w : p = Pushes(<<v>>) /\ w = PushOp(v) OBVIOUS
<1>2. DOMAIN <<v>> = 1 .. 1 /\ <<v>>[1] = v OBVIOUS
<1>3. p = [i \in 1 .. 1 |-> w]
  <2>1. \A i \in 1 .. 1 : i = 1 OBVIOUS
  <2>2. \A i \in 1 .. 1 : PushOp(<<v>>[i]) = w BY <1>1, <1>2, <2>1
  <2> QED BY <1>1, <1>2, <2>2 DEF Pushes
<1>4. p \in [1 .. 1 -> {w}] /\ p[1] = w BY <1>3
<1>5. IsSeq(p) /\ Len(p) = 1
  <2>1. 1 \in Nat OBVIOUS
  <2> QED BY <1>4, <2>1, FunctionSeq
<1>6. PICK q : q = <<w>> OBVIOUS
<1>7. IsSeq(q) /\ Len(q) = 1 /\ q[1] = w BY <1>6, OneFacts
<1>8. \A i \in 1 .. Len(p) : p[i] = q[i] BY <1>4, <1>5, <1>7
<1>9. p = q BY <1>5, <1>7, <1>8, SameSeq
<1> QED BY <1>1, <1>6, <1>9

\* Natives i + 1, i + 2 ... of n, code, may turn g into r.
Leads(who, nres, n, i, code, g, r) ==
  /\ IsSeq(code) /\ IsSeq(g)
  /\ \E o : /\ o[0] = g /\ o[Len(code)] = r
            /\ \A j \in 1 .. Len(code) : Fine(who, nres, n, o[j - 1], code[j], o[j], i + j)

LEMMA LeadsNil ==
  ASSUME NEW who, NEW nres, NEW n, NEW i, NEW g, IsSeq(g)
  PROVE  Leads(who, nres, n, i, <<>>, g, g)
<1>1. PICK c : c = <<>> OBVIOUS
<1>2. IsSeq(c) /\ Len(c) = 0 BY <1>1, NilFacts
<1>3. PICK o : o = [j \in 0 .. 0 |-> g] OBVIOUS
<1>4. o[0] = g /\ o[Len(c)] = g BY <1>2, <1>3
<1>5. 1 .. Len(c) = {} BY <1>2
<1>6. Leads(who, nres, n, i, c, g, g) BY <1>2, <1>4, <1>5 DEF Leads
<1> QED BY <1>1, <1>6

LEMMA LeadsOn ==
  ASSUME NEW who, NEW nres, NEW n, NEW i \in Nat, NEW code, NEW g, NEW h,
         Leads(who, nres, n, i, code, g, h),
         NEW k, k = i + Len(code) + 1, NEW op, NEW r, Fine(who, nres, n, h, op, r, k)
  PROVE  Leads(who, nres, n, i, Append(code, op), g, r) /\ IsSeq(r)
<1>1. PICK o : /\ o[0] = g /\ o[Len(code)] = h
               /\ \A j \in 1 .. Len(code) : Fine(who, nres, n, o[j - 1], code[j], o[j], i + j)
  BY DEF Leads
<1>2. PICK c, m : c = Append(code, op) /\ m = Len(code) OBVIOUS
<1>3. IsSeq(code) /\ IsSeq(g) /\ m \in Nat BY <1>2, SeqFacts DEF Leads
<1>4. IsSeq(c) /\ Len(c) = m + 1 /\ (\A j \in 1 .. m : c[j] = code[j]) /\ c[m + 1] = op
  BY <1>2, <1>3, AppendFacts
<1>5. PICK q : q = [j \in 0 .. m + 1 |-> IF j = m + 1 THEN r ELSE o[j]] OBVIOUS
<1>6. q[0] = g /\ q[m + 1] = r /\ \A j \in 0 .. m : q[j] = o[j]
  <2>1. 0 \in 0 .. m + 1 /\ 0 # m + 1 /\ m + 1 \in 0 .. m + 1 BY <1>3
  <2>2. \A j \in 0 .. m : j \in 0 .. m + 1 /\ j # m + 1 BY <1>3
  <2> QED BY <1>1, <1>5, <2>1, <2>2
<1>7. ASSUME NEW j \in 1 .. m + 1 PROVE Fine(who, nres, n, q[j - 1], c[j], q[j], i + j)
  <2>1. CASE j = m + 1
    <3>1. j - 1 = m /\ m \in 0 .. m /\ k = i + j BY <1>2, <1>3, <2>1
    <3>2. q[j - 1] = h /\ c[j] = op /\ q[j] = r BY <1>1, <1>2, <1>4, <1>6, <2>1, <3>1
    <3> QED BY <3>1, <3>2
  <2>2. CASE j # m + 1
    <3>1. j \in 1 .. m /\ j - 1 \in 0 .. m /\ j \in 0 .. m BY <1>3, <2>2
    <3>2. q[j - 1] = o[j - 1] /\ c[j] = code[j] /\ q[j] = o[j] BY <1>4, <1>6, <3>1
    <3> QED BY <1>1, <1>2, <3>1, <3>2
  <2> QED BY <2>1, <2>2
<1>8. Leads(who, nres, n, i, c, g, r) BY <1>3, <1>4, <1>6, <1>7 DEF Leads
<1>9. IsSeq(r) BY DEF Fine
<1> QED BY <1>2, <1>8, <1>9

LEMMA LeadsPath ==
  ASSUME NEW who, NEW nres \in {0, 1}, nres = 1 => who \in {"call", "file"},
         NEW code, NEW n, n = Len(code), NEW g, NEW r, Leads(who, nres, n, 0, code, g, r),
         Len(r) = Rest(who)
  PROVE  \E o : o[0] = g /\ Path(who, nres, code, o)
<1>1. PICK o : /\ o[0] = g /\ o[n] = r
               /\ \A j \in 1 .. n : Fine(who, nres, n, o[j - 1], code[j], o[j], 0 + j)
  BY DEF Leads
<1>2. IsSeq(code) /\ IsSeq(o[0]) /\ Len(o[n]) = Rest(who) BY <1>1 DEF Leads
<1>3. ASSUME NEW j \in 1 .. n PROVE Fine(who, nres, n, o[j - 1], code[j], o[j], j)
  <2>1. 0 + j = j OBVIOUS
  <2> QED BY <1>1, <2>1
<1>4. Path(who, nres, code, o) BY <1>2, <1>3, PathIntro
<1> QED BY <1>1, <1>4

LEMMA LeadsOne ==
  ASSUME NEW who, NEW nres, NEW n, NEW i \in Nat, NEW g, IsSeq(g), NEW op, NEW r,
         NEW k, k = i + 1, Fine(who, nres, n, g, op, r, k)
  PROVE  Leads(who, nres, n, i, <<op>>, g, r) /\ IsSeq(r)
<1>1. PICK c : c = <<>> OBVIOUS
<1>2. Len(c) = 0 /\ k = i + Len(c) + 1 BY <1>1, NilFacts
<1>3. Leads(who, nres, n, i, c, g, g) BY <1>1, LeadsNil
<1>4. Leads(who, nres, n, i, Append(c, op), g, r) /\ IsSeq(r) BY <1>2, <1>3, LeadsOn
<1>5. Append(c, op) = <<op>> BY <1>1, NilFacts
<1> QED BY <1>4, <1>5

\* Two pieces of code, one after the other.
LEMMA JoinLeads ==
  ASSUME NEW who, NEW nres, NEW n, NEW i \in Nat, NEW c, NEW d, NEW g, NEW h, NEW r,
         Leads(who, nres, n, i, c, g, h),
         NEW k, k = i + Len(c), Leads(who, nres, n, k, d, h, r),
         NEW e, e = c \o d
  PROVE  Leads(who, nres, n, i, e, g, r)
<1>1. PICK o : /\ o[0] = g /\ o[Len(c)] = h
               /\ \A j \in 1 .. Len(c) : Fine(who, nres, n, o[j - 1], c[j], o[j], i + j)
  BY DEF Leads
<1>2. PICK p : /\ p[0] = h /\ p[Len(d)] = r
               /\ \A j \in 1 .. Len(d) : Fine(who, nres, n, p[j - 1], d[j], p[j], k + j)
  BY DEF Leads
<1>3. IsSeq(c) /\ IsSeq(d) /\ IsSeq(g) BY DEF Leads
<1>4. PICK x, y : x = Len(c) /\ y = Len(d) OBVIOUS
<1>5. x \in Nat /\ y \in Nat BY <1>3, <1>4, SeqFacts
<1>6. /\ IsSeq(e) /\ Len(e) = x + y
      /\ \A j \in 1 .. x : e[j] = c[j]
      /\ \A j \in 1 .. y : e[x + j] = d[j]
  BY <1>3, <1>4, ConcatFacts
<1>7. PICK q : q = [j \in 0 .. x + y |-> IF j <= x THEN o[j] ELSE p[j - x]] OBVIOUS
<1>8. \A j \in 0 .. x : q[j] = o[j]
  <2>1. \A j \in 0 .. x : j \in 0 .. x + y /\ j <= x BY <1>5
  <2> QED BY <1>7, <2>1
<1>9. ASSUME NEW j \in 0 .. y PROVE q[x + j] = p[j]
  <2>1. CASE j = 0
    <3>1. x + j = x /\ x \in 0 .. x BY <1>5, <2>1
    <3>2. q[x] = o[x] BY <1>8, <3>1
    <3> QED BY <1>1, <1>2, <1>4, <2>1, <3>1, <3>2
  <2>2. CASE j # 0
    <3>1. x + j \in 0 .. x + y /\ ~(x + j <= x) /\ x + j - x = j BY <1>5, <2>2
    <3>2. PICK m : m = x + j OBVIOUS
    <3>3. q[m] = p[m - x] BY <1>7, <3>1, <3>2
    <3>4. m - x = j BY <1>5, <3>2
    <3> QED BY <3>2, <3>3, <3>4
  <2> QED BY <2>1, <2>2
<1>10. ASSUME NEW j \in 1 .. Len(e) PROVE Fine(who, nres, n, q[j - 1], e[j], q[j], i + j)
  <2>1. j \in 1 .. x + y BY <1>6
  <2>2. CASE j <= x
    <3>1. j \in 1 .. x /\ j - 1 \in 0 .. x /\ j \in 0 .. x BY <1>5, <2>1, <2>2
    <3>2. q[j - 1] = o[j - 1] /\ q[j] = o[j] /\ e[j] = c[j] BY <1>6, <1>8, <3>1
    <3> QED BY <1>1, <1>4, <3>1, <3>2
  <2>3. CASE ~(j <= x)
    <3>1. PICK m \in 1 .. y : j = x + m
      <4>1. j - x \in 1 .. y /\ j = x + (j - x) BY <1>5, <2>1, <2>3
      <4> QED BY <4>1
    <3>2. m - 1 \in 0 .. y /\ m \in 0 .. y /\ j - 1 = x + (m - 1) /\ i + j = k + m
      BY <1>4, <1>5, <3>1
    <3>3. q[j - 1] = p[m - 1] /\ q[j] = p[m] /\ e[j] = d[m]
      BY <1>6, <1>9, <3>1, <3>2
    <3> QED BY <1>2, <1>4, <3>1, <3>2, <3>3
  <2> QED BY <2>2, <2>3
<1>11. q[0] = g /\ q[Len(e)] = r
  <2>1. 0 \in 0 .. x /\ y \in 0 .. y BY <1>5
  <2>2. q[0] = o[0] /\ q[x + y] = p[y] BY <1>8, <1>9, <2>1
  <2> QED BY <1>1, <1>2, <1>4, <1>6, <2>2
<1> QED BY <1>3, <1>6, <1>10, <1>11 DEF Leads

LEMMA LeadsSeq ==
  ASSUME NEW who, NEW nres, NEW n, NEW i, NEW c, NEW g, NEW h, Leads(who, nres, n, i, c, g, h)
  PROVE  IsSeq(c)
BY DEF Leads

\* Code as it grows by one native after another.
LEMMA SnocIs ==
  ASSUME NEW p, NEW q, IsSeq(p), IsSeq(q), Len(q) = Len(p) + 1, \A i \in 1 .. Len(p) : q[i] = p[i]
  PROVE  q = Append(p, q[Len(q)])
<1>1. PICK r, z : z = q[Len(q)] /\ r = Append(p, z) OBVIOUS
<1>2. Len(p) \in Nat /\ IsSeq(r) /\ Len(r) = Len(p) + 1 BY <1>1, SeqFacts, AppendFacts
<1>3. (\A i \in 1 .. Len(p) : r[i] = p[i]) /\ r[Len(p) + 1] = z BY <1>1, AppendFacts
<1>4. \A i \in 1 .. Len(q) : i \in 1 .. Len(p) \/ i = Len(p) + 1 BY <1>2
<1>5. \A i \in 1 .. Len(q) : q[i] = r[i] BY <1>1, <1>3, <1>4
<1> QED BY <1>1, <1>2, <1>5, SameSeq

LEMMA Tuple1 ==
  ASSUME NEW a
  PROVE  <<a>> = Append(<<>>, a) /\ IsSeq(<<a>>) /\ Len(<<a>>) = 1
<1>1. PICK p, q : p = <<>> /\ q = <<a>> OBVIOUS
<1>2. IsSeq(p) /\ IsSeq(q)
  <2>1. p \in Seq({a}) /\ q \in Seq({a}) BY <1>1
  <2> QED BY <2>1 DEF IsSeq
<1>3. Len(p) = 0 /\ Len(q) = 1 /\ q[1] = a BY <1>1
<1>4. \A i \in 1 .. Len(p) : q[i] = p[i]
  BY <1>3
<1>5. Len(q) = Len(p) + 1 BY <1>3
<1>6. q = Append(p, q[Len(q)]) BY ONLY <1>2, <1>4, <1>5, SnocIs
<1> QED BY <1>1, <1>2, <1>3, <1>6

LEMMA Tuple2 ==
  ASSUME NEW a, NEW b
  PROVE  <<a, b>> = Append(<<a>>, b) /\ IsSeq(<<a, b>>) /\ Len(<<a, b>>) = 2
<1>1. PICK p, q : p = <<a>> /\ q = <<a, b>> OBVIOUS
<1>2. IsSeq(p) /\ IsSeq(q)
  <2>1. p \in Seq({a, b}) /\ q \in Seq({a, b}) BY <1>1
  <2> QED BY <2>1 DEF IsSeq
<1>3. Len(p) = 1 /\ Len(q) = 2 /\ q[2] = b BY <1>1
<1>4. \A i \in 1 .. Len(p) : q[i] = p[i]
  <2>1. \A i \in 1 .. 1 : i = 1 OBVIOUS
  <2> QED BY <1>1, <1>3, <2>1
<1>5. Len(q) = Len(p) + 1 BY <1>3
<1>6. q = Append(p, q[Len(q)]) BY ONLY <1>2, <1>4, <1>5, SnocIs
<1> QED BY <1>1, <1>2, <1>3, <1>6

LEMMA Tuple3 ==
  ASSUME NEW a, NEW b, NEW c
  PROVE  <<a, b, c>> = Append(<<a, b>>, c) /\ IsSeq(<<a, b, c>>) /\ Len(<<a, b, c>>) = 3
<1>1. PICK p, q : p = <<a, b>> /\ q = <<a, b, c>> OBVIOUS
<1>2. IsSeq(p) /\ IsSeq(q)
  <2>1. p \in Seq({a, b, c}) /\ q \in Seq({a, b, c}) BY <1>1
  <2> QED BY <2>1 DEF IsSeq
<1>3. Len(p) = 2 /\ Len(q) = 3 /\ q[3] = c BY <1>1
<1>4. \A i \in 1 .. Len(p) : q[i] = p[i]
  <2>1. \A i \in 1 .. 2 : i = 1 \/ i = 2 OBVIOUS
  <2> QED BY <1>1, <1>3, <2>1
<1>5. Len(q) = Len(p) + 1 BY <1>3
<1>6. q = Append(p, q[Len(q)]) BY ONLY <1>2, <1>4, <1>5, SnocIs
<1> QED BY <1>1, <1>2, <1>3, <1>6

LEMMA Tuple4 ==
  ASSUME NEW a, NEW b, NEW c, NEW d
  PROVE  <<a, b, c, d>> = Append(<<a, b, c>>, d) /\ IsSeq(<<a, b, c, d>>) /\ Len(<<a, b, c, d>>) = 4
<1>1. PICK p, q : p = <<a, b, c>> /\ q = <<a, b, c, d>> OBVIOUS
<1>2. IsSeq(p) /\ IsSeq(q)
  <2>1. p \in Seq({a, b, c, d}) /\ q \in Seq({a, b, c, d}) BY <1>1
  <2> QED BY <2>1 DEF IsSeq
<1>3. Len(p) = 3 /\ Len(q) = 4 /\ q[4] = d BY <1>1
<1>4. \A i \in 1 .. Len(p) : q[i] = p[i]
  <2>1. \A i \in 1 .. 3 : i = 1 \/ i = 2 \/ i = 3 OBVIOUS
  <2> QED BY <1>1, <1>3, <2>1
<1>5. Len(q) = Len(p) + 1 BY <1>3
<1>6. q = Append(p, q[Len(q)]) BY ONLY <1>2, <1>4, <1>5, SnocIs
<1> QED BY <1>1, <1>2, <1>3, <1>6

LEMMA Tuple5 ==
  ASSUME NEW a, NEW b, NEW c, NEW d, NEW e
  PROVE  <<a, b, c, d, e>> = Append(<<a, b, c, d>>, e) /\ IsSeq(<<a, b, c, d, e>>)
         /\ Len(<<a, b, c, d, e>>) = 5
<1>1. PICK p, q : p = <<a, b, c, d>> /\ q = <<a, b, c, d, e>> OBVIOUS
<1>2. IsSeq(p) /\ IsSeq(q)
  <2>1. p \in Seq({a, b, c, d, e}) /\ q \in Seq({a, b, c, d, e}) BY <1>1
  <2> QED BY <2>1 DEF IsSeq
<1>3. Len(p) = 4 /\ Len(q) = 5 /\ q[5] = e BY <1>1
<1>4. \A i \in 1 .. Len(p) : q[i] = p[i]
  <2>1. \A i \in 1 .. 4 : i = 1 \/ i = 2 \/ i = 3 \/ i = 4 OBVIOUS
  <2> QED BY <1>1, <1>3, <2>1
<1>5. Len(q) = Len(p) + 1 BY <1>3
<1>6. q = Append(p, q[Len(q)]) BY ONLY <1>2, <1>4, <1>5, SnocIs
<1> QED BY <1>1, <1>2, <1>3, <1>6

LEMMA Tuple6 ==
  ASSUME NEW a, NEW b, NEW c, NEW d, NEW e, NEW f
  PROVE  <<a, b, c, d, e, f>> = Append(<<a, b, c, d, e>>, f) /\ IsSeq(<<a, b, c, d, e, f>>)
         /\ Len(<<a, b, c, d, e, f>>) = 6
<1>1. PICK p, q : p = <<a, b, c, d, e>> /\ q = <<a, b, c, d, e, f>> OBVIOUS
<1>2. IsSeq(p) /\ IsSeq(q)
  <2>1. p \in Seq({a, b, c, d, e, f}) /\ q \in Seq({a, b, c, d, e, f}) BY <1>1
  <2> QED BY <2>1 DEF IsSeq
<1>3. Len(p) = 5 /\ Len(q) = 6 /\ q[6] = f BY <1>1
<1>4. \A i \in 1 .. Len(p) : q[i] = p[i]
  <2>1. \A i \in 1 .. 5 : i = 1 \/ i = 2 \/ i = 3 \/ i = 4 \/ i = 5 OBVIOUS
  <2> QED BY <1>1, <1>3, <2>1
<1>5. Len(q) = Len(p) + 1 BY <1>3
<1>6. q = Append(p, q[Len(q)]) BY ONLY <1>2, <1>4, <1>5, SnocIs
<1> QED BY <1>1, <1>2, <1>3, <1>6

LEMMA ThenThree ==
  ASSUME NEW s, IsSeq(s), NEW a, NEW b, NEW c
  PROVE  s \o ((<<a>> \o <<b>>) \o <<c>>) = Append(Append(Append(s, a), b), c)
<1>1. PICK S : s \in Seq(S) BY DEF IsSeq
<1> DEFINE T == S \cup {a, b, c}
<1>2. s \in Seq(T) /\ a \in T /\ b \in T /\ c \in T
  <2>1. \A i \in 1 .. Len(s) : s[i] \in T BY <1>1, ElementOfSeq
  <2>2. Len(s) \in Nat /\ DOMAIN s = 1 .. Len(s) BY <1>1, LenProperties
  <2> QED BY <1>1, <2>1, <2>2
<1> HIDE DEF T
<1>3. <<a>> \in Seq(T) /\ <<b>> \in Seq(T) /\ <<c>> \in Seq(T) BY <1>2
<1>4. s \o <<a>> \in Seq(T) /\ Append(s, a) \in Seq(T) /\ Append(Append(s, a), b) \in Seq(T)
  BY <1>2, <1>3, AppendProperties, ConcatProperties
<1>5. s \o ((<<a>> \o <<b>>) \o <<c>>) = (s \o (<<a>> \o <<b>>)) \o <<c>>
  <2>1. <<a>> \o <<b>> \in Seq(T) BY ONLY <1>3, ConcatProperties
  <2> QED BY ONLY <1>2, <1>3, <2>1, ConcatAssociative
<1>6. s \o (<<a>> \o <<b>>) = (s \o <<a>>) \o <<b>> BY ONLY <1>2, <1>3, ConcatAssociative
<1>7. /\ s \o <<a>> = Append(s, a) /\ Append(s, a) \o <<b>> = Append(Append(s, a), b)
      /\ Append(Append(s, a), b) \o <<c>> = Append(Append(Append(s, a), b), c)
  BY <1>2, <1>4, AppendIsConcat
<1> QED BY ONLY <1>5, <1>6, <1>7

LEMMA ThreeFacts ==
  ASSUME NEW a, NEW b, NEW c
  PROVE  (<<a>> \o <<b>>) \o <<c>> = <<a, b, c>>
<1>1. PICK e, s, r : e = <<>> /\ s = <<a>> \o <<b>> /\ r = <<a, b>> OBVIOUS
<1>2. IsSeq(<<a>>) /\ IsSeq(r)
  <2>1. <<a>> \in Seq({a, b}) /\ <<a, b>> \in Seq({a, b}) OBVIOUS
  <2> QED BY <1>1, <2>1 DEF IsSeq
<1>3. s = r
  <2>1. <<a>> \o <<b>> = Append(<<a>>, b) BY <1>2, CatFacts
  <2>2. <<a, b>> = Append(<<a>>, b) BY Tuple2
  <2> QED BY ONLY <1>1, <2>1, <2>2
<1>4. r \o <<c>> = Append(r, c) BY <1>2, CatFacts
<1>5. <<a, b, c>> = Append(<<a, b>>, c) BY Tuple3
<1> QED BY ONLY <1>1, <1>3, <1>4, <1>5

\* A value is pushed and popped.
LEMMA CheckLeads ==
  ASSUME NEW who, NEW nres, NEW n \in Nat, NEW i \in Nat, nres = 1 => n > i + 2,
         NEW g, IsSeq(g), NEW v
  PROVE  Leads(who, nres, n, i, Check(v), g, g) /\ Len(Check(v)) = 2
<1>1. PICK a, b, j, k : a = PushOp(v) /\ b = Pop(1) /\ j = i + 1 /\ k = i + 2 OBVIOUS
<1>2. PICK c, d, f : c = <<a>> /\ d = <<a, b>> /\ f = Append(g, v) OBVIOUS
<1>3. d = Append(c, b) /\ Len(c) = 1 /\ Len(d) = 2 BY <1>2, Tuple1, Tuple2
<1>4. nres = 1 => j # n /\ k # n BY <1>1
<1>5. Fine(who, nres, n, g, a, f, j) BY <1>1, <1>2, <1>4, PushFine
<1>6. Leads(who, nres, n, i, c, g, f) BY <1>1, <1>2, <1>5, LeadsOne
<1>7. Fine(who, nres, n, f, b, g, k) BY <1>1, <1>2, <1>4, PopFine
<1>8. k = i + Len(c) + 1 BY <1>1, <1>3
<1>9. Leads(who, nres, n, i, d, g, g) BY <1>3, <1>6, <1>7, <1>8, LeadsOn
<1>10. Check(v) = d BY <1>1, <1>2 DEF Check
<1> QED BY <1>3, <1>9, <1>10

\* A function and an argument are pushed and called.
LEMMA CallLeads ==
  ASSUME NEW who \in Failing, NEW nres \in {0, 1}, NEW n \in Nat, NEW i \in Nat, n = i + 3,
         NEW g, IsSeq(g), Len(g) = Residue(who, 0), NEW fn, NEW v
  PROVE  Leads(who, nres, n, i, PushAndCall(fn, <<v>>, nres), g, g)
         /\ Len(PushAndCall(fn, <<v>>, nres)) = 3
<1>1. PICK a, b, args : a = PushOp(fn) /\ b = PushOp(v) /\ args = <<v>> OBVIOUS
<1>2. PICK c : c = PCall(fn, args, nres) OBVIOUS
<1>3. PICK c1, c2, c3 : c1 = <<a>> /\ c2 = <<a, b>> /\ c3 = <<a, b, c>> OBVIOUS
<1>4. c2 = Append(c1, b) /\ c3 = Append(c2, c) /\ Len(c1) = 1 /\ Len(c2) = 2 /\ Len(c3) = 3
  BY <1>3, Tuple1, Tuple2, Tuple3
<1>5. PushAndCall(fn, <<v>>, nres) = c3
  <2>1. PushAndCall(fn, <<v>>, nres) = (<<a>> \o <<b>>) \o <<c>>
    BY <1>1, <1>2, PushesFacts DEF PushAndCall
  <2>2. (<<a>> \o <<b>>) \o <<c>> = <<a, b, c>> BY ONLY ThreeFacts
  <2> QED BY <1>3, <2>1, <2>2
<1>6. PICK j, k : j = i + 1 /\ k = i + 2 OBVIOUS
<1>7. k = i + Len(c1) + 1 /\ n = i + Len(c2) + 1 /\ j # n /\ k # n BY <1>4, <1>6
<1>8. PICK f1, f2 : f1 = Append(g, fn) /\ f2 = Append(f1, v) OBVIOUS
<1>9. Fine(who, nres, n, g, a, f1, j) BY <1>1, <1>7, <1>8, PushFine
<1>10. Leads(who, nres, n, i, c1, g, f1) /\ IsSeq(f1) BY <1>3, <1>6, <1>9, LeadsOne
<1>11. Fine(who, nres, n, f1, b, f2, k) BY <1>1, <1>7, <1>8, <1>10, PushFine
<1>12. Leads(who, nres, n, i, c2, g, f2) /\ IsSeq(f2) BY <1>4, <1>7, <1>10, <1>11, LeadsOn
<1>13. Fine(who, nres, n, f2, c, g, n)
  <2>1. IsSeq(args) /\ Len(args) = 1 /\ args[1] = v BY <1>1, OneFacts
  <2>2. PICK m : m = n OBVIOUS
  <2>3. (nres = 1 => m = n) /\ Len(g) = Residue(who, n - m)
    <3>1. n - m = 0 BY <2>2
    <3> QED BY <2>2, <3>1
  <2>4. /\ Len(g) \in Nat /\ Len(f1) = Len(g) + 1 /\ f1[Len(g) + 1] = fn
        /\ \A x \in 1 .. Len(g) : f1[x] = g[x]
    BY <1>8, AppendFacts, SeqFacts
  <2>5. /\ Len(f2) = Len(f1) + 1 /\ f2[Len(f1) + 1] = v
        /\ \A x \in 1 .. Len(f1) : f2[x] = f1[x]
    BY <1>8, <1>10, AppendFacts
  <2>6. Carries(f2, g, fn, args)
    <3>1. Len(f2) = Len(g) + 1 + Len(args) BY <2>1, <2>4, <2>5
    <3>2. \A x \in 1 .. Len(g) : x \in 1 .. Len(f1) BY <2>4
    <3>3. \A x \in 1 .. Len(g) : f2[x] = g[x] BY <2>4, <2>5, <3>2
    <3>4. f2[Len(g) + 1] = fn
      <4>1. Len(g) + 1 \in 1 .. Len(f1) BY <2>4
      <4> QED BY <2>4, <2>5, <4>1
    <3>5. ASSUME NEW x \in 1 .. Len(args) PROVE f2[Len(g) + 1 + x] = args[x]
      <4>1. x = 1 /\ Len(g) + 1 + x = Len(f1) + 1 BY <2>1, <2>4
      <4> QED BY <2>1, <2>5, <4>1
    <3> QED BY <2>1, <3>1, <3>3, <3>4, <3>5 DEF Carries
  <2>7. Fine(who, nres, n, f2, PCall(fn, args, nres), g, m) BY <2>3, <2>6, PCallFine
  <2> QED BY <1>2, <2>2, <2>7
<1>14. Leads(who, nres, n, i, c3, g, g) BY <1>4, <1>7, <1>12, <1>13, LeadsOn
<1> QED BY <1>4, <1>5, <1>14

\* LuaObject.call
LEMMA ObjectCallLeads ==
  ASSUME NEW who \in Failing, NEW nres \in {0, 1}, NEW n \in Nat, NEW i \in Nat, n = i + 5,
         NEW g, IsSeq(g), Len(g) = Residue(who, 0), NEW fn, NEW v
  PROVE  Leads(who, nres, n, i, LuaObjectCall(fn, <<v>>, nres), g, g)
         /\ Len(LuaObjectCall(fn, <<v>>, nres)) = 5
<1>1. PICK c, d, k : c = Check(fn) /\ d = PushAndCall(fn, <<v>>, nres) /\ k = i + 2 OBVIOUS
<1>2. n > i + 2 /\ k \in Nat /\ n = k + 3 BY <1>1
<1>3. Leads(who, nres, n, i, c, g, g) /\ Len(c) = 2 BY <1>1, <1>2, CheckLeads
<1>4. Leads(who, nres, n, k, d, g, g) /\ Len(d) = 3 BY <1>1, <1>2, CallLeads
<1>5. k = i + Len(c) BY <1>1, <1>3
<1>6. PICK e : e = c \o d OBVIOUS
<1>7. Leads(who, nres, n, i, e, g, g)
  BY ONLY <1>3, <1>4, <1>5, <1>6, JoinLeads, i \in Nat
<1>8. LuaObjectCall(fn, <<v>>, nres) = e BY <1>1, <1>6 DEF LuaObjectCall
<1>9. Len(e) = Len(c) + Len(d)
  <2>1. IsSeq(c) /\ IsSeq(d) BY ONLY <1>3, <1>4, <1>6, LeadsSeq
  <2> QED BY ONLY <2>1, <1>3, <1>4, <1>6, ConcatFacts
<1> QED BY <1>3, <1>4, <1>7, <1>8, <1>9

\* LuaEngine.evalLua, on any frame
LEMMA EvalLeads ==
  ASSUME NEW who \in Clears, NEW nres \in {0, 1}, nres # 1,
         NEW n, n \in Nat, n >= 3, who = "module" => n # 3, NEW s, IsSeq(s), NEW chunk
  PROVE  Leads(who, nres, n, 0, EvalLua(chunk), s, <<>>) /\ Len(EvalLua(chunk)) = 3
<1>1. PICK e : e = <<>> OBVIOUS
<1>2. IsSeq(e) /\ Len(e) = 0 BY <1>1, NilFacts
<1>3. PICK a, b, c :
          /\ a = SetTopZero
          /\ b = Op("load", Function(chunk), 1)
          /\ c = PCall(Function(chunk), <<>>, 0)
  OBVIOUS
<1>4. PICK c0, c1, c2, c3 :
          c0 = <<>> /\ c1 = <<a>> /\ c2 = <<a, b>> /\ c3 = <<a, b, c>>
  OBVIOUS
<1>5. /\ c1 = Append(c0, a) /\ c2 = Append(c1, b) /\ c3 = Append(c2, c)
      /\ Len(c0) = 0 /\ Len(c1) = 1 /\ Len(c2) = 2 /\ Len(c3) = 3
  BY <1>4, Tuple1, Tuple2, Tuple3, NilFacts
<1>6. PICK k1, k2, k3 : k1 = 1 /\ k2 = 2 /\ k3 = 3 OBVIOUS
<1>7. 0 \in Nat /\ k1 = 0 + Len(c0) + 1 /\ k2 = 0 + Len(c1) + 1 /\ k3 = 0 + Len(c2) + 1
  BY <1>5, <1>6
<1>8. PICK f1, f2, f3 :
          /\ f1 = e
          /\ f2 = Append(e, Function(chunk))
          /\ f3 = e
  OBVIOUS
<1>9. Leads(who, nres, n, 0, c0, s, s)
  BY <1>4, <1>2, LeadsNil
<1>10. Fine(who, nres, n, s, a, f1, k1)
  BY <1>3, <1>6, <1>8, <1>1, SetTopFine
<1>11. Leads(who, nres, n, 0, c1, s, f1) /\ IsSeq(f1)
  BY <1>5, <1>7, <1>9, <1>10, LeadsOn
<1>12. Fine(who, nres, n, f1, b, f2, k2)
  <2>1. PICK v : v = Function(chunk) OBVIOUS
  <2>2. Fine(who, nres, n, e, Op("load", v, 1), Append(e, v), k2) BY <1>2, LoadFine
  <2> QED BY <1>3, <1>8, <2>1, <2>2
<1>13. Leads(who, nres, n, 0, c2, s, f2) /\ IsSeq(f2)
  BY <1>5, <1>7, <1>11, <1>12, LeadsOn
<1>14. Fine(who, nres, n, f2, c, f3, k3)
  <2>1. PICK v, args : v = Function(chunk) /\ args = <<>> OBVIOUS
  <2>2. who \in Failing /\ nres \in {0, 1} /\ (nres = 1 => k3 = n) BY DEF Failing, Clears
  <2>3. Len(e) = Residue(who, n - k3) BY <1>2, <1>6 DEF Residue, Clears
  <2>4. Carries(f2, e, v, args)
    <3>1. IsSeq(args) /\ Len(args) = 0 BY <2>1, NilFacts
    <3>2. Len(f2) = 1 /\ f2[1] = v
      <4>1. f2 = Append(e, v) BY <1>8, <2>1
      <4>2. Len(f2) = Len(e) + 1 /\ f2[Len(e) + 1] = v BY <1>2, <4>1, AppendFacts
      <4> QED BY <1>2, <4>2
    <3>3. 0 + 1 = 1 /\ 1 + 0 = 1 /\ 1 .. 0 = {} OBVIOUS
    <3> QED BY <1>2, <3>1, <3>2, <3>3 DEF Carries
  <2>5. Fine(who, nres, n, f2, PCall(v, args, nres), e, k3) BY <2>2, <2>3, <2>4, PCallFine
  <2> QED BY <1>3, <1>8, <2>1, <2>5
<1>15. Leads(who, nres, n, 0, c3, s, f3) /\ IsSeq(f3)
  BY <1>5, <1>7, <1>13, <1>14, LeadsOn
<1>16. EvalLua(chunk) = c3
  BY <1>3, <1>4 DEF EvalLua
<1> QED BY <1>1, <1>4, <1>5, <1>6, <1>8, <1>15, <1>16

\* LuaEngine.addLuaPath
LEMMA PathLeads ==
  ASSUME NEW who, NEW nres \in {0, 1}, nres # 1, NEW n
  PROVE  Leads(who, nres, n, 0, AddSearchPath, <<>>, <<>>) /\ Len(AddSearchPath) = 6
<1>1. PICK e : e = <<>> OBVIOUS
<1>2. IsSeq(e) /\ Len(e) = 0 BY <1>1, NilFacts
<1>3. PICK a, b, c, d, g, h :
          /\ a = PushOp(Table("package"))
          /\ b = GetField("path")
          /\ c = PushOp(Str(";path"))
          /\ d = Concat2
          /\ g = SetField("path")
          /\ h = Pop(1)
  OBVIOUS
<1>4. PICK c0, c1, c2, c3, c4, c5, c6 :
          c0 = <<>> /\ c1 = <<a>> /\ c2 = <<a, b>> /\ c3 = <<a, b, c>> /\ c4 = <<a, b, c, d>>
          /\ c5 = <<a, b, c, d, g>> /\ c6 = <<a, b, c, d, g, h>>
  OBVIOUS
<1>5. /\ c1 = Append(c0, a) /\ c2 = Append(c1, b) /\ c3 = Append(c2, c) /\ c4 = Append(c3, d)
         /\ c5 = Append(c4, g) /\ c6 = Append(c5, h)
      /\ Len(c0) = 0 /\ Len(c1) = 1 /\ Len(c2) = 2 /\ Len(c3) = 3 /\ Len(c4) = 4 /\ Len(c5) = 5
         /\ Len(c6) = 6
  BY <1>4, Tuple1, Tuple2, Tuple3, Tuple4, Tuple5, Tuple6, NilFacts
<1>6. PICK k1, k2, k3, k4, k5, k6 : k1 = 1 /\ k2 = 2 /\ k3 = 3 /\ k4 = 4 /\ k5 = 5 /\ k6 = 6 OBVIOUS
<1>7. 0 \in Nat /\ k1 = 0 + Len(c0) + 1 /\ k2 = 0 + Len(c1) + 1 /\ k3 = 0 + Len(c2) + 1
      /\ k4 = 0 + Len(c3) + 1 /\ k5 = 0 + Len(c4) + 1 /\ k6 = 0 + Len(c5) + 1 BY <1>5, <1>6
<1>8. PICK f1, f2, f3, f4, f5, f6 :
          /\ f1 = Append(e, Table("package"))
          /\ f2 = Append(f1, Function("path"))
          /\ f3 = Append(f2, Str(";path"))
          /\ f4 = Append(f1, Str(";path"))
          /\ f5 = f1
          /\ f6 = e
  OBVIOUS
<1>9. Leads(who, nres, n, 0, c0, e, e)
  BY <1>4, <1>2, LeadsNil
<1>10. Fine(who, nres, n, e, a, f1, k1)
  <2>1. PICK v : v = Table("package") OBVIOUS
  <2>2. Fine(who, nres, n, e, PushOp(v), Append(e, v), k1)
    BY <1>2, PushFine
  <2> QED BY <1>3, <1>8, <1>1, <2>1, <2>2
<1>11. Leads(who, nres, n, 0, c1, e, f1) /\ IsSeq(f1)
  BY <1>5, <1>7, <1>9, <1>10, LeadsOn
<1>12. Fine(who, nres, n, f1, b, f2, k2)
  <2>1. Len(f1) > 0
    <3>1. PICK v : v = Table("package") OBVIOUS
    <3>2. Len(Append(e, v)) = Len(e) + 1 BY <1>2, AppendFacts
    <3>3. f1 = Append(e, v) BY <1>8, <3>1
    <3> QED BY <1>2, <3>2, <3>3
  <2>2. PICK k : k = "path" OBVIOUS
  <2>3. Fine(who, nres, n, f1, GetField(k), Append(f1, Field(Last(f1), k)), k2)
    BY <2>1, <1>11, GetFieldFine
  <2>4. Field(Last(f1), k) = Function(k)
    <3>1. PICK v : v = Table("package") OBVIOUS
    <3>2. Last(Append(e, v)) = v BY <1>2, FrontOfAppend
    <3>3. v.t = "table" /\ v.v # "empty" BY <3>1 DEF Table, Value
    <3> QED BY <1>8, <3>1, <3>2, <3>3 DEF Field
  <2> QED BY <1>3, <1>8, <2>2, <2>3, <2>4
<1>13. Leads(who, nres, n, 0, c2, e, f2) /\ IsSeq(f2)
  BY <1>5, <1>7, <1>11, <1>12, LeadsOn
<1>14. Fine(who, nres, n, f2, c, f3, k3)
  <2>1. PICK v : v = Str(";path") OBVIOUS
  <2>2. Fine(who, nres, n, f2, PushOp(v), Append(f2, v), k3)
    BY <1>2, <1>11, <1>13, PushFine
  <2> QED BY <1>3, <1>8, <1>1, <2>1, <2>2
<1>15. Leads(who, nres, n, 0, c3, e, f3) /\ IsSeq(f3)
  BY <1>5, <1>7, <1>13, <1>14, LeadsOn
<1>16. Fine(who, nres, n, f3, d, f4, k4)
  <2>1. PICK v, w : v = Function("path") /\ w = Str(";path") OBVIOUS
  <2>2. Fine(who, nres, n, Append(Append(f1, v), w), Concat2, Append(f1, w), k4)
    BY <1>2, <1>11, <1>13, <1>15, TwoFine
  <2> QED BY <1>3, <1>8, <1>1, <2>1, <2>2
<1>17. Leads(who, nres, n, 0, c4, e, f4) /\ IsSeq(f4)
  BY <1>5, <1>7, <1>15, <1>16, LeadsOn
<1>18. Fine(who, nres, n, f4, g, f5, k5)
  <2>1. PICK v, k : v = Str(";path") /\ k = "path" OBVIOUS
  <2>2. Fine(who, nres, n, Append(f1, v), SetField(k), f1, k5)
    BY <1>2, <1>11, <1>13, <1>15, <1>17, SetFieldFine
  <2> QED BY <1>3, <1>8, <1>1, <2>1, <2>2
<1>19. Leads(who, nres, n, 0, c5, e, f5) /\ IsSeq(f5)
  BY <1>5, <1>7, <1>17, <1>18, LeadsOn
<1>20. Fine(who, nres, n, f5, h, f6, k6)
  <2>1. PICK v : v = Table("package") OBVIOUS
  <2>2. Fine(who, nres, n, Append(e, v), Pop(1), e, k6)
    BY <1>2, <1>11, <1>13, <1>15, <1>17, <1>19, PopFine
  <2> QED BY <1>3, <1>8, <1>1, <2>1, <2>2
<1>21. Leads(who, nres, n, 0, c6, e, f6) /\ IsSeq(f6)
  BY <1>5, <1>7, <1>19, <1>20, LeadsOn
<1>22. AddSearchPath = c6
  BY <1>3, <1>4 DEF AddSearchPath
<1> QED BY <1>1, <1>4, <1>5, <1>6, <1>8, <1>21, <1>22

\* LuaEngine.addLuaLoader
LEMMA LoaderLeads ==
  ASSUME NEW who, NEW nres \in {0, 1}, nres # 1, NEW n
  PROVE  Leads(who, nres, n, 0, AddLuaLoader, <<>>, <<>>) /\ Len(AddLuaLoader) = 5
<1>1. PICK e : e = <<>> OBVIOUS
<1>2. IsSeq(e) /\ Len(e) = 0 BY <1>1, NilFacts
<1>3. PICK a, b, c, d, g :
          /\ a = PushOp(Table("package"))
          /\ b = GetField("loaders")
          /\ c = PushOp(Object("loader"))
          /\ d = Pop(1)
          /\ g = Pop(2)
  OBVIOUS
<1>4. PICK c0, c1, c2, c3, c4, c5 :
          c0 = <<>> /\ c1 = <<a>> /\ c2 = <<a, b>> /\ c3 = <<a, b, c>> /\ c4 = <<a, b, c, d>>
          /\ c5 = <<a, b, c, d, g>>
  OBVIOUS
<1>5. /\ c1 = Append(c0, a) /\ c2 = Append(c1, b) /\ c3 = Append(c2, c) /\ c4 = Append(c3, d)
         /\ c5 = Append(c4, g)
      /\ Len(c0) = 0 /\ Len(c1) = 1 /\ Len(c2) = 2 /\ Len(c3) = 3 /\ Len(c4) = 4 /\ Len(c5) = 5
  BY <1>4, Tuple1, Tuple2, Tuple3, Tuple4, Tuple5, NilFacts
<1>6. PICK k1, k2, k3, k4, k5 : k1 = 1 /\ k2 = 2 /\ k3 = 3 /\ k4 = 4 /\ k5 = 5 OBVIOUS
<1>7. 0 \in Nat /\ k1 = 0 + Len(c0) + 1 /\ k2 = 0 + Len(c1) + 1 /\ k3 = 0 + Len(c2) + 1
      /\ k4 = 0 + Len(c3) + 1 /\ k5 = 0 + Len(c4) + 1 BY <1>5, <1>6
<1>8. PICK f1, f2, f3, f4, f5 :
          /\ f1 = Append(e, Table("package"))
          /\ f2 = Append(f1, Function("loaders"))
          /\ f3 = Append(f2, Object("loader"))
          /\ f4 = f2
          /\ f5 = e
  OBVIOUS
<1>9. Leads(who, nres, n, 0, c0, e, e)
  BY <1>4, <1>2, LeadsNil
<1>10. Fine(who, nres, n, e, a, f1, k1)
  <2>1. PICK v : v = Table("package") OBVIOUS
  <2>2. Fine(who, nres, n, e, PushOp(v), Append(e, v), k1)
    BY <1>2, PushFine
  <2> QED BY <1>3, <1>8, <1>1, <2>1, <2>2
<1>11. Leads(who, nres, n, 0, c1, e, f1) /\ IsSeq(f1)
  BY <1>5, <1>7, <1>9, <1>10, LeadsOn
<1>12. Fine(who, nres, n, f1, b, f2, k2)
  <2>1. Len(f1) > 0
    <3>1. PICK v : v = Table("package") OBVIOUS
    <3>2. Len(Append(e, v)) = Len(e) + 1 BY <1>2, AppendFacts
    <3>3. f1 = Append(e, v) BY <1>8, <3>1
    <3> QED BY <1>2, <3>2, <3>3
  <2>2. PICK k : k = "loaders" OBVIOUS
  <2>3. Fine(who, nres, n, f1, GetField(k), Append(f1, Field(Last(f1), k)), k2)
    BY <2>1, <1>11, GetFieldFine
  <2>4. Field(Last(f1), k) = Function(k)
    <3>1. PICK v : v = Table("package") OBVIOUS
    <3>2. Last(Append(e, v)) = v BY <1>2, FrontOfAppend
    <3>3. v.t = "table" /\ v.v # "empty" BY <3>1 DEF Table, Value
    <3> QED BY <1>8, <3>1, <3>2, <3>3 DEF Field
  <2> QED BY <1>3, <1>8, <2>2, <2>3, <2>4
<1>13. Leads(who, nres, n, 0, c2, e, f2) /\ IsSeq(f2)
  BY <1>5, <1>7, <1>11, <1>12, LeadsOn
<1>14. Fine(who, nres, n, f2, c, f3, k3)
  <2>1. PICK v : v = Object("loader") OBVIOUS
  <2>2. Fine(who, nres, n, f2, PushOp(v), Append(f2, v), k3)
    BY <1>2, <1>11, <1>13, PushFine
  <2> QED BY <1>3, <1>8, <1>1, <2>1, <2>2
<1>15. Leads(who, nres, n, 0, c3, e, f3) /\ IsSeq(f3)
  BY <1>5, <1>7, <1>13, <1>14, LeadsOn
<1>16. Fine(who, nres, n, f3, d, f4, k4)
  <2>1. PICK v : v = Object("loader") OBVIOUS
  <2>2. Fine(who, nres, n, Append(f2, v), Pop(1), f2, k4)
    BY <1>2, <1>11, <1>13, <1>15, PopFine
  <2> QED BY <1>3, <1>8, <1>1, <2>1, <2>2
<1>17. Leads(who, nres, n, 0, c4, e, f4) /\ IsSeq(f4)
  BY <1>5, <1>7, <1>15, <1>16, LeadsOn
<1>18. Fine(who, nres, n, f4, g, f5, k5)
  <2>1. PICK v, w : v = Table("package") /\ w = Function("loaders") OBVIOUS
  <2>2. Fine(who, nres, n, Append(Append(e, v), w), Pop(2), e, k5)
    BY <1>2, <1>11, <1>13, <1>15, <1>17, PopFine
  <2> QED BY <1>3, <1>8, <1>1, <2>1, <2>2
<1>19. Leads(who, nres, n, 0, c5, e, f5) /\ IsSeq(f5)
  BY <1>5, <1>7, <1>17, <1>18, LeadsOn
<1>20. AddLuaLoader = c5
  BY <1>3, <1>4 DEF AddLuaLoader
<1> QED BY <1>1, <1>4, <1>5, <1>6, <1>8, <1>19, <1>20

\* LuaEngine.printStackTrace
LEMMA TraceLeads ==
  ASSUME NEW who, who = "trace", NEW nres \in {0, 1}, nres # 1, NEW n, n = 4
  PROVE  Leads(who, nres, n, 0, PrintStackTrace, <<>>, <<>>) /\ Len(PrintStackTrace) = 4
<1>1. PICK e, t, fn : e = <<>> /\ t = Table("debug") /\ fn = Function("traceback") OBVIOUS
<1>2. IsSeq(e) /\ Len(e) = 0 BY <1>1, NilFacts
<1>3. PICK a, b, c, d : /\ a = PushOp(t) /\ b = GetField("traceback")
                        /\ c = PCall(fn, <<>>, 0) /\ d = Pop(1)
  OBVIOUS
<1>4. PICK c1, c2, c3, c4 : c1 = <<a>> /\ c2 = <<a, b>> /\ c3 = <<a, b, c>> /\ c4 = <<a, b, c, d>>
  OBVIOUS
<1>5. /\ c2 = Append(c1, b) /\ c3 = Append(c2, c) /\ c4 = Append(c3, d)
      /\ Len(c1) = 1 /\ Len(c2) = 2 /\ Len(c3) = 3 /\ Len(c4) = 4
  BY <1>4, Tuple1, Tuple2, Tuple3, Tuple4
<1>6. PICK k1, k2, k3, k4 : k1 = 1 /\ k2 = 2 /\ k3 = 3 /\ k4 = 4 OBVIOUS
<1>7. /\ 0 \in Nat /\ k1 = 0 + 1 /\ k2 = 0 + Len(c1) + 1 /\ k3 = 0 + Len(c2) + 1
      /\ k4 = 0 + Len(c3) + 1
  BY <1>5, <1>6
<1>8. PICK f1, f2 : f1 = Append(e, t) /\ f2 = Append(f1, fn) OBVIOUS
<1>9. Fine(who, nres, n, e, a, f1, k1) BY <1>2, <1>3, <1>8, PushFine
<1>10. Leads(who, nres, n, 0, c1, e, f1) /\ IsSeq(f1) BY <1>2, <1>4, <1>7, <1>9, LeadsOne
<1>11. Len(f1) = 1 /\ f1[1] = t /\ Last(f1) = t
  <2>1. Len(f1) = Len(e) + 1 /\ f1[Len(e) + 1] = t BY <1>2, <1>8, AppendFacts
  <2>2. Last(Append(e, t)) = t BY <1>2, FrontOfAppend
  <2> QED BY <1>2, <1>8, <2>1, <2>2
<1>12. Fine(who, nres, n, f1, b, f2, k2)
  <2>1. PICK k : k = "traceback" OBVIOUS
  <2>2. Fine(who, nres, n, f1, GetField(k), Append(f1, Field(Last(f1), k)), k2)
    BY <1>10, <1>11, GetFieldFine
  <2>3. Field(t, k) = fn BY <1>1, <2>1 DEF Field, Table, Value
  <2> QED BY <1>3, <1>8, <1>11, <2>1, <2>2, <2>3
<1>13. Leads(who, nres, n, 0, c2, e, f2) /\ IsSeq(f2) BY <1>5, <1>7, <1>10, <1>12, LeadsOn
<1>14. Fine(who, nres, n, f2, c, f1, k3)
  <2>1. PICK args : args = <<>> OBVIOUS
  <2>2. who \in Failing /\ nres = 0 /\ Len(f1) = Residue(who, n - k3)
    BY <1>11 DEF Failing, Residue
  <2>3. Carries(f2, f1, fn, args)
    <3>1. IsSeq(args) /\ Len(args) = 0 BY <2>1, NilFacts
    <3>2. /\ Len(f2) = Len(f1) + 1 /\ f2[Len(f1) + 1] = fn
          /\ \A x \in 1 .. Len(f1) : f2[x] = f1[x]
      BY <1>8, <1>10, AppendFacts
    <3>3. Len(f2) = Len(f1) + 1 + Len(args) /\ 1 .. Len(args) = {} BY <1>11, <3>1, <3>2
    <3> QED BY <1>10, <3>1, <3>2, <3>3 DEF Carries
  <2>4. Fine(who, nres, n, f2, PCall(fn, args, nres), f1, k3) BY <2>2, <2>3, PCallFine
  <2> QED BY <1>3, <2>1, <2>2, <2>4
<1>15. Leads(who, nres, n, 0, c3, e, f1) BY <1>5, <1>7, <1>13, <1>14, LeadsOn
<1>16. Fine(who, nres, n, f1, d, e, k4)
  <2>1. Fine(who, nres, n, Append(e, t), Pop(1), e, k4) BY <1>2, PopFine
  <2> QED BY <1>3, <1>8, <2>1
<1>17. Leads(who, nres, n, 0, c4, e, e) BY <1>5, <1>7, <1>15, <1>16, LeadsOn
<1>18. PrintStackTrace = c4 BY <1>1, <1>3, <1>4 DEF PrintStackTrace
<1> QED BY <1>1, <1>5, <1>17, <1>18

\* LuaEngine.executeScriptFile, on any frame
LEMMA FileLeads ==
  ASSUME NEW who, who = "file", NEW nres \in {0, 1}, NEW n, n = 2, NEW s, IsSeq(s)
  PROVE  Leads(who, nres, n, 0, ExecuteScriptFile(nres), s, <<>>) /\ Len(ExecuteScriptFile(nres)) = 2
<1>1. PICK e, a, b, k1, k2 : /\ e = <<>> /\ a = SetTopZero /\ b = Op("doFile", Nil, nres)
                             /\ k1 = 1 /\ k2 = 2
  OBVIOUS
<1>2. IsSeq(e) /\ Len(e) = 0 BY <1>1, NilFacts
<1>3. PICK c1, c2 : c1 = <<a>> /\ c2 = <<a, b>> OBVIOUS
<1>4. c2 = Append(c1, b) /\ Len(c1) = 1 /\ Len(c2) = 2 BY <1>3, Tuple1, Tuple2
<1>5. 0 \in Nat /\ k1 = 0 + 1 /\ k2 = 0 + Len(c1) + 1 /\ 1 # n BY <1>1, <1>4
<1>6. who \in Clears BY DEF Clears
<1>7. Fine(who, nres, n, s, a, e, k1) BY <1>1, <1>5, <1>6, SetTopFine
<1>8. Leads(who, nres, n, 0, c1, s, e) BY <1>3, <1>5, <1>7, LeadsOne
<1>9. Fine(who, nres, n, e, b, e, k2)
  <2>1. Len(e) = Residue(who, n - k2) /\ k2 = n BY <1>1, <1>2 DEF Residue
  <2> QED BY <1>1, <1>2, <1>6, <2>1, DoFileFine
<1>10. Leads(who, nres, n, 0, c2, s, e) BY <1>4, <1>5, <1>8, <1>9, LeadsOn
<1>11. ExecuteScriptFile(nres) = c2 BY <1>1, <1>3 DEF ExecuteScriptFile
<1> QED BY <1>1, <1>4, <1>10, <1>11

\* The LuaObject of a method of a proxied table
LEMMA ObjectLeads ==
  ASSUME NEW who, NEW nres, NEW n \in Nat, nres = 1 => n > 9, NEW parent, NEW name
  PROVE  Leads(who, nres, n, 0, NewLuaObject(parent, name), <<>>, <<>>)
         /\ Len(NewLuaObject(parent, name)) = 9
<1>1. PICK e, x : e = <<>> /\ x = Field(parent, name) OBVIOUS
<1>2. IsSeq(e) /\ Len(e) = 0 BY <1>1, NilFacts
<1>3. PICK z, w : z = 0 /\ w = Str(name) OBVIOUS
<1>4. PICK p, q, d : p = Check(parent) /\ q = Check(x) /\ d = <<Pop(1)>> OBVIOUS
<1>5. PICK a1, a2, a3, a4 : /\ a1 = PushOp(parent) /\ a2 = PushOp(w)
                            /\ a3 = Op("getTable", Nil, 0) /\ a4 = Remove2
  OBVIOUS
<1>6. PICK k2, k3, k4, k5, k6, k9, k10 :
          /\ k2 = 2 /\ k3 = 3 /\ k4 = 4 /\ k5 = 5 /\ k6 = 6 /\ k9 = 8 /\ k10 = 9
  OBVIOUS
<1>7. nres = 1 => k3 # n /\ k4 # n /\ k5 # n /\ k6 # n /\ k10 # n /\ n > z + 2 /\ n > k6 + 2
  BY <1>3, <1>6
<1>8. Leads(who, nres, n, z, p, e, e) /\ Len(p) = 2
  <2>1. z \in Nat BY <1>3
  <2> QED BY <1>2, <1>4, <1>7, <2>1, CheckLeads
<1>9. PICK c1, c2, c3, c4 :
          c1 = <<a1>> /\ c2 = <<a1, a2>> /\ c3 = <<a1, a2, a3>> /\ c4 = <<a1, a2, a3, a4>>
  OBVIOUS
<1>10. /\ c2 = Append(c1, a2) /\ c3 = Append(c2, a3) /\ c4 = Append(c3, a4)
       /\ Len(c1) = 1 /\ Len(c2) = 2 /\ Len(c3) = 3 /\ Len(c4) = 4
  BY <1>9, Tuple1, Tuple2, Tuple3, Tuple4
<1>11. /\ k2 \in Nat /\ k3 = k2 + 1 /\ k4 = k2 + Len(c1) + 1 /\ k5 = k2 + Len(c2) + 1
       /\ k6 = k2 + Len(c3) + 1 /\ k2 = z + Len(p)
  BY <1>3, <1>6, <1>8, <1>10
<1>12. PICK f1, f2, f3, f4 : /\ f1 = Append(e, parent) /\ f2 = Append(f1, w)
                             /\ f3 = Append(f1, x) /\ f4 = Append(e, x)
  OBVIOUS
<1>13. Fine(who, nres, n, e, a1, f1, k3) BY <1>2, <1>5, <1>7, <1>12, PushFine
<1>14. Leads(who, nres, n, k2, c1, e, f1) /\ IsSeq(f1) BY <1>2, <1>9, <1>11, <1>13, LeadsOne
<1>15. Fine(who, nres, n, f1, a2, f2, k4) BY <1>5, <1>7, <1>12, <1>14, PushFine
<1>16. Leads(who, nres, n, k2, c2, e, f2) /\ IsSeq(f2) BY <1>10, <1>11, <1>14, <1>15, LeadsOn
<1>17. Fine(who, nres, n, f2, a3, f3, k5)
  <2>1. w.v = name BY <1>3 DEF Str, Value
  <2>2. Fine(who, nres, n, Append(Append(e, parent), w), Op("getTable", Nil, 0),
             Append(Append(e, parent), Field(parent, w.v)), k5)
    BY <1>2, <1>7, TwoFine
  <2> QED BY <1>1, <1>5, <1>12, <2>1, <2>2
<1>18. Leads(who, nres, n, k2, c3, e, f3) /\ IsSeq(f3) BY <1>10, <1>11, <1>16, <1>17, LeadsOn
<1>19. Fine(who, nres, n, f3, a4, f4, k6)
  <2>1. Fine(who, nres, n, Append(Append(e, parent), x), Remove2, Append(e, x), k6)
    BY <1>2, <1>7, TwoFine
  <2> QED BY <1>5, <1>12, <2>1
<1>20. Leads(who, nres, n, k2, c4, e, f4) /\ IsSeq(f4) BY <1>10, <1>11, <1>18, <1>19, LeadsOn
<1>21. Leads(who, nres, n, k6, q, f4, f4) /\ Len(q) = 2
  <2>1. k6 \in Nat BY <1>6
  <2> QED BY <1>4, <1>7, <1>20, <2>1, CheckLeads
<1>22. Leads(who, nres, n, k9, d, f4, e) /\ Len(d) = 1
  <2>1. Fine(who, nres, n, Append(e, x), Pop(1), e, k10) BY <1>2, <1>7, PopFine
  <2>2. k9 \in Nat /\ k10 = k9 + 1 BY <1>6
  <2>3. PICK o : o = Pop(1) OBVIOUS
  <2>4. Leads(who, nres, n, k9, <<o>>, f4, e) BY <1>12, <1>20, <2>1, <2>2, <2>3, LeadsOne
  <2> QED BY <1>4, <2>3, <2>4, Tuple1
<1>23. z \in Nat BY <1>3
<1>24. PICK b1, b2, b3 : b1 = p \o c4 /\ b2 = b1 \o q /\ b3 = b2 \o d OBVIOUS
<1>25. Leads(who, nres, n, z, b1, e, f4) /\ Len(b1) = 6
  <2>1. Leads(who, nres, n, z, b1, e, f4) BY ONLY <1>8, <1>11, <1>20, <1>23, <1>24, JoinLeads
  <2>2. Len(b1) = Len(p) + Len(c4)
    <3>1. IsSeq(p) /\ IsSeq(c4) BY ONLY <1>8, <1>20, <1>24, LeadsSeq
    <3> QED BY ONLY <3>1, <1>8, <1>20, <1>24, ConcatFacts
  <2> QED BY <1>8, <1>10, <2>1, <2>2
<1>26. Leads(who, nres, n, z, b2, e, f4) /\ Len(b2) = 8
  <2>1. k6 = z + Len(b1) BY <1>3, <1>6, <1>25
  <2>2. Leads(who, nres, n, z, b2, e, f4) BY ONLY <1>21, <1>23, <1>24, <1>25, <2>1, JoinLeads
  <2>3. Len(b2) = Len(b1) + Len(q)
    <3>1. IsSeq(b1) /\ IsSeq(q) BY ONLY <1>21, <1>24, <1>25, LeadsSeq
    <3> QED BY ONLY <3>1, <1>21, <1>24, <1>25, ConcatFacts
  <2> QED BY <1>21, <1>25, <2>2, <2>3
<1>27. Leads(who, nres, n, z, b3, e, e) /\ Len(b3) = 9
  <2>1. k9 = z + Len(b2) BY <1>3, <1>6, <1>26
  <2>2. Leads(who, nres, n, z, b3, e, e) BY ONLY <1>22, <1>23, <1>24, <1>26, <2>1, JoinLeads
  <2>3. Len(b3) = Len(b2) + Len(d)
    <3>1. IsSeq(b2) /\ IsSeq(d) BY ONLY <1>22, <1>24, <1>26, LeadsSeq
    <3> QED BY ONLY <3>1, <1>22, <1>24, <1>26, ConcatFacts
  <2> QED BY <1>22, <1>26, <2>2, <2>3
<1>28. NewLuaObject(parent, name) = b3
  BY <1>1, <1>3, <1>4, <1>5, <1>9, <1>24 DEF NewLuaObject
<1> QED BY <1>1, <1>3, <1>27, <1>28

\* JavaFunction.register
LEMMA RegisterLeads ==
  ASSUME NEW who, NEW nres \in {0, 1}, nres # 1, NEW n, NEW name
  PROVE  Leads(who, nres, n, 0, Register(name), <<>>, <<>>) /\ Len(Register(name)) = 2
<1>1. PICK e : e = <<>> OBVIOUS
<1>2. IsSeq(e) /\ Len(e) = 0 BY <1>1, NilFacts
<1>3. PICK a, b :
          /\ a = PushOp(Object(name))
          /\ b = Pop(1)
  OBVIOUS
<1>4. PICK c0, c1, c2 :
          c0 = <<>> /\ c1 = <<a>> /\ c2 = <<a, b>>
  OBVIOUS
<1>5. /\ c1 = Append(c0, a) /\ c2 = Append(c1, b)
      /\ Len(c0) = 0 /\ Len(c1) = 1 /\ Len(c2) = 2
  BY <1>4, Tuple1, Tuple2, NilFacts
<1>6. PICK k1, k2 : k1 = 1 /\ k2 = 2 OBVIOUS
<1>7. 0 \in Nat /\ k1 = 0 + Len(c0) + 1 /\ k2 = 0 + Len(c1) + 1 BY <1>5, <1>6
<1>8. PICK f1, f2 :
          /\ f1 = Append(e, Object(name))
          /\ f2 = e
  OBVIOUS
<1>9. Leads(who, nres, n, 0, c0, e, e)
  BY <1>4, <1>2, LeadsNil
<1>10. Fine(who, nres, n, e, a, f1, k1)
  <2>1. PICK v : v = Object(name) OBVIOUS
  <2>2. Fine(who, nres, n, e, PushOp(v), Append(e, v), k1)
    BY <1>2, PushFine
  <2> QED BY <1>3, <1>8, <1>1, <2>1, <2>2
<1>11. Leads(who, nres, n, 0, c1, e, f1) /\ IsSeq(f1)
  BY <1>5, <1>7, <1>9, <1>10, LeadsOn
<1>12. Fine(who, nres, n, f1, b, f2, k2)
  <2>1. PICK v : v = Object(name) OBVIOUS
  <2>2. Fine(who, nres, n, Append(e, v), Pop(1), e, k2)
    BY <1>2, <1>11, PopFine
  <2> QED BY <1>3, <1>8, <1>1, <2>1, <2>2
<1>13. Leads(who, nres, n, 0, c2, e, f2) /\ IsSeq(f2)
  BY <1>5, <1>7, <1>11, <1>12, LeadsOn
<1>14. Register(name) = c2
  BY <1>3, <1>4 DEF Register
<1> QED BY <1>1, <1>4, <1>5, <1>6, <1>8, <1>13, <1>14

\* LuaEngine.executeModuleFunction, on any frame
LEMMA ModuleLeads ==
  ASSUME NEW who, who = "module", NEW nres \in {0, 1}, nres # 1, NEW n, n = 8, NEW s, IsSeq(s),
         NEW m, NEW f, NEW v
  PROVE  /\ Leads(who, nres, n, 0, ExecuteModuleFunction(m, f, <<v>>), s, <<m>>)
         /\ Len(ExecuteModuleFunction(m, f, <<v>>)) = 8
<1>1. PICK e, w, fn, args, chunk : /\ e = <<>> /\ w = m /\ fn = Field(m, f)
                                   /\ args = <<w>> \o <<v>> /\ chunk = "require"
  OBVIOUS
<1>2. IsSeq(e) /\ Len(e) = 0 BY <1>1, NilFacts
<1>3. PICK a, b, c, d : a = PushOp(w) /\ b = GetField(f) /\ c = PushOp(v) /\ d = PCall(fn, args, 0)
  OBVIOUS
<1>0. PICK c3 : c3 = EvalLua(chunk) OBVIOUS
<1>4. PICK c4, c5, c6, c7, c8 :
          /\ c4 = Append(c3, a) /\ c5 = Append(c4, b)
          /\ c6 = Append(c5, a) /\ c7 = Append(c6, c) /\ c8 = Append(c7, d)
  OBVIOUS
<1>5. Leads(who, nres, n, 0, c3, s, e) /\ Len(c3) = 3
  <2>1. who \in Clears /\ n \in Nat /\ n >= 3 /\ (who = "module" => n # 3) BY DEF Clears
  <2>2. Leads(who, nres, n, 0, EvalLua(chunk), s, <<>>) /\ Len(EvalLua(chunk)) = 3
    BY <2>1, EvalLeads
  <2> QED BY <1>0, <1>1, <2>2
<1>6. /\ IsSeq(c3) /\ IsSeq(c4) /\ IsSeq(c5) /\ IsSeq(c6) /\ IsSeq(c7) /\ IsSeq(c8)
      /\ Len(c4) = 4 /\ Len(c5) = 5 /\ Len(c6) = 6 /\ Len(c7) = 7 /\ Len(c8) = 8
  <2>1. IsSeq(c3) BY <1>5 DEF Leads
  <2>2. IsSeq(c4) /\ Len(c4) = 4
    <3>1. c4 = Append(c3, a) BY <1>4
    <3>2. IsSeq(c4) /\ Len(c4) = Len(c3) + 1 BY ONLY <2>1, <3>1, AppendFacts
    <3> QED BY <1>5, <3>2
  <2>3. IsSeq(c5) /\ Len(c5) = 5 BY <1>4, <2>2, AppendFacts
  <2>4. IsSeq(c6) /\ Len(c6) = 6 BY <1>4, <2>3, AppendFacts
  <2>5. IsSeq(c7) /\ Len(c7) = 7 BY <1>4, <2>4, AppendFacts
  <2>6. IsSeq(c8) /\ Len(c8) = 8 BY <1>4, <2>5, AppendFacts
  <2> QED BY <2>1, <2>2, <2>3, <2>4, <2>5, <2>6
<1>7. ExecuteModuleFunction(m, f, <<v>>) = c8
  <2>1. PICK t : t = <<a, b, a>> OBVIOUS
  <2>2. ExecuteModuleFunction(m, f, <<v>>) = ((c3 \o t) \o <<c>>) \o <<d>>
    BY <1>0, <1>1, <1>3, <2>1, PushesFacts DEF ExecuteModuleFunction
  <2>3. c3 \o t = c6
    <3>1. t = (<<a>> \o <<b>>) \o <<a>> BY <2>1, ThreeFacts
    <3>2. c3 \o ((<<a>> \o <<b>>) \o <<a>>) = Append(Append(Append(c3, a), b), a)
      BY ONLY <1>6, ThenThree
    <3> QED BY <1>4, <3>1, <3>2
  <2>4. c6 \o <<c>> = c7 BY <1>4, <1>6, CatFacts
  <2>5. c7 \o <<d>> = c8 BY <1>4, <1>6, CatFacts
  <2> QED BY <2>2, <2>3, <2>4, <2>5
<1>8. PICK f1, f2, f3, f4 : /\ f1 = Append(e, w) /\ f2 = Append(f1, fn)
                            /\ f3 = Append(f2, w) /\ f4 = Append(f3, v)
  OBVIOUS
<1>9. PICK k4, k5, k6, k7, k8 : k4 = 4 /\ k5 = 5 /\ k6 = 6 /\ k7 = 7 /\ k8 = 8 OBVIOUS
<1>10. /\ 0 \in Nat /\ k4 = 0 + Len(c3) + 1 /\ k5 = 0 + Len(c4) + 1 /\ k6 = 0 + Len(c5) + 1
       /\ k7 = 0 + Len(c6) + 1 /\ k8 = 0 + Len(c7) + 1
  BY <1>5, <1>6, <1>9
<1>11. Fine(who, nres, n, e, a, f1, k4) BY <1>2, <1>3, <1>8, PushFine
<1>12. Leads(who, nres, n, 0, c4, s, f1) /\ IsSeq(f1) BY <1>4, <1>5, <1>10, <1>11, LeadsOn
<1>13. Len(f1) = 1 /\ f1[1] = w
  <2>1. Len(f1) = Len(e) + 1 /\ f1[Len(e) + 1] = w BY <1>2, <1>8, AppendFacts
  <2> QED BY <1>2, <2>1
<1>14. Fine(who, nres, n, f1, b, f2, k5)
  <2>1. Fine(who, nres, n, f1, GetField(f), Append(f1, Field(Last(f1), f)), k5)
    BY <1>12, <1>13, GetFieldFine
  <2>2. Last(f1) = m BY <1>1, <1>2, <1>8, FrontOfAppend
  <2> QED BY <1>1, <1>3, <1>8, <2>1, <2>2
<1>15. Leads(who, nres, n, 0, c5, s, f2) /\ IsSeq(f2) BY <1>4, <1>10, <1>12, <1>14, LeadsOn
<1>16. Fine(who, nres, n, f2, a, f3, k6) BY <1>3, <1>8, <1>15, PushFine
<1>17. Leads(who, nres, n, 0, c6, s, f3) /\ IsSeq(f3) BY <1>4, <1>10, <1>15, <1>16, LeadsOn
<1>18. Fine(who, nres, n, f3, c, f4, k7) BY <1>3, <1>8, <1>17, PushFine
<1>19. Leads(who, nres, n, 0, c7, s, f4) /\ IsSeq(f4) BY <1>4, <1>10, <1>17, <1>18, LeadsOn
<1>20. Carries(f4, f1, fn, args)
  <2>1. IsSeq(args) /\ Len(args) = 2 /\ args[1] = w /\ args[2] = v
    <3>1. PICK p, q : p = <<w>> /\ q = <<v>> OBVIOUS
    <3>2. IsSeq(p) /\ Len(p) = 1 /\ p[1] = w /\ IsSeq(q) /\ Len(q) = 1 /\ q[1] = v
      BY <3>1, OneFacts
    <3>3. IsSeq(p) /\ IsSeq(q) BY <3>2
    <3>4. /\ IsSeq(p \o q) /\ Len(p \o q) = Len(p) + Len(q)
          /\ \A i \in 1 .. Len(p) : (p \o q)[i] = p[i]
          /\ \A i \in 1 .. Len(q) : (p \o q)[Len(p) + i] = q[i]
      BY ONLY <3>3, ConcatFacts
    <3>5. args = p \o q BY <1>1, <3>1
    <3>6. 1 \in 1 .. 1 /\ 1 + 1 = 2 OBVIOUS
    <3> QED BY ONLY <3>2, <3>4, <3>5, <3>6
  <2>2. Len(f2) = 2 /\ f2[1] = w /\ f2[2] = fn
    <3>1. Len(f2) = Len(f1) + 1 /\ f2[Len(f1) + 1] = fn /\ \A i \in 1 .. Len(f1) : f2[i] = f1[i]
      BY <1>8, <1>12, AppendFacts
    <3> QED BY <1>13, <3>1
  <2>3. Len(f3) = 3 /\ f3[1] = w /\ f3[2] = fn /\ f3[3] = w
    <3>1. Len(f3) = Len(f2) + 1 /\ f3[Len(f2) + 1] = w /\ \A i \in 1 .. Len(f2) : f3[i] = f2[i]
      BY <1>8, <1>15, AppendFacts
    <3> QED BY <2>2, <3>1
  <2>4. Len(f4) = 4 /\ f4[1] = w /\ f4[2] = fn /\ f4[3] = w /\ f4[4] = v
    <3>1. Len(f4) = Len(f3) + 1 /\ f4[Len(f3) + 1] = v /\ \A i \in 1 .. Len(f3) : f4[i] = f3[i]
      BY <1>8, <1>17, AppendFacts
    <3> QED BY <2>3, <3>1
  <2>5. /\ 1 + 1 + 2 = 4 /\ 1 + 1 = 2 /\ 2 + 1 = 3 /\ 2 + 2 = 4
        /\ (\A i \in 1 .. 1 : i = 1) /\ \A i \in 1 .. 2 : i = 1 \/ i = 2
    OBVIOUS
  <2>6. \A i \in 1 .. 2 : f4[2 + i] = args[i] BY <2>1, <2>4, <2>5
  <2> QED BY <1>12, <1>13, <2>1, <2>4, <2>5, <2>6 DEF Carries
<1>21. Fine(who, nres, n, f4, d, f1, k8)
  <2>1. who \in Failing /\ nres = 0 BY DEF Failing
  <2>2. Len(f1) = Residue(who, n - k8)
    <3>1. n - k8 = 0 BY <1>9
    <3> QED BY <1>13, <3>1 DEF Residue
  <2>3. nres = 1 => k8 = n OBVIOUS
  <2>4. Fine(who, nres, n, f4, PCall(fn, args, nres), f1, k8)
    BY <1>20, <2>1, <2>2, <2>3, PCallFine
  <2> QED BY <1>3, <2>1, <2>4
<1>22. Leads(who, nres, n, 0, c8, s, f1) BY <1>4, <1>10, <1>19, <1>21, LeadsOn
<1>23. f1 = <<m>> BY <1>1, <1>8, Tuple1
<1> QED BY <1>6, <1>7, <1>22, <1>23

\* Code as it starts: it runs from an empty part of its frame to its end.
Coding(who, nres, code) ==
  /\ \E o : o[0] = <<>> /\ Path(who, nres, code, o)
  /\ Len(code) > 0
  /\ who \in Clears => code[1].op = "setTop"

LEMMA LeadsCoding ==
  ASSUME NEW who, NEW nres \in {0, 1}, nres = 1 => who \in {"call", "file"},
         NEW code, NEW n, n = Len(code), n > 0, NEW e, Len(e) = 0, IsSeq(e),
         NEW r, Leads(who, nres, n, 0, code, e, r), Len(r) = Rest(who),
         who \in Clears => code[1].op = "setTop"
  PROVE  Coding(who, nres, code)
<1>1. \E o : o[0] = e /\ Path(who, nres, code, o) BY LeadsPath
<1>2. e = <<>> BY SeqFacts
<1> QED BY <1>1, <1>2 DEF Coding

\* LuaEngine.executeGlobalFunction
LEMMA GlobalCoding ==
  ASSUME NEW fn, NEW v, NEW code, code = ExecuteGlobalFunction(fn, <<v>>)
  PROVE  Coding("global", 0, code)
<1>1. PICK e, n, i, who, nres : e = <<>> /\ n = 3 /\ i = 0 /\ who = "global" /\ nres = 0 OBVIOUS
<1>2. IsSeq(e) /\ Len(e) = 0 BY <1>1, NilFacts
<1>3. /\ who \in Failing /\ nres \in {0, 1} /\ n \in Nat /\ i \in Nat /\ n = i + 3
      /\ who \notin Clears /\ nres # 1 /\ Len(e) = Residue(who, 0) /\ Len(e) = Rest(who)
  BY <1>1, <1>2 DEF Failing, Clears, Residue, Rest
<1>4. Leads(who, nres, n, i, PushAndCall(fn, <<v>>, nres), e, e)
      /\ Len(PushAndCall(fn, <<v>>, nres)) = 3
  BY <1>2, <1>3, CallLeads
<1>5. code = PushAndCall(fn, <<v>>, nres) BY <1>1 DEF ExecuteGlobalFunction
<1>6. Coding(who, nres, code)
  <2>1. n = Len(code) /\ n > 0 BY <1>1, <1>4, <1>5
  <2>2. Leads(who, nres, n, 0, code, e, e) BY <1>1, <1>4, <1>5
  <2> QED BY ONLY <1>2, <1>3, <2>1, <2>2, LeadsCoding
<1> QED BY <1>1, <1>6

\* LuaObject.call
LEMMA CallCoding ==
  ASSUME NEW nres \in {0, 1}, NEW fn, NEW v, NEW code, code = LuaObjectCall(fn, <<v>>, nres)
  PROVE  Coding("call", nres, code)
<1>1. PICK e, n, i, who : e = <<>> /\ n = 5 /\ i = 0 /\ who = "call" OBVIOUS
<1>2. IsSeq(e) /\ Len(e) = 0 BY <1>1, NilFacts
<1>3. /\ who \in Failing /\ who \in {"call", "file"} /\ n \in Nat /\ i \in Nat /\ n = i + 5
      /\ who \notin Clears /\ Len(e) = Residue(who, 0) /\ Len(e) = Rest(who)
  BY <1>1, <1>2 DEF Failing, Clears, Residue, Rest
<1>4. Leads(who, nres, n, i, code, e, e) /\ Len(code) = 5 BY <1>2, <1>3, ObjectCallLeads
<1>5. Coding(who, nres, code)
  <2>1. n = Len(code) /\ n > 0 BY <1>1, <1>4
  <2>2. Leads(who, nres, n, 0, code, e, e) BY <1>1, <1>4
  <2> QED BY <1>2, <1>3, <2>1, <2>2, LeadsCoding
<1> QED BY <1>1, <1>5

\* A proxy gets the LuaObject of its method, which is there, and calls it.
LEMMA InvokeCoding ==
  ASSUME NEW nres \in {0, 1}, NEW parent, NEW name, NEW fn, NEW v,
         NEW code, code = NewLuaObject(parent, name) \o Check(fn) \o LuaObjectCall(fn, <<v>>, nres)
  PROVE  Coding("call", nres, code)
<1>1. PICK e, n, z, k, m, who : e = <<>> /\ n = 16 /\ z = 0 /\ k = 9 /\ m = 11 /\ who = "call"
  OBVIOUS
<1>2. IsSeq(e) /\ Len(e) = 0 BY <1>1, NilFacts
<1>3. /\ who \in Failing /\ who \in {"call", "file"} /\ n \in Nat /\ z \in Nat /\ k \in Nat
      /\ m \in Nat /\ n = m + 5 /\ n > 9 /\ n > k + 2
      /\ who \notin Clears /\ Len(e) = Residue(who, 0) /\ Len(e) = Rest(who)
  BY <1>1, <1>2 DEF Failing, Clears, Residue, Rest
<1>4. PICK a, b, c, d : /\ a = NewLuaObject(parent, name) /\ b = Check(fn) /\ d = a \o b
                        /\ c = LuaObjectCall(fn, <<v>>, nres)
  OBVIOUS
<1>5. Leads(who, nres, n, z, a, e, e) /\ Len(a) = 9 BY <1>1, <1>3, <1>4, ObjectLeads
<1>6. Leads(who, nres, n, k, b, e, e) /\ Len(b) = 2 BY <1>2, <1>3, <1>4, CheckLeads
<1>7. Leads(who, nres, n, m, c, e, e) /\ Len(c) = 5
  <2>1. /\ Leads(who, nres, n, m, LuaObjectCall(fn, <<v>>, nres), e, e)
        /\ Len(LuaObjectCall(fn, <<v>>, nres)) = 5
    BY ONLY nres \in {0, 1}, <1>2, <1>3, ObjectCallLeads
  <2> QED BY <1>4, <2>1
<1>8. Leads(who, nres, n, z, d, e, e) /\ Len(d) = 11
  <2>1. k = z + Len(a) BY <1>1, <1>5
  <2>2. z \in Nat /\ d = a \o b BY <1>3, <1>4
  <2>3. Leads(who, nres, n, z, d, e, e) BY ONLY <1>5, <1>6, <2>1, <2>2, JoinLeads
  <2>4. Len(d) = Len(a) + Len(b)
    <3>1. IsSeq(a) /\ IsSeq(b) BY ONLY <1>5, <1>6, <2>2, LeadsSeq
    <3> QED BY ONLY <3>1, <1>5, <1>6, <2>2, ConcatFacts
  <2> QED BY <1>5, <1>6, <2>3, <2>4
<1>10. code = d \o c BY <1>4
<1>9. Leads(who, nres, n, z, code, e, e) /\ Len(code) = 16
  <2>1. m = z + Len(d) BY <1>1, <1>8
  <2>2. z \in Nat BY <1>3
  <2>3. Leads(who, nres, n, z, code, e, e) BY ONLY <1>7, <1>8, <1>10, <2>1, <2>2, JoinLeads
  <2>4. Len(code) = Len(d) + Len(c)
    <3>1. IsSeq(d) /\ IsSeq(c) BY ONLY <1>7, <1>8, <1>10, LeadsSeq
    <3> QED BY ONLY <3>1, <1>7, <1>8, <1>10, ConcatFacts
  <2> QED BY <1>7, <1>8, <2>3, <2>4
<1>11. Coding(who, nres, code)
  <2>1. n = Len(code) /\ n > 0 BY <1>1, <1>9
  <2>2. Leads(who, nres, n, 0, code, e, e) BY <1>1, <1>9
  <2> QED BY <1>2, <1>3, <2>1, <2>2, LeadsCoding
<1> QED BY <1>1, <1>11

\* A proxy finds no such method.
LEMMA NoInvokeCoding ==
  ASSUME NEW parent, NEW name, NEW v, NEW code, code = NewLuaObject(parent, name) \o Check(v)
  PROVE  Coding("call", 0, code)
<1>1. PICK e, n, z, k, who, nres :
          e = <<>> /\ n = 11 /\ z = 0 /\ k = 9 /\ who = "call" /\ nres = 0
  OBVIOUS
<1>2. IsSeq(e) /\ Len(e) = 0 BY <1>1, NilFacts
<1>3. /\ nres \in {0, 1} /\ nres # 1 /\ n \in Nat /\ z \in Nat /\ k \in Nat
      /\ who \notin Clears /\ Len(e) = Rest(who)
  BY <1>1, <1>2 DEF Clears, Rest
<1>4. PICK a, b : a = NewLuaObject(parent, name) /\ b = Check(v) OBVIOUS
<1>5. Leads(who, nres, n, z, a, e, e) /\ Len(a) = 9 BY <1>1, <1>3, <1>4, ObjectLeads
<1>6. Leads(who, nres, n, k, b, e, e) /\ Len(b) = 2 BY <1>2, <1>3, <1>4, CheckLeads
<1>7. Leads(who, nres, n, z, code, e, e) /\ Len(code) = 11
  <2>1. k = z + Len(a) BY <1>1, <1>5
  <2>2. z \in Nat /\ code = a \o b BY <1>3, <1>4
  <2>3. Leads(who, nres, n, z, code, e, e) BY ONLY <1>5, <1>6, <2>1, <2>2, JoinLeads
  <2>4. Len(code) = Len(a) + Len(b)
    <3>1. IsSeq(a) /\ IsSeq(b) BY ONLY <1>5, <1>6, <2>2, LeadsSeq
    <3> QED BY ONLY <3>1, <1>5, <1>6, <2>2, ConcatFacts
  <2> QED BY <1>5, <1>6, <2>3, <2>4
<1>8. Coding(who, nres, code)
  <2>1. n = Len(code) /\ n > 0 BY <1>1, <1>7
  <2>2. Leads(who, nres, n, 0, code, e, e) BY <1>1, <1>7
  <2> QED BY <1>2, <1>3, <2>1, <2>2, LeadsCoding
<1> QED BY <1>1, <1>8

\* The other methods of LuaEngine, and JavaFunction.register
LEMMA EngineCoding ==
  ASSUME NEW who, NEW nres, nres = 0, NEW code,
         \/ who = "eval" /\ \E chunk : code = EvalLua(chunk)
         \/ who = "module" /\ \E m, f, v : code = ExecuteModuleFunction(m, f, <<v>>)
         \/ who = "path" /\ code = AddSearchPath
         \/ who = "loader" /\ code = AddLuaLoader
         \/ who = "trace" /\ code = PrintStackTrace
         \/ who = "register" /\ \E name : code = Register(name)
  PROVE  Coding(who, nres, code)
<1>1. PICK e, z : e = <<>> /\ z = nres OBVIOUS
<1>2. IsSeq(e) /\ Len(e) = 0 /\ z \in {0, 1} /\ z # 1 BY <1>1, NilFacts
<1>3. ASSUME NEW n, NEW r, Leads(who, z, n, 0, code, e, r), n = Len(code), n > 0, Len(r) = Rest(who),
             who \in Clears => code[1].op = "setTop"
      PROVE  Coding(who, nres, code)
  <2>1. Coding(who, z, code) BY <1>2, <1>3, LeadsCoding
  <2> QED BY <1>1, <2>1
<1>4. CASE who = "eval" /\ \E chunk : code = EvalLua(chunk)
  <2>1. PICK chunk : code = EvalLua(chunk) BY <1>4
  <2>2. PICK n : n = 3 OBVIOUS
  <2>3. who \in Clears /\ n \in Nat /\ n >= 3 /\ (who = "module" => n # 3) BY <1>4, <2>2 DEF Clears
  <2>4. Leads(who, z, n, 0, EvalLua(chunk), e, <<>>) /\ Len(EvalLua(chunk)) = 3
    BY <1>2, <2>3, EvalLeads
  <2>5. code[1].op = "setTop" BY <2>1 DEF EvalLua, SetTopZero, Op
  <2>6. Len(e) = Rest(who) BY <1>2, <1>4 DEF Rest
  <2> QED BY <1>1, <1>3, <2>1, <2>2, <2>4, <2>5, <2>6
<1>5. CASE who = "module" /\ \E m, f, v : code = ExecuteModuleFunction(m, f, <<v>>)
  <2>1. PICK m, f, v : code = ExecuteModuleFunction(m, f, <<v>>) BY <1>5
  <2>2. PICK n, r : n = 8 /\ r = <<m>> OBVIOUS
  <2>3. Leads(who, z, n, 0, code, e, r) /\ Len(code) = 8 BY <1>2, <1>5, <2>1, <2>2, ModuleLeads
  <2>4. Len(r) = Rest(who)
    <3>1. Len(r) = 1 BY <2>2, OneFacts
    <3> QED BY <1>5, <3>1 DEF Rest
  <2>5. code[1].op = "setTop"
    <3>1. PICK p, c3 : p = "require" /\ c3 = EvalLua(p) OBVIOUS
    <3>2. PICK k : k = 3 OBVIOUS
    <3>3. IsSeq(c3) /\ Len(c3) = 3 /\ c3[1].op = "setTop" BY <3>1, Tuple3
          DEF EvalLua, SetTopZero, Op
    <3>4. PICK t, q, d : t = <<PushOp(m), GetField(f), PushOp(m)>>
          /\ q = <<PushOp(v)>>
                         /\ d = <<PCall(Field(m, f), <<m>> \o <<v>>, 0)>>
      OBVIOUS
    <3>5. code = ((c3 \o t) \o q) \o d BY <2>1, <3>1, <3>4, PushesFacts DEF ExecuteModuleFunction
    <3>6. IsSeq(t) /\ IsSeq(q) /\ IsSeq(d) BY <3>4, Tuple3, OneFacts
    <3>7. IsSeq(c3 \o t) /\ Len(c3 \o t) = Len(c3) + Len(t) /\ (c3 \o t)[1] = c3[1]
          /\ Len(t) \in Nat
      <4>1. 1 \in 1 .. Len(c3) /\ Len(t) \in Nat BY <3>3, <3>6, SeqFacts
      <4>2. IsSeq(c3) /\ IsSeq(t) BY <3>3, <3>6
      <4>3. /\ IsSeq(c3 \o t) /\ Len(c3 \o t) = Len(c3) + Len(t)
            /\ \A i \in 1 .. Len(c3) : (c3 \o t)[i] = c3[i]
        BY ONLY <4>2, ConcatFacts
      <4> QED BY <4>1, <4>3
    <3>8. PICK x : x = c3 \o t OBVIOUS
    <3>9. IsSeq(x) /\ Len(x) >= 3 /\ x[1] = c3[1] BY <3>3, <3>7, <3>8
    <3>10. IsSeq(x \o q) /\ Len(x \o q) = Len(x) + Len(q) /\ (x \o q)[1] = x[1] /\ Len(q) \in Nat
      <4>1. 1 \in 1 .. Len(x) /\ Len(q) \in Nat BY <3>6, <3>9, SeqFacts
      <4> QED BY <3>6, <3>9, <4>1, ConcatFacts
    <3>11. PICK y : y = x \o q OBVIOUS
    <3>12. IsSeq(y) /\ Len(y) >= 3 /\ y[1] = c3[1]
      <4>1. Len(x) \in Nat BY <3>9, SeqFacts
      <4> QED BY <3>9, <3>10, <3>11, <4>1
    <3>13. (y \o d)[1] = y[1]
      <4>1. 1 \in 1 .. Len(y) BY <3>12, SeqFacts
      <4> QED BY <3>6, <3>12, <4>1, ConcatFacts
    <3>14. code = y \o d BY <3>5, <3>8, <3>11
    <3> QED BY <3>3, <3>12, <3>13, <3>14
  <2>6. n = Len(code) /\ n > 0 BY <2>2, <2>3
  <2> QED BY ONLY <1>3, <2>3, <2>4, <2>5, <2>6
<1>6. CASE who = "path" /\ code = AddSearchPath
  <2>1. PICK n : n = 6 OBVIOUS
  <2>2. Leads(who, z, n, 0, AddSearchPath, <<>>, <<>>) /\ Len(AddSearchPath) = 6 BY <1>2, PathLeads
  <2>3. Len(e) = Rest(who) BY <1>2, <1>6 DEF Rest
  <2>4. who \notin Clears BY <1>6 DEF Clears
  <2> QED BY <1>1, <1>3, <1>6, <2>1, <2>2, <2>3, <2>4
<1>7. CASE who = "loader" /\ code = AddLuaLoader
  <2>1. PICK n : n = 5 OBVIOUS
  <2>2. Leads(who, z, n, 0, AddLuaLoader, <<>>, <<>>) /\ Len(AddLuaLoader) = 5 BY <1>2, LoaderLeads
  <2>3. Len(e) = Rest(who) BY <1>2, <1>7 DEF Rest
  <2>4. who \notin Clears BY <1>7 DEF Clears
  <2> QED BY <1>1, <1>3, <1>7, <2>1, <2>2, <2>3, <2>4
<1>9. CASE who = "trace" /\ code = PrintStackTrace
  <2>1. PICK n : n = 4 OBVIOUS
  <2>2. Leads(who, z, n, 0, PrintStackTrace, <<>>, <<>>) /\ Len(PrintStackTrace) = 4
    BY <1>2, <1>9, <2>1, TraceLeads
  <2>3. Len(e) = Rest(who) BY <1>2, <1>9 DEF Rest
  <2>4. who \notin Clears BY <1>9 DEF Clears
  <2> QED BY <1>1, <1>3, <1>9, <2>1, <2>2, <2>3, <2>4
<1>8. CASE who = "register" /\ \E name : code = Register(name)
  <2>1. PICK name : code = Register(name) BY <1>8
  <2>2. PICK n : n = 2 OBVIOUS
  <2>3. Leads(who, z, n, 0, Register(name), <<>>, <<>>) /\ Len(Register(name)) = 2
    BY <1>2, RegisterLeads
  <2>4. Len(e) = Rest(who) BY <1>2, <1>8 DEF Rest
  <2>5. who \notin Clears BY <1>8 DEF Clears
  <2> QED BY <1>1, <1>3, <2>1, <2>2, <2>3, <2>4, <2>5
<1> QED BY <1>4, <1>5, <1>6, <1>7, <1>8, <1>9

\* LuaEngine.executeScriptFile
LEMMA FileCoding ==
  ASSUME NEW nres \in {0, 1}, NEW code, code = ExecuteScriptFile(nres)
  PROVE  Coding("file", nres, code)
<1>1. PICK e, n, who : e = <<>> /\ n = 2 /\ who = "file" OBVIOUS
<1>2. IsSeq(e) /\ Len(e) = 0 /\ Len(e) = Rest(who) BY <1>1, NilFacts DEF Rest
<1>3. Leads(who, nres, n, 0, ExecuteScriptFile(nres), e, <<>>) /\ Len(ExecuteScriptFile(nres)) = 2
  BY <1>1, <1>2, FileLeads
<1>4. Leads(who, nres, n, 0, code, e, e) /\ n = Len(code) /\ n > 0 BY <1>1, <1>3
<1>5. code[1].op = "setTop" BY DEF ExecuteScriptFile, SetTopZero, Op
<1>6. who \in {"call", "file"} BY <1>1
<1>7. Coding(who, nres, code) BY ONLY <1>2, <1>4, <1>5, <1>6, nres \in {0, 1}, LeadsCoding
<1> QED BY <1>1, <1>7

\* A call from Java that has not done anything.
Fresh(a, h) ==
  /\ a.k = "java" /\ a.did = a.meant /\ ~a.failed /\ ~a.spilt /\ a.top = h
  /\ Coding(a.who, a.nres, a.code)

LEMMA JavaFresh ==
  ASSUME NEW who, NEW sync, NEW code, NEW nres, Coding(who, nres, code),
         NEW a, a = Java(who, sync, code, nres), NEW h, h = Len(Here)
  PROVE  Fresh(a, h) /\ a.sync = sync /\ a.nres = nres /\ a.who = who
<1>1. a = [k |-> "java", who |-> who, sync |-> sync, code |-> code, nres |-> nres,
           top |-> h, did |-> <<>>, meant |-> <<>>, spilt |-> FALSE,
           failed |-> FALSE, ret |-> Nil]
  BY DEF Java
<1> QED BY <1>1 DEF Fresh

LEMMA EngineFresh ==
  ASSUME NEW a, a \in EngineCalls
  PROVE  Fresh(a, Len(Here)) /\ a.sync = FALSE /\ (a.nres = 0 \/ a.who = "file")
<1>0. PICK h, sync : h = Len(Here) /\ sync = FALSE OBVIOUS
<1>1. CASE \E fn, v : a = Java("global", FALSE, ExecuteGlobalFunction(fn, <<v>>), 0)
  <2>1. PICK fn, v : a = Java("global", FALSE, ExecuteGlobalFunction(fn, <<v>>), 0)
    BY <1>1
  <2>2. PICK who, nres, code : who = "global" /\ nres = 0 /\ code = ExecuteGlobalFunction(fn, <<v>>)
    OBVIOUS
  <2>3. Coding(who, nres, code) BY <2>2, GlobalCoding
  <2>4. a = Java(who, sync, code, nres) /\ h = Len(Here) BY <1>0, <2>1, <2>2
  <2>5. Fresh(a, h) /\ a.sync = sync /\ a.nres = nres
    BY ONLY <2>3, <2>4, JavaFresh
  <2> QED BY <1>0, <2>2, <2>5
<1>2. CASE a = Java("eval", FALSE, EvalLua("chunk"), 0)
  <2>1. PICK who, nres, code : who = "eval" /\ nres = 0 /\ code = EvalLua("chunk") OBVIOUS
  <2>2. Coding(who, nres, code) BY <2>1, EngineCoding
  <2>3. a = Java(who, sync, code, nres) /\ h = Len(Here) BY <1>0, <1>2, <2>1
  <2>4. Fresh(a, h) /\ a.sync = sync /\ a.nres = nres
    BY ONLY <2>2, <2>3, JavaFresh
  <2> QED BY <1>0, <2>1, <2>4
<1>3. CASE a = Java("path", FALSE, AddSearchPath, 0)
  <2>1. PICK who, nres, code : who = "path" /\ nres = 0 /\ code = AddSearchPath OBVIOUS
  <2>2. Coding(who, nres, code) BY <2>1, EngineCoding
  <2>3. a = Java(who, sync, code, nres) /\ h = Len(Here) BY <1>0, <1>3, <2>1
  <2>4. Fresh(a, h) /\ a.sync = sync /\ a.nres = nres
    BY ONLY <2>2, <2>3, JavaFresh
  <2> QED BY <1>0, <2>1, <2>4
<1>4. CASE a = Java("loader", FALSE, AddLuaLoader, 0)
  <2>1. PICK who, nres, code : who = "loader" /\ nres = 0 /\ code = AddLuaLoader OBVIOUS
  <2>2. Coding(who, nres, code) BY <2>1, EngineCoding
  <2>3. a = Java(who, sync, code, nres) /\ h = Len(Here) BY <1>0, <1>4, <2>1
  <2>4. Fresh(a, h) /\ a.sync = sync /\ a.nres = nres
    BY ONLY <2>2, <2>3, JavaFresh
  <2> QED BY <1>0, <2>1, <2>4
<1>5. CASE \E m, f, v : a = Java("module", FALSE, ExecuteModuleFunction(m, f, <<v>>), 0)
  <2>1. PICK m, f, v : a = Java("module", FALSE, ExecuteModuleFunction(m, f, <<v>>), 0)
    BY <1>5
  <2>2. PICK who, nres, code : who = "module" /\ nres = 0
                               /\ code = ExecuteModuleFunction(m, f, <<v>>)
    OBVIOUS
  <2>3. Coding(who, nres, code) BY <2>2, EngineCoding
  <2>4. a = Java(who, sync, code, nres) /\ h = Len(Here) BY <1>0, <2>1, <2>2
  <2>5. Fresh(a, h) /\ a.sync = sync /\ a.nres = nres
    BY ONLY <2>3, <2>4, JavaFresh
  <2> QED BY <1>0, <2>2, <2>5
<1>6. CASE a = Java("trace", FALSE, PrintStackTrace, 0)
  <2>1. PICK who, nres, code : who = "trace" /\ nres = 0 /\ code = PrintStackTrace OBVIOUS
  <2>2. Coding(who, nres, code) BY <2>1, EngineCoding
  <2>3. a = Java(who, sync, code, nres) /\ h = Len(Here) BY <1>0, <1>6, <2>1
  <2>4. Fresh(a, h) /\ a.sync = sync /\ a.nres = nres
    BY ONLY <2>2, <2>3, JavaFresh
  <2> QED BY <1>0, <2>1, <2>4
<1>7. CASE \E nres \in {0, 1} : a = Java("file", FALSE, ExecuteScriptFile(nres), nres)
  <2>1. PICK nres \in {0, 1} : a = Java("file", FALSE, ExecuteScriptFile(nres), nres) BY <1>7
  <2>2. PICK who, code : who = "file" /\ code = ExecuteScriptFile(nres) OBVIOUS
  <2>3. Coding(who, nres, code) BY <2>2, FileCoding
  <2>4. a = Java(who, sync, code, nres) /\ h = Len(Here) BY <1>0, <2>1, <2>2
  <2>5. Fresh(a, h) /\ a.sync = sync /\ a.who = who
    BY ONLY <2>3, <2>4, JavaFresh
  <2> QED BY <1>0, <2>2, <2>5
<1> QED BY <1>1, <1>2, <1>3, <1>4, <1>5, <1>6, <1>7, EngineCallIs

LEMMA SyncFresh ==
  ASSUME NEW a, a \in CallOf(0) \cup CallOf(1) \cup Invoke
                        \cup {Java("register", TRUE, Register("print"), 0)}
  PROVE  Fresh(a, Len(Here)) /\ a.sync = TRUE /\ a.who \in {"call", "register"}
<1>0. PICK h, sync : h = Len(Here) /\ sync = TRUE OBVIOUS
<1>1. CASE \E n \in {0, 1} : a \in CallOf(n)
  <2>1. PICK nres \in {0, 1} : a \in CallOf(nres) BY <1>1
  <2>2. PICK v \in Argument :
            a = Java("call", TRUE, LuaObjectCall(Function("callback"), <<v>>, nres), nres)
    BY <2>1 DEF CallOf
  <2>3. PICK who, fn, code : who = "call" /\ fn = Function("callback")
                             /\ code = LuaObjectCall(fn, <<v>>, nres)
    OBVIOUS
  <2>4. Coding(who, nres, code) BY <2>3, CallCoding
  <2>5. a = Java(who, sync, code, nres) /\ h = Len(Here) BY <1>0, <2>2, <2>3
  <2>6. Fresh(a, h) /\ a.sync = sync /\ a.who = who
    BY ONLY <2>4, <2>5, JavaFresh
  <2> QED BY <1>0, <2>3, <2>6
<1>2. CASE a \in Invoke
  <2>0. PICK parent, name, fn, who :
            /\ parent = Table("proxied") /\ name = "callback" /\ fn = Function("callback")
            /\ who = "call"
    OBVIOUS
  <2>1. CASE \E v : \E nres \in {0, 1} :
                 a = Java(who, TRUE, NewLuaObject(parent, name) \o Check(fn)
                            \o LuaObjectCall(fn, <<v>>, nres), nres)
    <3>1. PICK v : \E nres \in {0, 1} :
              a = Java(who, TRUE, NewLuaObject(parent, name) \o Check(fn)
                         \o LuaObjectCall(fn, <<v>>, nres), nres)
      BY <2>1
    <3>0. PICK nres \in {0, 1} :
              a = Java(who, TRUE, NewLuaObject(parent, name) \o Check(fn)
                         \o LuaObjectCall(fn, <<v>>, nres), nres)
      BY <3>1
    <3>2. PICK code : code = NewLuaObject(parent, name) \o Check(fn) \o LuaObjectCall(fn, <<v>>, nres)
      OBVIOUS
    <3>3. Coding(who, nres, code)
      <4>1. Coding("call", nres, code) BY ONLY <3>2, nres \in {0, 1}, InvokeCoding
      <4> QED BY <2>0, <4>1
    <3>4. a = Java(who, sync, code, nres) /\ h = Len(Here) BY <1>0, <3>0, <3>2
    <3>5. Fresh(a, h) /\ a.sync = sync /\ a.who = who
      BY ONLY <3>3, <3>4, JavaFresh
    <3> QED BY <1>0, <2>0, <3>5
  <2>2. CASE \E p : a = Java(who, TRUE, NewLuaObject(p, name) \o Check(Nil), 0)
    <3>1. PICK p : a = Java(who, TRUE, NewLuaObject(p, name) \o Check(Nil), 0) BY <2>2
    <3>2. PICK code, nres, v : /\ v = Nil /\ code = NewLuaObject(p, name) \o Check(v) /\ nres = 0
      OBVIOUS
    <3>3. Coding(who, nres, code)
      <4>1. Coding("call", 0, code) BY ONLY <3>2, NoInvokeCoding
      <4> QED BY <2>0, <3>2, <4>1
    <3>4. a = Java(who, sync, code, nres) /\ h = Len(Here) BY <1>0, <3>1, <3>2
    <3>5. Fresh(a, h) /\ a.sync = sync /\ a.who = who
      BY ONLY <3>3, <3>4, JavaFresh
    <3> QED BY <1>0, <2>0, <3>5
  <2> QED BY <1>2, <2>0, <2>1, <2>2, InvokeIs
<1>3. CASE a = Java("register", TRUE, Register("print"), 0)
  <2>1. PICK who, nres, code : who = "register" /\ nres = 0 /\ code = Register("print") OBVIOUS
  <2>2. Coding(who, nres, code) BY <2>1, EngineCoding
  <2>3. a = Java(who, sync, code, nres) /\ h = Len(Here) BY <1>0, <1>3, <2>1
  <2>4. Fresh(a, h) /\ a.sync = sync /\ a.who = who
    BY ONLY <2>2, <2>3, JavaFresh
  <2> QED BY <1>0, <2>1, <2>4
<1> QED BY <1>1, <1>2, <1>3

\* It sits on all that is on its frame.
LEMMA FreshSits ==
  ASSUME NEW f, IsSeq(f), NEW a, Fresh(a, Len(f))
  PROVE  Sits(a, f, Len(f))
<1>1. PICK g, h : g = <<>> /\ h = Len(f) OBVIOUS
<1>2. IsSeq(g) /\ Len(g) = 0 /\ h \in Nat BY <1>1, NilFacts, SeqFacts
<1>3. Ready(a, g) BY <1>1 DEF Fresh, Coding, Ready
<1>4. Len(a.code) > 0 /\ a.top = h /\ ~a.failed /\ a.did = a.meant BY <1>1 DEF Fresh, Coding
<1>5. Base(a) = h BY <1>4 DEF Fresh, Coding, Base, Begun
<1>6. On(f, h, g) BY <1>1, <1>2 DEF On
<1>7. Extra(a) = 0 BY <1>4 DEF Extra
<1>8. h = h + Len(g) + 0 BY <1>2
<1> QED BY <1>1, <1>2, <1>3, <1>4, <1>5, <1>6, <1>7, <1>8 DEF Sits
-----------------------------------------------------------------------------
(* What lies on the stack of the main thread. *)

\* LuaEngine takes the monitor for each native, not for a call: only one
\* thread may be in it, which is the one of the activity.
OneEngine == \A s, t \in Engine : s = t
-----------------------------------------------------------------------------
(* The frames of a thread that is in Lua: every coroutine and every method *)
(* called from the main thread has one above those of its callers.         *)

Rise(a) == IF a.k = "resume" \/ (a.k = "method" /\ a.l = "main") THEN 1 ELSE 0

\* lv[i]: the frame that activation i works on.
Levels(c, lv) ==
  /\ lv[0] = 1
  /\ \A i \in 0 .. Len(c) : lv[i] \in Nat /\ lv[i] >= 1
  /\ \A i \in 1 .. Len(c) : lv[i] = lv[i - 1] + Rise(c[i])
  /\ \A i, j \in 0 .. Len(c) : i <= j => lv[i] <= lv[j]

Framed(m) == IsSeq(m) /\ \A i \in 1 .. Len(m) : IsSeq(m[i])

\* Java code that a thread started without the monitor, and that found an
\* error value left by another under its own values, is not followed.
Tracked(a, i) == i > 1 \/ a.sync \/ ~a.spilt

Sound(a) == /\ a.top \in Nat /\ a.nres \in {0, 1} /\ Coded(a.code)
            /\ a.nres = 1 => a.sync \/ a.who = "file"
            /\ a.sync => a.who \in {"call", "register"}

\* Activation i on the frames m.  w: what the top one does, if it is Java code.
Part(c, m, lv, i, w) ==
  /\ c[i].k = "pcall" =>
       c[i].frames = lv[i] /\ (Tracked(c[i - 1], i - 1) => c[i].nres = c[i - 1].nres)
  /\ c[i].k = "java" =>
       /\ Sound(c[i])
       /\ Tracked(c[i], i) =>
            IF i = Len(c) /\ w = "sits" THEN Sits(c[i], m[lv[i]], Len(m[lv[i]]))
            ELSE Waits(c[i], m[lv[i]])

\* The activations c stand on the frames m, and those with the monitor have
\* left what lies under them of the first frame as it was in f.
Stands(c, m, f, w) ==
  /\ Framed(m)
  /\ \E lv : /\ Levels(c, lv) /\ Len(m) = lv[Len(c)]
             /\ \A i \in 1 .. Len(c) : Part(c, m, lv, i, w)
  /\ Len(c) > 0 /\ c[1].sync => Same(f, m[1], c[1].top)

LEMMA LevelsAppend ==
  ASSUME NEW c, IsSeq(c), NEW lv, Levels(c, lv), NEW b
  PROVE  \E lw : /\ Levels(Append(c, b), lw) /\ \A i \in 0 .. Len(c) : lw[i] = lv[i]
                 /\ lw[Len(c) + 1] = lv[Len(c)] + Rise(b)
<1>1. PICK d, n, x : d = Append(c, b) /\ n = Len(c) /\ x = lv[n] + Rise(b) OBVIOUS
<1>2. n \in Nat /\ Len(d) = n + 1 /\ (\A i \in 1 .. n : d[i] = c[i]) /\ d[n + 1] = b
  BY <1>1, SeqFacts, AppendFacts
<1>3. n \in 0 .. n /\ lv[n] \in Nat /\ lv[n] >= 1 BY <1>1, <1>2 DEF Levels
<1>4. x \in Nat /\ x >= 1 /\ lv[n] <= x
  <2>1. Rise(b) \in Nat BY DEF Rise
  <2> QED BY <1>1, <1>3, <2>1
<1>5. PICK lw : lw = [i \in 0 .. n + 1 |-> IF i = n + 1 THEN x ELSE lv[i]] OBVIOUS
<1>6. lw[n + 1] = x /\ \A i \in 0 .. n : lw[i] = lv[i] BY <1>2, <1>5
<1>7. \A i \in 0 .. n + 1 : i = n + 1 \/ i \in 0 .. n BY <1>2
<1>8. lw[0] = 1 BY <1>2, <1>6 DEF Levels
<1>9. \A i \in 0 .. n + 1 : lw[i] \in Nat /\ lw[i] >= 1
  BY <1>1, <1>4, <1>6, <1>7 DEF Levels
<1>10. ASSUME NEW i \in 1 .. n + 1 PROVE lw[i] = lw[i - 1] + Rise(d[i])
  <2>1. CASE i = n + 1
    <3>1. i - 1 = n BY <1>2, <2>1
    <3> QED BY <1>1, <1>2, <1>3, <1>6, <2>1, <3>1
  <2>2. CASE i # n + 1
    <3>1. i \in 1 .. n /\ i \in 0 .. n /\ i - 1 \in 0 .. n BY <1>2, <2>2
    <3> QED BY <1>1, <1>2, <1>6, <3>1 DEF Levels
  <2> QED BY <2>1, <2>2
<1>11. ASSUME NEW i \in 0 .. n + 1, NEW j \in 0 .. n + 1, i <= j PROVE lw[i] <= lw[j]
  <2>1. CASE j = n + 1
    <3>1. CASE i = n + 1 BY <1>9, <2>1, <3>1
    <3>2. CASE i # n + 1
      <4>1. i \in 0 .. n /\ i <= n BY <1>2, <3>2
      <4>2. lv[i] <= lv[n] /\ lv[i] \in Nat BY <1>1, <1>3, <4>1 DEF Levels
      <4> QED BY <1>3, <1>4, <1>6, <2>1, <4>1, <4>2
    <3> QED BY <3>1, <3>2
  <2>2. CASE j # n + 1
    <3>1. i \in 0 .. n /\ j \in 0 .. n BY <1>2, <1>11, <2>2
    <3> QED BY <1>1, <1>6, <1>11, <3>1 DEF Levels
  <2> QED BY <2>1, <2>2
<1>12. Levels(d, lw) BY <1>2, <1>8, <1>9, <1>10, <1>11 DEF Levels
<1> QED BY <1>1, <1>6, <1>12

LEMMA LevelsLike ==
  ASSUME NEW c, IsSeq(c), NEW lv, Levels(c, lv), NEW d, IsSeq(d), Len(d) <= Len(c),
         \A i \in 1 .. Len(d) : Rise(d[i]) = Rise(c[i])
  PROVE  Levels(d, lv)
<1>1. Len(c) \in Nat /\ Len(d) \in Nat BY SeqFacts
<1>2. /\ \A i \in 0 .. Len(d) : i \in 0 .. Len(c)
      /\ \A i \in 1 .. Len(d) : i \in 1 .. Len(c)
  BY <1>1
<1> QED BY <1>2 DEF Levels

\* Activations that have the top frame to themselves
Apart(a) == a.k \in {"java", "method"} \/ (a.k = "script" /\ a.l = "co")

LEMMA Lower ==
  ASSUME NEW c, Control(c), NEW lv, Levels(c, lv), NEW i \in 1 .. Len(c), NEW j \in 1 .. Len(c),
         i < j, c[i].k = "java", Apart(c[j])
  PROVE  lv[i] < lv[j]
<1>1. Len(c) \in Nat BY SeqFacts DEF Control
<1>2. \A x \in 2 .. Len(c) : /\ x \in 1 .. Len(c) /\ x - 1 \in 1 .. Len(c) /\ x \in 0 .. Len(c)
                             /\ x - 1 \in 0 .. Len(c) /\ x - 1 <= x
  BY <1>1
<1>3. \A x \in 2 .. Len(c) : /\ lv[x] \in Nat /\ lv[x - 1] \in Nat /\ lv[x - 1] <= lv[x]
                             /\ lv[x] = lv[x - 1] + Rise(c[x]) /\ Fits(c[x - 1], c[x])
  BY <1>2 DEF Levels, Control
<1>4. ASSUME NEW x \in 2 .. Len(c), i < x, Rise(c[x]) = 1 PROVE lv[i] < lv[x]
  <2>1. i \in 0 .. Len(c) /\ i <= x - 1 BY <1>1, <1>4
  <2>2. lv[i] <= lv[x - 1] /\ lv[i] \in Nat BY <1>2, <2>1 DEF Levels
  <2> QED BY <1>3, <1>4, <2>2
<1>5. ASSUME NEW x \in 2 .. Len(c), i < x, lv[i] < lv[x - 1] PROVE lv[i] < lv[x]
  <2>1. i \in 0 .. Len(c) /\ lv[i] \in Nat BY <1>1 DEF Levels
  <2> QED BY <1>3, <1>5, <2>1
<1>6. c[1].k = "java" BY <1>1 DEF Control
<1>7. ASSUME NEW x \in 2 .. Len(c), i < x, c[x].k = "script", c[x].l # "main" PROVE lv[i] < lv[x]
  <2>1. c[x - 1].k = "resume" BY <1>3, <1>7 DEF Fits
  <2>2. x - 1 # i /\ x - 1 # 1 BY <1>6, <2>1
  <2>3. x - 1 \in 2 .. Len(c) /\ i < x - 1 BY <1>1, <1>7, <2>2
  <2>4. Rise(c[x - 1]) = 1 BY <2>1 DEF Rise
  <2> QED BY <1>4, <1>5, <1>7, <2>3, <2>4
<1>8. ASSUME NEW x \in 2 .. Len(c), i < x, c[x].k = "method" PROVE lv[i] < lv[x]
  <2>1. CASE c[x].l = "main"
    <3>1. Rise(c[x]) = 1 BY <1>8, <2>1 DEF Rise
    <3> QED BY <1>4, <1>8, <3>1
  <2>2. CASE c[x].l # "main"
    <3>1. c[x - 1].k = "script" /\ c[x - 1].l # "main" BY <1>3, <1>8, <2>2 DEF Fits
    <3>2. x - 1 # i /\ x - 1 # 1 BY <1>6, <3>1
    <3>3. x - 1 \in 2 .. Len(c) /\ i < x - 1 BY <1>1, <1>8, <3>2
    <3> QED BY <1>5, <1>7, <1>8, <3>1, <3>3
  <2> QED BY <2>1, <2>2
<1>9. j \in 2 .. Len(c) BY <1>1
<1>10. CASE c[j].k = "java"
  <2>1. c[j - 1].k = "method" BY <1>3, <1>9, <1>10 DEF Fits
  <2>2. j - 1 # i /\ j - 1 # 1 BY <1>6, <2>1
  <2>3. j - 1 \in 2 .. Len(c) /\ i < j - 1 BY <1>1, <1>9, <2>2
  <2> QED BY <1>5, <1>8, <1>9, <2>1, <2>3
<1> QED BY <1>7, <1>8, <1>9, <1>10 DEF Apart

\* b takes the place of a, for what other activations see of it.
Stays(a, b) == /\ b.k = a.k
               /\ a.k \in {"script", "method"} => b.l = a.l
               /\ a.k = "java" => b.sync = a.sync /\ b.top = a.top

\* What Java code b, the i-th activation, has on its frame r
Settled(b, i, r, w) ==
  b.k = "java" => /\ Sound(b)
                  /\ Tracked(b, i) => IF w = "sits" THEN Sits(b, r, Len(r)) ELSE Waits(b, r)

\* The top activation and its frame change.
LEMMA RetopStands ==
  ASSUME NEW c, Control(c), Len(c) > 0, NEW m, NEW f, NEW v, Stands(c, m, f, v),
         NEW a, a = c[Len(c)], Apart(a), NEW b, Stays(a, b),
         NEW r, IsSeq(r), NEW w, Settled(b, Len(c), r, w),
         Len(c) = 1 /\ a.sync => Same(Last(m), r, a.top)
  PROVE  Stands(Append(Front(c), b), Append(Front(m), r), f, w)
<1>1. PICK lv : /\ Levels(c, lv) /\ Len(m) = lv[Len(c)]
                /\ \A i \in 1 .. Len(c) : Part(c, m, lv, i, v)
  BY DEF Stands
<1>2. PICK d, q, n : d = Append(Front(c), b) /\ q = Append(Front(m), r) /\ n = Len(c) OBVIOUS
<1>3. IsSeq(c) /\ n \in Nat /\ n > 0 /\ n \in 1 .. n /\ n \in 0 .. n BY <1>2, SeqFacts DEF Control
<1>4. IsSeq(d) /\ Len(d) = n /\ (\A i \in 1 .. n - 1 : d[i] = c[i]) /\ d[n] = b
  BY <1>2, <1>3, RetopFacts
<1>5. IsSeq(m) /\ Len(m) \in Nat /\ Len(m) > 0 /\ \A i \in 1 .. Len(m) : IsSeq(m[i])
  <2>1. Framed(m) BY DEF Stands
  <2>2. lv[n] >= 1 /\ lv[n] \in Nat BY <1>1, <1>2, <1>3 DEF Levels
  <2> QED BY <1>1, <1>2, <2>1, <2>2 DEF Framed
<1>6. IsSeq(q) /\ Len(q) = Len(m) /\ (\A i \in 1 .. Len(m) - 1 : q[i] = m[i]) /\ q[Len(m)] = r
  BY <1>2, <1>5, RetopFacts
<1>7. Framed(q)
  <2>1. \A i \in 1 .. Len(m) : i = Len(m) \/ i \in 1 .. Len(m) - 1 BY <1>5
  <2> QED BY <1>5, <1>6, <2>1 DEF Framed
<1>8. Levels(d, lv)
  <2>1. \A i \in 1 .. n : i = n \/ i \in 1 .. n - 1 BY <1>3
  <2>2. Rise(b) = Rise(a) BY DEF Rise, Stays, Apart
  <2>3. \A i \in 1 .. n : Rise(d[i]) = Rise(c[i]) BY <1>2, <1>4, <2>1, <2>2
  <2>4. /\ IsSeq(c) /\ IsSeq(d) /\ Len(d) <= Len(c)
        /\ \A i \in 1 .. Len(d) : Rise(d[i]) = Rise(c[i])
    BY <1>2, <1>3, <1>4, <2>3
  <2> QED BY ONLY <1>1, <2>4, LevelsLike
<1>9. ASSUME NEW i \in 1 .. n - 1 PROVE Part(d, q, lv, i, w)
  <2>1. i \in 1 .. n /\ i # n /\ i < n BY <1>3
  <2>2. d[i] = c[i] /\ Part(c, m, lv, i, v) BY <1>1, <1>2, <1>4, <2>1
  <2>3. c[i].k = "pcall" => d[i - 1] = c[i - 1]
    <3>1. ASSUME c[i].k = "pcall" PROVE i - 1 \in 1 .. n - 1
      <4>1. i # 1 BY <1>2, <1>3, <3>1 DEF Control
      <4> QED BY <1>3, <4>1
    <3> QED BY <1>4, <3>1
  <2>4. c[i].k = "java" => q[lv[i]] = m[lv[i]]
    <3>1. ASSUME c[i].k = "java" PROVE q[lv[i]] = m[lv[i]]
      <4>1. lv[i] < lv[n] BY <1>1, <1>2, <1>3, <2>1, <3>1, Lower
      <4>2. lv[i] \in Nat /\ lv[i] >= 1
        <5>1. i \in 0 .. Len(c) BY <1>2, <1>3
        <5> QED BY <1>1, <5>1 DEF Levels
      <4>3. lv[i] \in 1 .. Len(m) - 1 BY <1>1, <1>2, <1>5, <4>1, <4>2
      <4> QED BY <1>6, <4>3
    <3> QED BY <3>1
  <2> QED BY <1>2, <1>4, <2>1, <2>2, <2>3, <2>4 DEF Part
<1>10. Part(d, q, lv, n, w)
  <2>1. b.k # "pcall" BY DEF Stays, Apart
  <2>2. q[lv[n]] = r BY <1>1, <1>2, <1>6
  <2> QED BY <1>2, <1>4, <2>1, <2>2 DEF Part, Settled
<1>11. \A i \in 1 .. n : Part(d, q, lv, i, w)
  <2>1. \A i \in 1 .. n : i = n \/ i \in 1 .. n - 1 BY <1>3
  <2> QED BY <1>9, <1>10, <2>1
<1>12. d[1].sync => Same(f, q[1], d[1].top)
  <2>1. c[1].k = "java" BY <1>2, <1>3 DEF Control
  <2>2. c[1].sync => Same(f, m[1], c[1].top) BY <1>2, <1>3 DEF Stands
  <2>3. lv[1] = 1
    <3>1. 1 \in 1 .. Len(c) /\ 1 - 1 = 0 BY <1>2, <1>3
    <3>2. Rise(c[1]) = 0 BY <2>1 DEF Rise
    <3> QED BY <1>1, <3>1, <3>2 DEF Levels
  <2>4. CASE n = 1
    <3>1. a.k = "java" /\ c[1] = a /\ d[1] = b BY <1>2, <1>4, <2>1, <2>4
    <3>2. b.sync = a.sync /\ b.top = a.top /\ a.top \in Nat
      BY <3>1 DEF Stays, Settled, Sound
    <3>3. Len(m) = 1 /\ Last(m) = m[1] /\ q[1] = r BY <1>1, <1>2, <1>6, <2>3, <2>4 DEF Last
    <3>4. ASSUME a.sync PROVE Same(f, r, a.top)
      <4>1. PICK p, x : p = m[1] /\ x = a.top OBVIOUS
      <4>2. Same(f, p, x) /\ Same(p, r, x) /\ x \in Nat
        BY <1>2, <2>2, <2>4, <3>1, <3>2, <3>3, <3>4, <4>1
      <4>3. Same(f, r, x) BY <4>2, SameTrans
      <4> QED BY <4>1, <4>3
    <3> QED BY <3>1, <3>2, <3>3, <3>4
  <2>5. CASE n # 1
    <3>1. 1 \in 1 .. n - 1 /\ 1 \in 1 .. n /\ 1 < n BY <1>3, <2>5
    <3>2. lv[1] < lv[n] BY <1>1, <1>2, <1>3, <2>1, <3>1, Lower
    <3>3. 1 \in 1 .. Len(m) - 1 BY <1>1, <1>2, <1>5, <2>3, <3>2
    <3> QED BY <1>4, <1>6, <2>2, <3>1, <3>3
  <2> QED BY <2>4, <2>5
<1>13. Stands(d, q, f, w) BY <1>1, <1>2, <1>4, <1>6, <1>7, <1>8, <1>11, <1>12 DEF Stands
<1> QED BY <1>2, <1>13

\* Activation b is called, on the same frame or on a new one.
LEMMA PushStands ==
  ASSUME NEW c, Control(c), NEW m, NEW f, NEW v, Stands(c, m, f, v),
         Len(c) > 0 => c[Len(c)].k # "java" \/ v = "waits",
         NEW b, NEW q, Framed(q), Len(q) = Len(m) + Rise(b), \A i \in 1 .. Len(m) : q[i] = m[i],
         NEW w, Settled(b, Len(c) + 1, q[Len(m)], w),
         b.k = "pcall" => /\ Len(c) > 0 /\ b.frames = Len(m)
                          /\ Tracked(c[Len(c)], Len(c)) => b.nres = c[Len(c)].nres,
         Len(c) = 0 => b.k = "java" /\ (b.sync => Same(f, q[1], b.top))
  PROVE  Stands(Append(c, b), q, f, w)
<1>1. PICK lv : /\ Levels(c, lv) /\ Len(m) = lv[Len(c)]
                /\ \A i \in 1 .. Len(c) : Part(c, m, lv, i, v)
  BY DEF Stands
<1>2. PICK d, n : d = Append(c, b) /\ n = Len(c) OBVIOUS
<1>3. IsSeq(c) /\ n \in Nat BY <1>2, SeqFacts DEF Control
<1>4. IsSeq(d) /\ Len(d) = n + 1 /\ (\A i \in 1 .. n : d[i] = c[i]) /\ d[n + 1] = b
  BY <1>2, <1>3, AppendFacts
<1>5. PICK lw : /\ Levels(d, lw) /\ \A i \in 0 .. n : lw[i] = lv[i]
                /\ lw[n + 1] = lv[n] + Rise(b)
  BY <1>1, <1>2, <1>3, LevelsAppend
<1>6. IsSeq(m) /\ Len(m) \in Nat /\ Len(m) >= 1
  <2>1. Framed(m) BY DEF Stands
  <2>2. n \in 0 .. n BY <1>3
  <2>3. lv[n] >= 1 /\ lv[n] \in Nat BY <1>1, <1>2, <2>2 DEF Levels
  <2> QED BY <1>1, <1>2, <2>1, <2>3 DEF Framed
<1>7. ASSUME NEW i \in 1 .. n PROVE Part(d, q, lw, i, w)
  <2>1. i # n + 1 /\ i \in 0 .. n /\ Part(c, m, lv, i, v) BY <1>1, <1>2, <1>3
  <2>2. d[i] = c[i] /\ lw[i] = lv[i] BY <1>4, <1>5, <2>1
  <2>3. c[i].k = "pcall" => d[i - 1] = c[i - 1]
    <3>1. ASSUME c[i].k = "pcall" PROVE i - 1 \in 1 .. n
      <4>1. i # 1 BY <1>2, <1>3, <3>1 DEF Control
      <4> QED BY <1>3, <4>1
    <3> QED BY <1>4, <3>1
  <2>4. q[lv[i]] = m[lv[i]]
    <3>1. n \in 0 .. n /\ i <= n BY <1>3
    <3>2. lv[i] \in Nat /\ lv[i] >= 1 /\ lv[i] <= lv[n] BY <1>1, <1>2, <2>1, <3>1 DEF Levels
    <3>3. lv[i] \in 1 .. Len(m) BY <1>1, <1>2, <1>6, <3>2
    <3> QED BY <3>3
  <2>5. c[i].k = "java" => ~(i = n /\ v = "sits")
    BY <1>2, <1>3
  <2> QED BY <1>2, <1>4, <2>1, <2>2, <2>3, <2>4, <2>5 DEF Part
<1>8. Part(d, q, lw, n + 1, w)
  <2>1. b.k = "pcall" => /\ b.frames = lw[n + 1] /\ Rise(b) = 0 /\ n > 0
                         /\ Tracked(c[n], n) => b.nres = c[n].nres
    <3>1. ASSUME b.k = "pcall" PROVE b.frames = lw[n + 1]
      <4>1. Rise(b) = 0 BY <3>1 DEF Rise
      <4>2. lv[n] + 0 = lv[n] BY <1>1, <1>2, <1>6
      <4> QED BY <1>1, <1>2, <1>5, <3>1, <4>1, <4>2
    <3> QED BY <1>2, <3>1 DEF Rise
  <2>2. n + 1 - 1 = n /\ (n > 0 => n \in 1 .. n) BY <1>3
  <2>3. b.k = "java" => q[lw[n + 1]] = q[Len(m)]
    <3>1. b.k = "java" => Rise(b) = 0 BY DEF Rise
    <3>2. lv[n] + 0 = lv[n] BY <1>1, <1>2, <1>6
    <3> QED BY <1>1, <1>2, <1>5, <3>1, <3>2
  <2>4. n > 0 => d[n] = c[n] BY <1>4, <2>2
  <2>7. b.k = "java" =>
          /\ Sound(b)
          /\ Tracked(b, n + 1) =>
               IF w = "sits" THEN Sits(b, q[lw[n + 1]], Len(q[lw[n + 1]])) ELSE Waits(b, q[lw[n + 1]])
    BY <1>2, <2>3 DEF Settled
  <2>8. PICK j : j = n + 1 /\ j - 1 = n BY <1>3
  <2>9. d[j] = b /\ Len(d) = j BY <1>4, <2>8
  <2>10. b.k = "pcall" => b.frames = lw[j] /\ (Tracked(d[j - 1], j - 1) => b.nres = d[j - 1].nres)
    BY <2>1, <2>4, <2>8
  <2>11. b.k = "java" =>
          /\ Sound(b)
          /\ Tracked(b, j) =>
               IF w = "sits" THEN Sits(b, q[lw[j]], Len(q[lw[j]])) ELSE Waits(b, q[lw[j]])
    BY <2>7, <2>8
  <2>12. Part(d, q, lw, j, w) BY ONLY <2>9, <2>10, <2>11 DEF Part
  <2> QED BY <2>8, <2>12
<1>9. \A i \in 1 .. n + 1 : Part(d, q, lw, i, w)
  <2>1. \A i \in 1 .. n + 1 : i = n + 1 \/ i \in 1 .. n BY <1>3
  <2> QED BY <1>7, <1>8, <2>1
<1>10. d[1].sync => Same(f, q[1], d[1].top)
  <2>1. CASE n = 0 BY <1>2, <1>4, <2>1
  <2>2. CASE n # 0
    <3>1. 1 \in 1 .. n /\ 1 \in 1 .. Len(m) BY <1>3, <1>6, <2>2
    <3>2. c[1].sync => Same(f, m[1], c[1].top) BY <1>2, <1>3, <2>2 DEF Stands
    <3>3. d[1] = c[1] /\ q[1] = m[1] BY <1>4, <3>1
    <3> QED BY <3>2, <3>3
  <2> QED BY <2>1, <2>2
<1>11. Len(q) = lw[n + 1] BY <1>1, <1>2, <1>5
<1>12. Stands(d, q, f, w) BY <1>4, <1>5, <1>9, <1>10, <1>11 DEF Stands
<1> QED BY <1>2, <1>12

\* The top activation ends: Java code under it is in a pcall.
LEMMA CutStands ==
  ASSUME NEW c, Control(c), Len(c) > 0, NEW m, NEW f, NEW w, Stands(c, m, f, w),
         NEW q, \/ Rise(c[Len(c)]) = 0 /\ q = m
                \/ Rise(c[Len(c)]) = 1 /\ q = Front(m)
  PROVE  Stands(SubSeq(c, 1, Len(c) - 1), q, f, "waits")
<1>1. PICK lv : /\ Levels(c, lv) /\ Len(m) = lv[Len(c)]
                /\ \A i \in 1 .. Len(c) : Part(c, m, lv, i, w)
  BY DEF Stands
<1>2. PICK d, n : d = SubSeq(c, 1, Len(c) - 1) /\ n = Len(c) OBVIOUS
<1>3. IsSeq(c) /\ n \in Nat /\ n > 0 /\ n - 1 \in 0 .. n BY <1>2, SeqFacts DEF Control
<1>4. Control(d) /\ Len(d) = n - 1 /\ \A i \in 1 .. n - 1 : d[i] = c[i] BY <1>2, <1>3, CutControl
<1>5. IsSeq(m) /\ Len(m) \in Nat /\ \A i \in 1 .. Len(m) : IsSeq(m[i])
  <2>1. Framed(m) BY DEF Stands
  <2> QED BY <2>1, SeqFacts DEF Framed
<1>6. Len(m) = lv[n - 1] + Rise(c[n]) /\ lv[n - 1] \in Nat /\ lv[n - 1] >= 1
  <2>1. n \in 1 .. n BY <1>3
  <2> QED BY <1>1, <1>2, <1>3, <2>1 DEF Levels
<1>7. Framed(q) /\ Len(q) = lv[n - 1] /\ \A i \in 1 .. lv[n - 1] : q[i] = m[i]
  <2>1. CASE Rise(c[n]) = 0 /\ q = m
    <3>1. Framed(m) BY DEF Stands
    <3> QED BY <1>6, <2>1, <3>1
  <2>2. CASE Rise(c[n]) = 1 /\ q = Front(m)
    <3>1. Len(m) > 0 /\ Len(m) - 1 = lv[n - 1] BY <1>6, <2>2
    <3>2. IsSeq(q) /\ Len(q) = Len(m) - 1 /\ \A i \in 1 .. Len(m) - 1 : q[i] = m[i]
      BY <1>5, <2>2, <3>1, FrontFacts
    <3>3. \A i \in 1 .. Len(m) - 1 : i \in 1 .. Len(m) BY <1>5
    <3> QED BY <1>5, <3>1, <3>2, <3>3 DEF Framed
  <2> QED BY <1>2, <2>1, <2>2
<1>8. Levels(d, lv)
  <2>1. IsSeq(d) /\ Len(d) <= Len(c) BY <1>2, <1>3, <1>4 DEF Control
  <2>2. \A i \in 1 .. Len(d) : Rise(d[i]) = Rise(c[i]) BY <1>4
  <2> QED BY ONLY <1>1, <1>3, <2>1, <2>2, LevelsLike
<1>9. ASSUME NEW i \in 1 .. n - 1 PROVE Part(d, q, lv, i, "waits")
  <2>1. i \in 1 .. n /\ i # n BY <1>3
  <2>2. d[i] = c[i] /\ Part(c, m, lv, i, w) BY <1>1, <1>2, <1>4, <2>1
  <2>3. c[i].k = "pcall" => d[i - 1] = c[i - 1]
    <3>1. ASSUME c[i].k = "pcall" PROVE i - 1 \in 1 .. n - 1
      <4>1. i # 1 BY <1>2, <1>3, <3>1 DEF Control
      <4> QED BY <1>3, <4>1
    <3> QED BY <1>4, <3>1
  <2>4. q[lv[i]] = m[lv[i]]
    <3>1. i \in 0 .. n /\ n - 1 \in 0 .. n /\ i <= n - 1 BY <1>3
    <3>2. lv[i] \in Nat /\ lv[i] >= 1 /\ lv[i] <= lv[n - 1] BY <1>1, <1>2, <3>1 DEF Levels
    <3>3. lv[i] \in 1 .. lv[n - 1] BY <1>6, <3>2
    <3> QED BY <1>7, <3>3
  <2> QED BY <1>2, <2>1, <2>2, <2>3, <2>4 DEF Part
<1>10. Len(d) > 0 /\ d[1].sync => Same(f, q[1], d[1].top)
  <2>1. ASSUME Len(d) > 0 PROVE d[1] = c[1] /\ q[1] = m[1]
    <3>1. 1 \in 1 .. n - 1 /\ 1 \in 1 .. lv[n - 1] BY <1>3, <1>4, <1>6, <2>1
    <3> QED BY <1>4, <1>7, <3>1
  <2>2. c[1].sync => Same(f, m[1], c[1].top) BY DEF Stands
  <2> QED BY <2>1, <2>2
<1>11. Stands(d, q, f, "waits") BY <1>4, <1>7, <1>8, <1>9, <1>10 DEF Stands
<1> QED BY <1>2, <1>11

LEMMA AwakeStands ==
  ASSUME NEW c, NEW m, NEW f, NEW v, Stands(c, m, f, v), Len(c) > 0 => c[Len(c)].k # "java", NEW w
  PROVE  Stands(c, m, f, w)
<1>1. PICK lv : /\ Levels(c, lv) /\ Len(m) = lv[Len(c)]
                /\ \A i \in 1 .. Len(c) : Part(c, m, lv, i, v)
  BY DEF Stands
<1>2. ASSUME NEW i \in 1 .. Len(c) PROVE Part(c, m, lv, i, w)
  <2>1. Part(c, m, lv, i, v) BY <1>1
  <2>2. CASE c[i].k = "java"
    <3>1. i # Len(c) BY <2>2
    <3> QED BY <2>1, <2>2, <3>1 DEF Part
  <2>3. CASE c[i].k # "java" BY <2>1, <2>3 DEF Part
  <2> QED BY <2>2, <2>3
<1> QED BY <1>1, <1>2 DEF Stands

\* Scripts change what they have looked up.
LEMMA AlikeStands ==
  ASSUME NEW c, IsSeq(c), NEW m, NEW f, NEW w, Stands(c, m, f, w), Control(c),
         NEW d, IsSeq(d), Len(d) = Len(c),
         \A i \in 1 .. Len(c) :
           d[i] = c[i] \/ (c[i].k = "script" /\ d[i].k = "script" /\ d[i].l = c[i].l)
  PROVE  Stands(d, m, f, w)
<1>1. PICK lv : /\ Levels(c, lv) /\ Len(m) = lv[Len(c)]
                /\ \A i \in 1 .. Len(c) : Part(c, m, lv, i, w)
  BY DEF Stands
<1>2. Len(c) \in Nat BY SeqFacts
<1>3. \A i \in 1 .. Len(c) : Rise(d[i]) = Rise(c[i]) BY DEF Rise
<1>4. Levels(d, lv)
  <2>1. Len(d) <= Len(c) /\ \A i \in 1 .. Len(d) : Rise(d[i]) = Rise(c[i]) BY <1>2, <1>3
  <2>2. IsSeq(c) /\ IsSeq(d) OBVIOUS
  <2> QED BY ONLY <1>1, <2>1, <2>2, LevelsLike
<1>5. ASSUME NEW i \in 1 .. Len(c) PROVE Part(d, m, lv, i, w)
  <2>1. Part(c, m, lv, i, w) BY <1>1
  <2>2. CASE d[i] # c[i]
    <3>1. d[i].k = "script" BY <2>2
    <3> QED BY <3>1 DEF Part
  <2>3. CASE d[i] = c[i]
    <3>1. ASSUME c[i].k = "pcall" PROVE d[i - 1] = c[i - 1]
      <4>1. i # 1 BY <3>1 DEF Control
      <4>2. i \in 2 .. Len(c) /\ i - 1 \in 1 .. Len(c) BY <1>2, <4>1
      <4>3. c[i - 1].k = "java" BY <3>1, <4>2 DEF Control, Fits
      <4> QED BY <4>2, <4>3
    <3> QED BY <2>1, <2>3, <3>1 DEF Part
  <2> QED BY <2>2, <2>3
<1>6. Len(d) > 0 /\ d[1].sync => Same(f, m[1], d[1].top)
  <2>1. ASSUME Len(d) > 0 PROVE d[1] = c[1]
    <3>1. c[1].k = "java" /\ 1 \in 1 .. Len(c) BY <1>2, <2>1 DEF Control
    <3> QED BY <3>1
  <2>2. Len(c) > 0 /\ c[1].sync => Same(f, m[1], c[1].top) BY DEF Stands
  <2> QED BY <2>1, <2>2
<1>7. Framed(m) BY DEF Stands
<1> QED BY <1>1, <1>4, <1>5, <1>6, <1>7 DEF Stands

LEMMA EmptyStands ==
  ASSUME NEW m, Framed(m), Len(m) = 1, NEW f, NEW w
  PROVE  Stands(<<>>, m, f, w)
<1>1. PICK c : c = <<>> OBVIOUS
<1>2. IsSeq(c) /\ Len(c) = 0 BY <1>1, NilFacts
<1>3. PICK lv : lv = [i \in 0 .. 0 |-> 1] OBVIOUS
<1>4. lv[0] = 1 /\ \A i \in 0 .. 0 : i = 0 BY <1>3
<1>5. 1 .. Len(c) = {} BY <1>2
<1>6. Levels(c, lv) BY <1>2, <1>4, <1>5 DEF Levels
<1>7. Stands(c, m, f, w) BY <1>2, <1>4, <1>5, <1>6 DEF Stands
<1> QED BY <1>1, <1>7

\* What lies under a height stays there.
LEMMA SpareSits ==
  ASSUME NEW a, NEW f, NEW x, Sits(a, f, x), NEW r, IsSeq(r), Same(f, r, x)
  PROVE  Sits(a, r, x)
<1>1. PICK g : /\ Ready(a, g) /\ On(f, Base(a), g) /\ x = Base(a) + Len(g) + Extra(a)
               /\ a.failed => a.who \in Failing /\ Len(g) = Residue(a.who, Len(a.code)) /\ Begun(a)
  BY DEF Sits
<1>2. PICK y, e : y = Base(a) /\ e = Extra(a) OBVIOUS
<1>3. IsSeq(f) /\ IsSeq(g) /\ y \in Nat /\ \A i \in 1 .. Len(g) : f[y + i] = g[i]
  BY <1>1, <1>2 DEF On
<1>4. Len(g) \in Nat /\ Len(r) \in Nat /\ e \in {0, 1} BY <1>2, <1>3, SeqFacts DEF Extra
<1>5. x = y + Len(g) + e /\ x <= Len(r) /\ \A i \in 1 .. x : r[i] = f[i] BY <1>1, <1>2 DEF Same
<1>6. x \in Nat /\ y + Len(g) <= x
  <2>1. \A X, Y, G, E \in Int : Y >= 0 /\ G >= 0 /\ E \in {0, 1} /\ X = Y + G + E => X \in Nat
        /\ Y + G <= X
    OBVIOUS
  <2>2. y \in Int /\ y >= 0 /\ Len(g) \in Int /\ Len(g) >= 0 /\ e \in Int BY <1>3, <1>4
  <2>3. y + Len(g) + e \in Int BY <2>2
  <2> QED BY ONLY <1>4, <1>5, <2>1, <2>2, <2>3
<1>7. \A i \in 1 .. Len(g) : y + i \in 1 .. x BY <1>3, <1>4, <1>6
<1>8. On(r, y, g)
  <2>1. y + Len(g) <= Len(r) BY <1>3, <1>4, <1>5, <1>6
  <2>2. \A i \in 1 .. Len(g) : r[y + i] = g[i] BY <1>3, <1>5, <1>7
  <2> QED BY <1>3, <2>1, <2>2 DEF On
<1>9. ~a.failed /\ e = 1 => r[x] = a.ret
  <2>1. e = 1 => x \in 1 .. x BY <1>3, <1>4, <1>5, <1>6
  <2> QED BY <1>2, <1>5, <2>1 DEF Sits
<1>10. a.did = a.meant /\ a.top \in Nat BY DEF Sits
<1>11. On(r, Base(a), g) /\ x <= Len(r) /\ (~a.failed /\ Extra(a) = 1 => r[x] = a.ret)
  BY <1>2, <1>5, <1>8, <1>9
<1> QED BY <1>1, <1>10, <1>11 DEF Sits

LEMMA StandsHere ==
  ASSUME NEW c, Control(c), NEW m, NEW f, NEW w, Stands(c, m, f, w)
  PROVE  Stands(c, m, m[1], w)
<1>1. Len(c) > 0 /\ c[1].sync => Same(m[1], m[1], c[1].top) BY DEF Stands, Same
<1> QED BY <1>1 DEF Stands

\* The top activation and its frame, and the frames of Java code alone.
LEMMA TopStands ==
  ASSUME NEW c, Control(c), Len(c) > 0, NEW m, NEW f, NEW w, Stands(c, m, f, w)
  PROVE  /\ IsSeq(m) /\ Len(m) \in Nat /\ Len(m) > 0 /\ Last(m) = m[Len(m)] /\ IsSeq(Last(m))
         /\ IsSeq(m[1])
         /\ Settled(c[Len(c)], Len(c), Last(m), w)
         /\ Sound(c[1])
         /\ Len(c) = 1 => Len(m) = 1
<1>1. PICK lv : /\ Levels(c, lv) /\ Len(m) = lv[Len(c)]
                /\ \A i \in 1 .. Len(c) : Part(c, m, lv, i, w)
  BY DEF Stands
<1>2. PICK n : n = Len(c) OBVIOUS
<1>3. n \in Nat /\ n \in 0 .. n /\ n \in 1 .. n /\ 1 \in 1 .. n BY <1>2, SeqFacts DEF Control
<1>4. lv[n] \in Nat /\ lv[n] >= 1 BY <1>1, <1>2, <1>3 DEF Levels
<1>5. Len(m) \in Nat /\ Len(m) > 0 BY <1>1, <1>2, <1>4
<1>6. IsSeq(m) /\ \A i \in 1 .. Len(m) : IsSeq(m[i]) BY DEF Stands, Framed
<1>7. Last(m) = m[Len(m)] /\ Len(m) \in 1 .. Len(m) /\ 1 \in 1 .. Len(m) BY <1>5 DEF Last
<1>8. Part(c, m, lv, n, w) /\ Part(c, m, lv, 1, w) BY <1>1, <1>2, <1>3
<1>9. c[1].k = "java" BY <1>2, <1>3 DEF Control
<1>10. Sound(c[1]) BY <1>8, <1>9 DEF Part
<1>11. Settled(c[n], n, m[lv[n]], w)
  <2>1. n = Len(c) BY <1>2
  <2> QED BY <1>8, <2>1 DEF Part, Settled
<1>12. Len(c) = 1 => Len(m) = 1
  <2>1. 1 - 1 = 0 /\ Rise(c[1]) = 0 BY <1>9 DEF Rise
  <2>2. lv[1] = lv[0] + 0 /\ lv[0] = 1 BY <1>1, <1>2, <1>3, <2>1 DEF Levels
  <2> QED BY <1>1, <2>2
<1>13. Settled(c[n], n, Last(m), w) BY <1>1, <1>2, <1>7, <1>11
<1> QED BY <1>2, <1>5, <1>6, <1>7, <1>10, <1>12, <1>13

\* Java code that a thread runs and has no monitor for.
LEMMA OneStands ==
  ASSUME NEW c, IsSeq(c), Len(c) = 1, NEW m, Framed(m), Len(m) = 1, NEW f,
         c[1].k = "java", Sound(c[1]), c[1].sync => Same(f, m[1], c[1].top),
         Tracked(c[1], 1) => Sits(c[1], m[1], Len(m[1]))
  PROVE  Stands(c, m, f, "sits")
<1>1. PICK a, w : a = c[1] /\ w = "sits" OBVIOUS
<1>2. PICK e : e = <<>> OBVIOUS
<1>3. IsSeq(e) /\ Len(e) = 0 /\ Control(e) BY <1>2, NilFacts, NoneGood DEF Good
<1>4. Stands(e, m, f, w) BY <1>2, EmptyStands
<1>5. Settled(a, 1, m[1], w) BY <1>1 DEF Settled
<1>6. PICK d : d = Append(e, a) OBVIOUS
<1>7. Stands(d, m, f, w)
  <2>1. a.k = "java" /\ Rise(a) = 0 /\ (a.sync => Same(f, m[1], a.top)) BY <1>1 DEF Rise
  <2>2. Len(e) + 1 = 1 /\ Len(m) = Len(m) + Rise(a) BY <1>3, <2>1
  <2>3. Settled(a, Len(e) + 1, m[Len(m)], w) BY <1>5, <2>2
  <2>4. /\ Control(e) /\ Stands(e, m, f, w) /\ (Len(e) > 0 => e[Len(e)].k # "java" \/ w = "waits")
        /\ Framed(m) /\ Len(m) = Len(m) + Rise(a) /\ (\A i \in 1 .. Len(m) : m[i] = m[i])
        /\ a.k = "pcall" => /\ Len(e) > 0 /\ a.frames = Len(m)
                            /\ Tracked(e[Len(e)], Len(e)) => a.nres = e[Len(e)].nres
        /\ Len(e) = 0 => a.k = "java" /\ (a.sync => Same(f, m[1], a.top))
    BY <1>3, <1>4, <2>1, <2>2
  <2> QED BY ONLY <1>6, <2>3, <2>4, PushStands
<1>8. c = d
  <2>0. IsSeq(d) /\ Len(d) = Len(e) + 1 /\ d[Len(e) + 1] = a BY <1>3, <1>6, AppendFacts
  <2>1. IsSeq(d) /\ Len(d) = 1 /\ d[1] = a
    <3>1. Len(e) + 1 = 1 BY <1>3
    <3> QED BY <2>0, <3>1
  <2>2. \A i \in 1 .. Len(c) : c[i] = d[i] BY <1>1, <2>1
  <2> QED BY <2>1, <2>2, SameSeq
<1> QED BY <1>1, <1>7, <1>8
-----------------------------------------------------------------------------
(* All threads.                                                            *)

Free(cs, t) == \A s \in Thread \ {t} : ~HoldsMonitor(cs[s])

\* The thread that may enter stands on the frames of the main thread; Java
\* code of another thread that is between two natives has its values under
\* those of the thread with the monitor.
StacksOf(cs, m) ==
  /\ Framed(m) /\ Len(m) > 0
  /\ \A t \in Thread : Free(cs, t) => Stands(cs[t], m, m[1], "sits")
  /\ \A s, t \in Thread : s # t /\ HoldsMonitor(cs[t]) /\ Len(cs[s]) = 1 /\ ~cs[s][1].spilt =>
       Sits(cs[s][1], m[1], cs[t][1].top)
  /\ \A t \in Thread : Len(cs[t]) > 0 => Sound(cs[t][1]) /\ (t \notin Engine => cs[t][1].sync)

Stacked == StacksOf(ctl, stack["main"])

\* With one engine, no other thread is in Java code without the monitor.
LEMMA Alone ==
  ASSUME OneEngine, NEW cs, NEW m, StacksOf(cs, m), NEW t \in Thread, Free(cs, t),
         \A s \in Thread : Control(cs[s]), Len(cs[t]) > 0, ~cs[t][1].sync,
         NEW s \in Thread, s # t
  PROVE  cs[s] = <<>>
<1>1. t \in Engine BY DEF StacksOf
<1>2. s \notin Engine BY <1>1 DEF OneEngine
<1>3. ~HoldsMonitor(cs[s]) BY DEF Free
<1>4. IsSeq(cs[s]) /\ Len(cs[s]) \in Nat /\ (cs[s] = <<>> <=> Len(cs[s]) = 0) BY SeqFacts
      DEF Control
<1>5. ASSUME Len(cs[s]) > 0 PROVE FALSE
  <2>1. cs[s][1].sync /\ 1 \in 1 .. Len(cs[s]) BY <1>2, <1>4, <1>5 DEF StacksOf
  <2> QED BY <1>3, <2>1 DEF HoldsMonitor
<1> QED BY <1>4, <1>5

LEMMA StayStack ==
  ASSUME OneEngine, NEW cs, NEW m, StacksOf(cs, m), NEW t \in Thread, Free(cs, t),
         \A s \in Thread : Control(cs[s]), Len(cs[t]) > 0,
         NEW ds, \A s \in Thread \ {t} : ds[s] = cs[s],
         NEW d, ds[t] = d, Control(d), Len(d) > 0,
         d[1].sync = cs[t][1].sync, d[1].top = cs[t][1].top,
         NEW q, Stands(d, q, m[1], "sits")
  PROVE  StacksOf(ds, q)
<1>1. PICK c, w : c = cs[t] /\ w = "sits" OBVIOUS
<1>2. Stands(d, q, m[1], w) /\ Control(c) /\ Len(c) > 0 BY <1>1
<1>3. IsSeq(d) /\ Len(d) \in Nat /\ 1 \in 1 .. Len(d) /\ IsSeq(c) /\ Len(c) \in Nat
      /\ 1 \in 1 .. Len(c)
  BY <1>2, SeqFacts DEF Control
<1>4. /\ IsSeq(q) /\ Len(q) > 0 /\ IsSeq(q[1]) /\ Sound(d[1]) /\ (Len(d) = 1 => Len(q) = 1)
  <2>1. PICK f : f = m[1] OBVIOUS
  <2>2. Stands(d, q, f, w) /\ Control(d) /\ Len(d) > 0 BY <1>2, <2>1
  <2> QED BY ONLY <2>2, TopStands
<1>5. Framed(q) BY DEF Stands
<1>6. Stands(d, q, q[1], w)
  <2>1. PICK f : f = m[1] OBVIOUS
  <2>2. Stands(d, q, f, w) /\ Control(d) BY <1>2, <2>1
  <2> QED BY ONLY <2>2, StandsHere
<1>7. \A s \in Thread : Len(ds[s]) > 0 => Sound(ds[s][1]) /\ (s \notin Engine => ds[s][1].sync)
  <2>1. Sound(d[1]) /\ (t \notin Engine => d[1].sync) BY <1>1, <1>4 DEF StacksOf
  <2>2. \A s \in Thread \ {t} : Len(cs[s]) > 0 => Sound(cs[s][1])
        /\ (s \notin Engine => cs[s][1].sync)
    BY DEF StacksOf
  <2> QED BY <2>1, <2>2
<1>8. CASE c[1].sync
  <2>1. HoldsMonitor(c) /\ HoldsMonitor(d) BY <1>1, <1>3, <1>8 DEF HoldsMonitor
  <2>2. ASSUME NEW s \in Thread, Free(ds, s) PROVE Stands(ds[s], q, q[1], "sits")
    <3>1. s = t BY <2>1, <2>2 DEF Free
    <3> QED BY <1>1, <1>6, <3>1
  <2>3. ASSUME NEW s \in Thread, NEW u \in Thread, s # u, HoldsMonitor(ds[u]), Len(ds[s]) = 1,
               ~ds[s][1].spilt
        PROVE  Sits(ds[s][1], q[1], ds[u][1].top)
    <3>1. u = t BY <2>3 DEF Free
    <3>2. ds[s] = cs[s] /\ ds[u][1].top = c[1].top BY <1>1, <2>3, <3>1
    <3>3. Sits(cs[s][1], m[1], c[1].top) BY <1>1, <2>1, <2>3, <3>1, <3>2 DEF StacksOf
    <3>4. Same(m[1], q[1], c[1].top) BY <1>1, <1>8 DEF Stands
    <3>5. PICK a, f, r, x : a = cs[s][1] /\ f = m[1] /\ r = q[1] /\ x = c[1].top OBVIOUS
    <3>6. Sits(a, f, x) /\ Same(f, r, x) /\ IsSeq(r) BY <1>4, <3>3, <3>4, <3>5
    <3>7. Sits(a, r, x) BY ONLY <3>6, SpareSits
    <3> QED BY <3>2, <3>5, <3>7
  <2> QED BY <1>4, <1>5, <1>7, <2>2, <2>3 DEF StacksOf
<1>9. CASE ~c[1].sync
  <2>1. \A s \in Thread \ {t} : ds[s] = <<>> BY <1>1, <1>2, <1>9, Alone
  <2>2. \A s \in Thread \ {t} : Len(ds[s]) = 0 /\ ~HoldsMonitor(ds[s])
    <3>1. Len(<<>>) = 0 BY NilFacts
    <3> QED BY <2>1, <3>1 DEF HoldsMonitor
  <2>3. ASSUME NEW s \in Thread, Free(ds, s) PROVE Stands(ds[s], q, q[1], "sits")
    <3>1. CASE s = t BY <1>1, <1>6, <3>1
    <3>2. CASE s # t
      <4>1. ~HoldsMonitor(d) BY <2>3, <3>2 DEF Free
      <4>2. ~(Len(d) > 1) BY <4>1, DeepHolds
      <4>n. \A n \in Nat : n > 0 /\ ~(n > 1) => n = 1 OBVIOUS
      <4>3. Len(d) = 1 BY <1>3, <4>2, <4>n
      <4>4. Len(q) = 1 BY <1>4, <4>3
      <4> QED BY <1>5, <2>1, <3>2, <4>4, EmptyStands
    <3> QED BY <3>1, <3>2
  <2>4. ASSUME NEW s \in Thread, NEW u \in Thread, s # u, HoldsMonitor(ds[u]), Len(ds[s]) = 1,
               ~ds[s][1].spilt
        PROVE  Sits(ds[s][1], q[1], ds[u][1].top)
    BY <2>2, <2>4
  <2> QED BY <1>4, <1>5, <1>7, <2>3, <2>4 DEF StacksOf
<1> QED BY <1>8, <1>9

LEMMA StartStack ==
  ASSUME NEW cs, NEW m, StacksOf(cs, m), NEW t \in Thread, Free(cs, t),
         \A s \in Thread : Control(cs[s]), Len(cs[t]) = 0,
         NEW ds, \A s \in Thread \ {t} : ds[s] = cs[s],
         NEW d, ds[t] = d, Control(d), Len(d) = 1, Sound(d[1]),
         d[1].top = Len(m[1]), Sits(d[1], m[1], Len(m[1])), t \notin Engine => d[1].sync
  PROVE  StacksOf(ds, m)
<1>1. IsSeq(d) /\ d[1].k = "java" BY DEF Control
<1>2. Framed(m) BY DEF StacksOf
<1>3. Len(m) = 1 /\ IsSeq(m[1])
  <2>1. Stands(cs[t], m, m[1], "sits") BY DEF StacksOf
  <2>2. PICK lv : Levels(cs[t], lv) /\ Len(m) = lv[Len(cs[t])] BY <2>1 DEF Stands
  <2>3. Len(m) = 1 BY <2>2 DEF Levels
  <2>4. 1 \in 1 .. Len(m) BY <2>3
  <2> QED BY <1>2, <2>3, <2>4 DEF Framed
<1>4. Stands(d, m, m[1], "sits")
  <2>1. Len(m[1]) \in Nat BY <1>3, SeqFacts
  <2>2. d[1].sync => Same(m[1], m[1], d[1].top) BY <2>1 DEF Same
  <2>3. PICK f : f = m[1] OBVIOUS
  <2>4. /\ IsSeq(d) /\ Len(d) = 1 /\ Framed(m) /\ Len(m) = 1
        /\ d[1].k = "java" /\ Sound(d[1]) /\ (d[1].sync => Same(f, m[1], d[1].top))
        /\ Tracked(d[1], 1) => Sits(d[1], m[1], Len(m[1]))
    BY <1>1, <1>2, <1>3, <2>2, <2>3
  <2>5. Stands(d, m, f, "sits") BY ONLY <2>4, OneStands
  <2> QED BY <2>3, <2>5
<1>5. \A s \in Thread : ~HoldsMonitor(cs[s]) /\ Free(cs, s)
  <2>1. ~HoldsMonitor(cs[t]) BY DEF HoldsMonitor
  <2> QED BY <2>1 DEF Free
<1>6. ASSUME NEW s \in Thread PROVE Stands(cs[s], m, m[1], "sits")
  BY <1>5 DEF StacksOf
<1>7. \A s \in Thread : Len(ds[s]) > 0 => Sound(ds[s][1]) /\ (s \notin Engine => ds[s][1].sync)
  BY DEF StacksOf
<1>8. ASSUME NEW s \in Thread, Free(ds, s) PROVE Stands(ds[s], m, m[1], "sits")
  BY <1>4, <1>6
<1>9. ASSUME NEW s \in Thread, NEW u \in Thread, s # u, HoldsMonitor(ds[u]), Len(ds[s]) = 1,
             ~ds[s][1].spilt
      PROVE  Sits(ds[s][1], m[1], ds[u][1].top)
  <2>1. u = t /\ ds[s] = cs[s] BY <1>5, <1>9
  <2>2. PICK c, w, f : c = cs[s] /\ w = "sits" /\ f = m[1] OBVIOUS
  <2>3. Control(c) /\ Len(c) > 0 /\ Stands(c, m, f, w) /\ Len(c) = 1 BY <1>6, <1>9, <2>1, <2>2
  <2>4. Settled(c[Len(c)], Len(c), Last(m), w) BY ONLY <2>3, TopStands
  <2>5. Last(m) = m[1] BY <1>3 DEF Last
  <2>6. Settled(c[1], 1, f, w) BY <2>2, <2>3, <2>4, <2>5
  <2>7. c[1].k = "java" BY <2>3 DEF Control
  <2>8. Tracked(c[1], 1) BY <1>9, <2>1, <2>2 DEF Tracked
  <2>9. Sits(c[1], f, Len(f)) BY <2>2, <2>6, <2>7, <2>8 DEF Settled
  <2> QED BY <2>1, <2>2, <2>9
<1>10. Len(m) > 0 BY <1>3
<1> QED BY <1>2, <1>7, <1>8, <1>9, <1>10 DEF StacksOf

LEMMA EndStack ==
  ASSUME OneEngine, NEW cs, NEW m, StacksOf(cs, m), NEW t \in Thread, Free(cs, t),
         \A s \in Thread : Control(cs[s]), Len(cs[t]) = 1,
         NEW ds, ds[t] = <<>>, \A s \in Thread : Control(ds[s]),
         \A s \in Thread \ {t} :
           \/ ds[s] = cs[s]
           \/ /\ Len(ds[s]) = 1 /\ Len(cs[s]) = 1 /\ ds[s][1].spilt
              /\ ds[s][1].sync = cs[s][1].sync /\ Sound(ds[s][1]),
         NEW q, Framed(q), Len(q) = 1,
         (\E s \in Thread \ {t} : Len(ds[s]) = 1 /\ ~ds[s][1].spilt) /\ cs[t][1].sync =>
           Len(q[1]) = cs[t][1].top /\ Same(m[1], q[1], cs[t][1].top)
  PROVE  StacksOf(ds, q)
<1>1. ASSUME NEW s \in Thread \ {t} PROVE Len(cs[s]) = 0 \/ (Len(cs[s]) = 1 /\ ~cs[s][1].sync)
  <2>1. ~HoldsMonitor(cs[s]) BY DEF Free
  <2>2. ~(Len(cs[s]) > 1) BY <2>1, DeepHolds
  <2>3. Len(cs[s]) \in Nat BY SeqFacts DEF Control
  <2>4. Len(cs[s]) = 1 => ~cs[s][1].sync
    <3>1. 1 \in 1 .. 1 OBVIOUS
    <3> QED BY <2>1, <3>1 DEF HoldsMonitor
  <2>n. \A n \in Nat : ~(n > 1) => n = 0 \/ n = 1 OBVIOUS
  <2>5. Len(cs[s]) = 0 \/ Len(cs[s]) = 1 BY <2>2, <2>3, <2>n
  <2> QED BY <2>4, <2>5
<1>2. ASSUME NEW s \in Thread \ {t}
      PROVE  /\ \/ Len(ds[s]) = 0
                \/ Len(ds[s]) = 1 /\ ~ds[s][1].sync /\ s \in Engine /\ cs[t][1].sync
             /\ Len(ds[s]) > 0 => Sound(ds[s][1])
             /\ Len(ds[s]) = Len(cs[s])
  <2>1. CASE Len(cs[s]) = 0 BY <2>1
  <2>2. CASE Len(cs[s]) = 1 /\ ~cs[s][1].sync
    <3>1. Len(ds[s]) = 1 /\ ~ds[s][1].sync /\ Sound(ds[s][1]) BY <2>2 DEF StacksOf
    <3>2. s \in Engine BY <2>2 DEF StacksOf
    <3>3. t \notin Engine BY <3>2 DEF OneEngine
    <3>4. cs[t][1].sync BY <3>3 DEF StacksOf
    <3> QED BY <2>2, <3>1, <3>2, <3>4
  <2> QED BY <1>1, <2>1, <2>2
<1>3. ds[t] = <<>> /\ Len(ds[t]) = 0 BY NilFacts
<1>4. ASSUME NEW s \in Thread PROVE ~HoldsMonitor(ds[s])
  <2>1. CASE Len(ds[s]) = 0 BY <2>1 DEF HoldsMonitor
  <2>2. CASE Len(ds[s]) # 0
    <3>1. Len(ds[s]) = 1 /\ ~ds[s][1].sync BY <1>2, <1>3, <2>2
    <3>2. ds[s][1].k = "java" BY <3>1 DEF Control
    <3>3. \A i \in 1 .. 1 : i = 1 OBVIOUS
    <3> QED BY <3>1, <3>2, <3>3 DEF HoldsMonitor
  <2> QED BY <2>1, <2>2
<1>5. IsSeq(q[1])
  <2>1. 1 \in 1 .. Len(q) OBVIOUS
  <2> QED BY <2>1 DEF Framed
<1>6. ASSUME NEW s \in Thread PROVE Stands(ds[s], q, q[1], "sits")
  <2>1. CASE Len(ds[s]) = 0
    <3>1. ds[s] = <<>> BY <2>1, SeqFacts DEF Control
    <3> QED BY <3>1, EmptyStands
  <2>2. CASE Len(ds[s]) # 0
    <3>1. s \in Thread \ {t} BY <1>3, <2>2
    <3>2. Len(ds[s]) = 1 /\ ~ds[s][1].sync /\ cs[t][1].sync /\ Sound(ds[s][1])
      BY <1>2, <2>2, <3>1
    <3>3. ds[s][1].k = "java" /\ IsSeq(ds[s]) BY <3>2 DEF Control
    <3>4. ASSUME ~ds[s][1].spilt PROVE Sits(ds[s][1], q[1], Len(q[1]))
      <4>1. ds[s] = cs[s] BY <3>1, <3>4
      <4>2. HoldsMonitor(cs[t])
        <5>1. 1 \in 1 .. 1 OBVIOUS
        <5> QED BY <3>2, <5>1 DEF HoldsMonitor
      <4>3. Sits(cs[s][1], m[1], cs[t][1].top) BY <3>1, <3>2, <3>4, <4>1, <4>2 DEF StacksOf
      <4>4. Len(q[1]) = cs[t][1].top /\ Same(m[1], q[1], cs[t][1].top) BY <3>1, <3>2, <3>4
      <4>5. PICK a, f, r, x : a = cs[s][1] /\ f = m[1] /\ r = q[1] /\ x = cs[t][1].top OBVIOUS
      <4>6. Sits(a, f, x) /\ Same(f, r, x) /\ IsSeq(r) BY <1>5, <4>3, <4>4, <4>5
      <4>7. Sits(a, r, x) BY ONLY <4>6, SpareSits
      <4> QED BY <4>1, <4>4, <4>5, <4>7
    <3>5. PICK c, f : c = ds[s] /\ f = q[1] OBVIOUS
    <3>6. /\ IsSeq(c) /\ Len(c) = 1 /\ Framed(q) /\ Len(q) = 1
          /\ c[1].k = "java" /\ Sound(c[1]) /\ (c[1].sync => Same(f, q[1], c[1].top))
          /\ Tracked(c[1], 1) => Sits(c[1], q[1], Len(q[1]))
      <4>1. Tracked(c[1], 1) => ~c[1].spilt BY <3>2, <3>5 DEF Tracked
      <4> QED BY <3>2, <3>3, <3>4, <3>5, <4>1
    <3>7. Stands(c, q, f, "sits") BY ONLY <3>6, OneStands
    <3> QED BY <3>5, <3>7
  <2> QED BY <2>1, <2>2
<1>7. \A s \in Thread : Len(ds[s]) > 0 => Sound(ds[s][1]) /\ (s \notin Engine => ds[s][1].sync)
  <2>1. ASSUME NEW s \in Thread, Len(ds[s]) > 0
        PROVE  Sound(ds[s][1]) /\ (s \notin Engine => ds[s][1].sync)
    <3>1. s \in Thread \ {t} BY <1>3, <2>1
    <3> QED BY <1>2, <2>1, <3>1
  <2> QED BY <2>1
<1> QED BY <1>4, <1>6, <1>7 DEF StacksOf
-----------------------------------------------------------------------------
(* One step of the thread that may enter the LuaState.                     *)

\* Thread t goes on from its activations c, on the frames m.
Runs(t, c, m) ==
  /\ t \in Thread /\ c = ctl[t] /\ m = stack["main"]
  /\ Control(c) /\ Len(c) \in Nat /\ Len(c) > 0
  /\ Stands(c, m, m[1], "sits") /\ Free(ctl, t)
  /\ IsSeq(m) /\ Len(m) \in Nat /\ Len(m) > 0 /\ Here = m[Len(m)] /\ Last(m) = m[Len(m)]

LEMMA EnterRuns ==
  ASSUME Calls, Stacked, NEW t \in Thread, Busy(t), Top(t).k # "java" \/ CanEnter(t)
  PROVE  \E c, m : Runs(t, c, m)
<1>1. PICK c, m : c = ctl[t] /\ m = stack["main"] OBVIOUS
<1>2. Control(c) /\ Len(c) \in Nat /\ Len(c) > 0 BY <1>1, BusyFacts
<1>3. \A s \in Thread : Control(ctl[s]) BY DEF Calls, Good
<1>4. CanEnter(t)
  <2>1. CASE Top(t).k # "java"
    <3>1. Holds(t) BY <2>1, BusyFacts
    <3> QED BY <3>1 DEF Calls, Exclusive, CanEnter
  <2> QED BY <2>1
<1>5. Free(ctl, t)
  <2>1. \A s \in Thread \ {t} : ~Holds(s) BY <1>4 DEF CanEnter
  <2>2. \A s \in Thread : Holds(s) <=> HoldsMonitor(ctl[s]) BY <1>3, HoldsIs
  <2> QED BY <2>1, <2>2 DEF Free
<1>6. Stands(c, m, m[1], "sits") BY <1>1, <1>5 DEF Stacked, StacksOf
<1>7. IsSeq(m) /\ Len(m) > 0 BY <1>1 DEF Stacked, StacksOf, Framed
<1>8. Len(m) \in Nat BY <1>7, SeqFacts
<1>9. Here = Last(m) /\ Last(m) = m[Len(m)] BY <1>1 DEF Here, Frame, Last
<1>10. Runs(t, c, m) BY <1>1, <1>2, <1>5, <1>6, <1>7, <1>8, <1>9 DEF Runs
<1> QED BY <1>10

\* What the others see of the thread that goes on from c to d: the monitor and
\* the height that its first activation started from.
Rooted(c, d) == d[1].sync = c[1].sync /\ d[1].top = c[1].top

\* Activations d on frames q, reached from c on frames m.
Comes(c, m, d, q, w) ==
  Control(d) /\ Len(d) \in Nat /\ Len(d) > 0 /\ Rooted(c, d) /\ Stands(d, q, m[1], w)

LEMMA RunsComes ==
  ASSUME NEW t, NEW c, NEW m, Runs(t, c, m)
  PROVE  Comes(c, m, c, m, "sits")
BY DEF Runs, Comes, Rooted

LEMMA ComesStacked ==
  ASSUME OneEngine, Stacked, Calls, Calls', NEW t, NEW c, NEW m, Runs(t, c, m),
         NEW d, ctl' = [ctl EXCEPT ![t] = d], NEW q, stack'["main"] = q,
         Comes(c, m, d, q, "sits")
  PROVE  Stacked'
<1>1. PICK cs, ds : cs = ctl /\ ds = ctl' OBVIOUS
<1>2. t \in Thread /\ c = cs[t] /\ m = stack["main"] /\ Free(cs, t) /\ Len(cs[t]) > 0
  BY <1>1 DEF Runs
<1>3. StacksOf(cs, m) /\ \A s \in Thread : Control(cs[s])
  BY <1>1, <1>2 DEF Stacked, Calls, Good
<1>4. ds[t] = d /\ \A s \in Thread \ {t} : ds[s] = cs[s]
  <2>1. DOMAIN ctl = Thread BY DEF Calls, Typed
  <2> QED BY <1>1, <1>2, <2>1
<1>5. Control(d) /\ Len(d) > 0 /\ d[1].sync = cs[t][1].sync /\ d[1].top = cs[t][1].top
      /\ Stands(d, q, m[1], "sits")
  BY <1>2 DEF Comes, Rooted
<1>6. StacksOf(ds, q) BY ONLY OneEngine, <1>2, <1>3, <1>4, <1>5, StayStack
<1> QED BY <1>1, <1>6 DEF Stacked

LEMMA ComesRetop ==
  ASSUME NEW c, NEW m, NEW e, NEW n, NEW v, Comes(c, m, e, n, v),
         NEW a, a = e[Len(e)], Apart(a), NEW b, Alike(a, b),
         a.k = "java" => b.sync = a.sync /\ b.top = a.top,
         NEW r, IsSeq(r), NEW w, Settled(b, Len(e), r, w),
         Len(e) = 1 /\ a.sync => Same(Last(n), r, a.top)
  PROVE  /\ Comes(c, m, Append(Front(e), b), Append(Front(n), r), w)
         /\ Len(Append(Front(e), b)) = Len(e)
         /\ \A i \in 1 .. Len(e) - 1 : Append(Front(e), b)[i] = e[i]
         /\ Append(Front(e), b)[Len(e)] = b
<1>1. PICK d, f : d = Append(Front(e), b) /\ f = m[1] OBVIOUS
<1>2. Control(e) /\ Len(e) \in Nat /\ Len(e) > 0 /\ Rooted(c, e) /\ Stands(e, n, f, v)
  BY <1>1 DEF Comes
<1>3. Stays(a, b) BY DEF Stays, Alike
<1>4. Stands(Append(Front(e), b), Append(Front(n), r), f, w)
  BY ONLY <1>2, <1>3, a = e[Len(e)], Apart(a), IsSeq(r), Settled(b, Len(e), r, w),
          Len(e) = 1 /\ a.sync => Same(Last(n), r, a.top), RetopStands
<1>5. Alike(e[Len(e)], b) OBVIOUS
<1>6. /\ Control(d) /\ Len(d) = Len(e) /\ (\A i \in 1 .. Len(e) - 1 : d[i] = e[i]) /\ d[Len(e)] = b
  BY ONLY <1>1, <1>2, <1>5, RetopControl
<1>7. Rooted(e, d)
  <2>1. CASE Len(e) = 1
    <3>1. e[1].k = "java" BY <1>2 DEF Control
    <3> QED BY <1>6, <2>1, <3>1 DEF Rooted
  <2>2. CASE Len(e) # 1
    <3>n. \A j \in Nat : j > 0 /\ j # 1 => 1 \in 1 .. j - 1 OBVIOUS
    <3>1. 1 \in 1 .. Len(e) - 1 BY ONLY <1>2, <2>2, <3>n
    <3> QED BY <1>6, <3>1 DEF Rooted
  <2> QED BY <2>1, <2>2
<1>8. Rooted(c, d) BY <1>2, <1>7 DEF Rooted
<1> QED BY <1>1, <1>2, <1>4, <1>6, <1>8 DEF Comes

LEMMA ComesPush ==
  ASSUME NEW c, NEW m, NEW e, NEW n, NEW v, Comes(c, m, e, n, v),
         e[Len(e)].k # "java" \/ v = "waits",
         NEW b, Formed(b), Fits(e[Len(e)], b),
         NEW q, Framed(q), Len(q) = Len(n) + Rise(b), \A i \in 1 .. Len(n) : q[i] = n[i],
         NEW w, Settled(b, Len(e) + 1, q[Len(n)], w),
         b.k = "pcall" => /\ b.frames = Len(n)
                          /\ Tracked(e[Len(e)], Len(e)) => b.nres = e[Len(e)].nres
  PROVE  /\ Comes(c, m, Append(e, b), q, w)
         /\ Len(Append(e, b)) = Len(e) + 1
         /\ \A i \in 1 .. Len(e) : Append(e, b)[i] = e[i]
         /\ Append(e, b)[Len(e) + 1] = b
<1>1. PICK d, f : d = Append(e, b) /\ f = m[1] OBVIOUS
<1>2. Control(e) /\ Len(e) \in Nat /\ Len(e) > 0 /\ Len(e) # 0 /\ Rooted(c, e) /\ Stands(e, n, f, v)
      /\ IsSeq(e)
  BY <1>1 DEF Comes, Control
<1>3. IsSeq(d) /\ Len(d) = Len(e) + 1 /\ (\A i \in 1 .. Len(e) : d[i] = e[i]) /\ d[Len(e) + 1] = b
  BY <1>1, <1>2, AppendFacts
<1>4. Control(d) BY <1>1, <1>2, AppendControl
<1>5. Stands(Append(e, b), q, f, w)
  <2>1. /\ Len(e) > 0 => e[Len(e)].k # "java" \/ v = "waits"
        /\ b.k = "pcall" => /\ Len(e) > 0 /\ b.frames = Len(n)
                            /\ Tracked(e[Len(e)], Len(e)) => b.nres = e[Len(e)].nres
        /\ Len(e) = 0 => b.k = "java" /\ (b.sync => Same(f, q[1], b.top))
        /\ Framed(q) /\ Len(q) = Len(n) + Rise(b) /\ (\A i \in 1 .. Len(n) : q[i] = n[i])
        /\ Settled(b, Len(e) + 1, q[Len(n)], w)
    BY <1>2
  <2> QED BY ONLY <1>2, <2>1, PushStands
<1>6. 1 \in 1 .. Len(e) BY <1>2
<1>7. Rooted(c, d) BY <1>2, <1>3, <1>6 DEF Rooted
<1>8. Len(d) \in Nat /\ Len(d) > 0 BY <1>2, <1>3
<1> QED BY <1>1, <1>3, <1>4, <1>5, <1>7, <1>8 DEF Comes

LEMMA ComesCut ==
  ASSUME NEW c, NEW m, NEW e, NEW n, NEW v, Comes(c, m, e, n, v), Len(e) > 1,
         NEW q, \/ Rise(e[Len(e)]) = 0 /\ q = n
                \/ Rise(e[Len(e)]) = 1 /\ q = Front(n)
  PROVE  /\ Comes(c, m, SubSeq(e, 1, Len(e) - 1), q, "waits")
         /\ Len(SubSeq(e, 1, Len(e) - 1)) = Len(e) - 1
         /\ \A i \in 1 .. Len(e) - 1 : SubSeq(e, 1, Len(e) - 1)[i] = e[i]
<1>1. PICK j, f : j = Len(e) - 1 /\ f = m[1] OBVIOUS
<1>2. Control(e) /\ Len(e) \in Nat /\ Len(e) > 0 /\ Rooted(c, e) /\ Stands(e, n, f, v)
  BY <1>1 DEF Comes
<1>3. j \in 0 .. Len(e) /\ j \in Nat /\ j > 0 /\ 1 \in 1 .. j BY <1>1, <1>2
<1>4. PICK d : d = SubSeq(e, 1, j) OBVIOUS
<1>5. Control(d) /\ Len(d) = j /\ \A i \in 1 .. j : d[i] = e[i] BY <1>2, <1>3, <1>4, CutControl
<1>6. Stands(SubSeq(e, 1, Len(e) - 1), q, f, "waits")
  <2>1. \/ Rise(e[Len(e)]) = 0 /\ q = n
        \/ Rise(e[Len(e)]) = 1 /\ q = Front(n)
    OBVIOUS
  <2> QED BY ONLY <1>2, <2>1, CutStands
<1>7. Rooted(c, d) BY <1>2, <1>3, <1>5 DEF Rooted
<1>8. Comes(c, m, d, q, "waits") BY <1>1, <1>3, <1>4, <1>5, <1>6, <1>7 DEF Comes
<1> QED BY <1>1, <1>4, <1>5, <1>8

LEMMA ComesAwake ==
  ASSUME NEW c, NEW m, NEW e, NEW n, NEW v, Comes(c, m, e, n, v), e[Len(e)].k # "java", NEW w
  PROVE  Comes(c, m, e, n, w)
<1>1. PICK f : f = m[1] OBVIOUS
<1>2. Stands(e, n, f, v) BY <1>1 DEF Comes
<1>3. Stands(e, n, f, w) BY ONLY <1>2, e[Len(e)].k # "java", AwakeStands
<1> QED BY <1>1, <1>3 DEF Comes

LEMMA ComesAlike ==
  ASSUME NEW c, NEW m, NEW e, NEW n, NEW w, Comes(c, m, e, n, w),
         NEW d, IsSeq(d), Len(d) = Len(e), Control(d),
         \A i \in 1 .. Len(e) :
           d[i] = e[i] \/ (e[i].k = "script" /\ d[i].k = "script" /\ d[i].l = e[i].l)
  PROVE  Comes(c, m, d, n, w)
<1>1. PICK f : f = m[1] OBVIOUS
<1>2. Control(e) /\ Len(e) \in Nat /\ Len(e) > 0 /\ Rooted(c, e) /\ Stands(e, n, f, w) /\ IsSeq(e)
  BY <1>1 DEF Comes, Control
<1>3. Stands(d, n, f, w)
  <2>1. /\ IsSeq(d) /\ Len(d) = Len(e)
        /\ \A i \in 1 .. Len(e) :
             d[i] = e[i] \/ (e[i].k = "script" /\ d[i].k = "script" /\ d[i].l = e[i].l)
    OBVIOUS
  <2> QED BY ONLY <1>2, <2>1, AlikeStands
<1>4. 1 \in 1 .. Len(e) /\ e[1].k = "java" BY <1>2 DEF Control
<1>5. Rooted(c, d) BY <1>2, <1>4 DEF Rooted
<1> QED BY <1>1, <1>2, <1>3, <1>5 DEF Comes

LEMMA MainIs ==
  ASSUME NEW s, Stacks(s), NEW l \in LuaThread, NEW f
  PROVE  /\ SetFrame(s, l, f)["main"] = IF l = "main" THEN Append(Front(s["main"]), f) ELSE s["main"]
         /\ PushFrame(s, l, f)["main"] = IF l = "main" THEN Append(s["main"], f) ELSE s["main"]
         /\ PopFrame(s, l)["main"] = IF l = "main" THEN Front(s["main"]) ELSE s["main"]
BY DEF Stacks, SetFrame, PushFrame, PopFrame, LuaThread

LEMMA MainOf ==
  ASSUME NEW f
  PROVE  Stacks(stack) =>
           /\ SetFrame(stack, "main", f)["main"] = Append(Front(stack["main"]), f)
           /\ PushFrame(stack, "main", f)["main"] = Append(stack["main"], f)
           /\ PopFrame(stack, "main")["main"] = Front(stack["main"])
BY DEF Stacks, SetFrame, PushFrame, PopFrame, LuaThread

LEMMA TailCoded ==
  ASSUME NEW code, Coded(code), Len(code) > 0
  PROVE  /\ Coded(Tail(code)) /\ Head(code) = code[1]
         /\ code[1].op \in Ops \cup Running /\ code[1].n \in Nat
         /\ code[1].op = "pcall" => IsSeq(code[1].args)
<1>1. IsSeq(code) /\ Len(code) \in Nat BY SeqFacts DEF Coded
<1>2. PICK r : r = Tail(code) OBVIOUS
<1>3. /\ IsSeq(r) /\ Len(r) = Len(code) - 1 /\ Head(code) = code[1]
      /\ \A i \in 1 .. Len(code) - 1 : r[i] = code[i + 1]
  BY <1>1, <1>2, TailFacts
<1>4. 1 \in 1 .. Len(code) /\ \A i \in 1 .. Len(code) - 1 : i + 1 \in 1 .. Len(code) BY <1>1
<1>5. Coded(r) BY <1>3, <1>4 DEF Coded
<1> QED BY <1>2, <1>3, <1>4, <1>5 DEF Coded

\* The Java code on top and its frame
LEMMA ComesTop ==
  ASSUME NEW c, NEW m, NEW e, NEW n, NEW w, Comes(c, m, e, n, w)
  PROVE  /\ IsSeq(n) /\ Framed(n) /\ Len(n) \in Nat /\ Len(n) > 0 /\ Last(n) = n[Len(n)]
         /\ IsSeq(Last(n)) /\ IsSeq(n[1])
         /\ Settled(e[Len(e)], Len(e), Last(n), w)
         /\ Len(e) = 1 => Len(n) = 1
<1>1. PICK f : f = m[1] OBVIOUS
<1>2. Control(e) /\ Len(e) > 0 /\ Stands(e, n, f, w) BY <1>1 DEF Comes
<1>3. /\ IsSeq(n) /\ Len(n) \in Nat /\ Len(n) > 0 /\ Last(n) = n[Len(n)] /\ IsSeq(Last(n))
      /\ IsSeq(n[1])
      /\ Settled(e[Len(e)], Len(e), Last(n), w)
      /\ Len(e) = 1 => Len(n) = 1
  BY ONLY <1>2, TopStands
<1>4. Framed(n) BY <1>2 DEF Stands
<1> QED BY <1>3, <1>4

LEMMA RunsTop ==
  ASSUME NEW t, NEW c, NEW m, Runs(t, c, m)
  PROVE  Settled(c[Len(c)], Len(c), Here, "sits") /\ IsSeq(Here)
<1>1. PICK w : w = "sits" OBVIOUS
<1>2. Comes(c, m, c, m, w)
  <2>1. Comes(c, m, c, m, "sits") BY RunsComes
  <2> QED BY <1>1, <2>1
<1>3. Settled(c[Len(c)], Len(c), Last(m), w) /\ IsSeq(Last(m)) BY ONLY <1>2, ComesTop
<1> QED BY <1>1, <1>3 DEF Runs

\* A native or the end of a pcall changes the Java code on top and its frame.
LEMMA JavaStacked ==
  ASSUME OneEngine, Stacked, Calls, Calls', NEW t, NEW c, NEW m, Runs(t, c, m),
         NEW a, a = c[Len(c)], a.k = "java", NEW b, Alike(a, b), b.sync = a.sync, b.top = a.top,
         ctl' = SetTop(t, b), NEW r, IsSeq(r), stack' = SetFrame(stack, "main", r),
         Settled(b, Len(c), r, "sits"), Len(c) = 1 /\ a.sync => Same(Here, r, a.top)
  PROVE  Stacked'
<1>1. PICK d, q, w : d = Append(Front(c), b) /\ q = Append(Front(m), r) /\ w = "sits" OBVIOUS
<1>2. Comes(c, m, c, m, w)
  <2>1. Comes(c, m, c, m, "sits") BY RunsComes
  <2> QED BY <1>1, <2>1
<1>3. c = ctl[t] /\ m = stack["main"] /\ Here = Last(m) BY DEF Runs
<1>4. Comes(c, m, Append(Front(c), b), Append(Front(m), r), w)
  <2>1. /\ Apart(a) /\ (a.k = "java" => b.sync = a.sync /\ b.top = a.top)
        /\ Settled(b, Len(c), r, w)
        /\ Len(c) = 1 /\ a.sync => Same(Last(m), r, a.top)
    BY <1>1, <1>3 DEF Apart
  <2> QED BY ONLY <1>2, <2>1, a = c[Len(c)], Alike(a, b), IsSeq(r), ComesRetop
<1>5. ctl' = [ctl EXCEPT ![t] = d] BY <1>1, <1>3 DEF SetTop
<1>6. stack'["main"] = q
  <2>1. Stacks(stack) BY DEF Calls, Typed
  <2> QED BY <1>1, <1>3, <2>1, MainOf
<1>7. Comes(c, m, d, q, "sits") BY <1>1, <1>4
<1> QED BY <1>5, <1>6, <1>7, ComesStacked

LEMMA NativeStacked ==
  ASSUME OneEngine, Stacked, Calls, Calls', NEW t \in Thread, Native(t)
  PROVE  Stacked'
<1>1. Busy(t) /\ Top(t).k = "java" /\ CanEnter(t) BY DEF Native, InJava
<1>2. PICK c, m : Runs(t, c, m) BY <1>1, EnterRuns
<1>3. PICK a, f : a = Top(t) /\ f = Here OBVIOUS
<1>4. a = c[Len(c)] /\ a.k = "java" /\ Formed(a) BY <1>1, <1>2, <1>3, BusyFacts DEF Runs
<1>5. PICK b, op : b = [a EXCEPT !.code = Tail(@)] /\ op = Head(a.code) OBVIOUS
<1>6. PICK r : r = Apply(f, op) OBVIOUS
<1>7. /\ ~a.failed /\ a.code # <<>> /\ op.op \notin Running
      /\ ctl' = SetTop(t, b) /\ stack' = SetFrame(stack, "main", r)
  BY <1>3, <1>5, <1>6 DEF Native, Running
<1>8. /\ Alike(a, b) /\ b.sync = a.sync /\ b.top = a.top /\ b.k = "java" /\ Same3(a, b)
      /\ b.code = Tail(a.code) /\ b.did = a.did /\ b.meant = a.meant /\ b.failed = a.failed
      /\ b.ret = a.ret /\ b.spilt = a.spilt
  BY <1>4, <1>5 DEF Formed, Alike, Same3
<1>9. Settled(a, Len(c), f, "sits") /\ IsSeq(f) BY <1>2, <1>3, <1>4, RunsTop
<1>10. Sound(a) /\ (Tracked(a, Len(c)) => Sits(a, f, Len(f))) BY <1>4, <1>9 DEF Settled
<1>11. Coded(a.code) /\ Len(a.code) > 0
  <2>1. Coded(a.code) BY <1>10 DEF Sound
  <2> QED BY <1>7, <2>1, SeqFacts DEF Coded
<1>12. Coded(Tail(a.code)) /\ op = a.code[1] /\ op.op \in Ops /\ op.n \in Nat
  <2>1. PICK code : code = a.code OBVIOUS
  <2>2. /\ Coded(Tail(code)) /\ Head(code) = code[1]
        /\ code[1].op \in Ops \cup Running /\ code[1].n \in Nat
    BY <1>11, <2>1, TailCoded
  <2> QED BY <1>5, <1>7, <2>1, <2>2
<1>13. IsSeq(r) BY <1>6, <1>9, <1>12, ApplySeq
<1>14. Sound(b) BY <1>8, <1>10, <1>12 DEF Sound, Same3
<1>15. Tracked(a, Len(c)) => Sits(b, r, Len(r)) /\ (a.who \notin Clears => Same(f, r, a.top))
  <2>1. ASSUME Tracked(a, Len(c)) PROVE Sits(b, r, Len(r))
               /\ (a.who \notin Clears => Same(f, r, a.top))
    <3>1. /\ Sits(a, f, Len(f)) /\ ~a.failed /\ Len(a.code) > 0 /\ a.code[1].op \notin Running
          /\ r = Apply(f, a.code[1])
      BY <1>6, <1>7, <1>10, <1>11, <1>12, <2>1
    <3> QED BY ONLY <1>8, <3>1, NativeSits
  <2> QED BY <2>1
<1>16. Settled(b, Len(c), r, "sits") BY <1>8, <1>14, <1>15 DEF Settled, Tracked
<1>17. Len(c) = 1 /\ a.sync => Same(Here, r, a.top)
  BY <1>3, <1>10, <1>15 DEF Sound, Tracked, Clears
<1> QED BY <1>2, <1>4, <1>7, <1>8, <1>13, <1>16, <1>17, JavaStacked

LEMMA LoadFailsStacked ==
  ASSUME OneEngine, Stacked, Calls, Calls', NEW t \in Thread, LoadFails(t)
  PROVE  Stacked'
<1>1. Busy(t) /\ Top(t).k = "java" /\ CanEnter(t) BY DEF LoadFails, InJava
<1>2. PICK c, m : Runs(t, c, m) BY <1>1, EnterRuns
<1>3. PICK a, f, e : a = Top(t) /\ f = Here /\ e = Message OBVIOUS
<1>4. a = c[Len(c)] /\ a.k = "java" /\ Formed(a) BY <1>1, <1>2, <1>3, BusyFacts DEF Runs
<1>5. PICK b, r : b = [a EXCEPT !.failed = TRUE] /\ r = Append(f, e) OBVIOUS
<1>7. /\ ~a.failed /\ a.code # <<>> /\ Head(a.code).op \in {"load", "doFile"}
      /\ ctl' = SetTop(t, b) /\ stack' = SetFrame(stack, "main", r)
  BY <1>3, <1>5 DEF LoadFails
<1>8. /\ Alike(a, b) /\ b.sync = a.sync /\ b.top = a.top /\ b.k = "java" /\ Same3(a, b)
      /\ b.code = a.code /\ b.did = a.did /\ b.meant = a.meant /\ b.failed = TRUE
      /\ b.spilt = a.spilt
  BY <1>4, <1>5 DEF Formed, Alike, Same3
<1>9. Settled(a, Len(c), f, "sits") /\ IsSeq(f) BY <1>2, <1>3, <1>4, RunsTop
<1>10. Sound(a) /\ (Tracked(a, Len(c)) => Sits(a, f, Len(f))) BY <1>4, <1>9 DEF Settled
<1>11. Coded(a.code) /\ Len(a.code) > 0 /\ Head(a.code) = a.code[1]
  <2>1. Coded(a.code) BY <1>10 DEF Sound
  <2>2. Len(a.code) > 0 BY <1>7, <2>1, SeqFacts DEF Coded
  <2> QED BY <2>1, <2>2, TailCoded
<1>13. IsSeq(r) BY <1>5, <1>9, AppendFacts
<1>14. Sound(b) BY <1>8, <1>10 DEF Sound, Same3
<1>15. Tracked(a, Len(c)) => Sits(b, r, Len(r)) /\ (a.who \notin Clears => Same(f, r, a.top))
  <2>1. ASSUME Tracked(a, Len(c)) PROVE Sits(b, r, Len(r))
               /\ (a.who \notin Clears => Same(f, r, a.top))
    <3>1. Sits(a, f, Len(f)) /\ ~a.failed /\ Len(a.code) > 0 /\ a.code[1].op \in {"load", "doFile"}
      BY <1>7, <1>10, <1>11, <2>1
    <3>2. Halts(a, f) BY ONLY <3>1, LoadHalts
    <3> QED BY ONLY <1>5, <1>8, <3>2, HaltSits
  <2> QED BY <2>1
<1>16. Settled(b, Len(c), r, "sits") BY <1>8, <1>14, <1>15 DEF Settled, Tracked
<1>17. Len(c) = 1 /\ a.sync => Same(Here, r, a.top)
  BY <1>3, <1>10, <1>15 DEF Sound, Tracked, Clears
<1> QED BY <1>2, <1>4, <1>7, <1>8, <1>13, <1>16, <1>17, JavaStacked

LEMMA Refront ==
  ASSUME NEW s, IsSeq(s), Len(s) > 0
  PROVE  Append(Front(s), Last(s)) = s
<1>1. PICK v, r : v = Last(s) /\ r = Append(Front(s), v) OBVIOUS
<1>2. Len(s) \in Nat BY SeqFacts
<1>3. IsSeq(r) /\ Len(r) = Len(s) /\ (\A i \in 1 .. Len(s) - 1 : r[i] = s[i]) /\ r[Len(s)] = v
  BY <1>1, RetopFacts
<1>4. v = s[Len(s)] BY <1>1 DEF Last
<1>5. \A i \in 1 .. Len(r) : i = Len(s) \/ i \in 1 .. Len(s) - 1 BY <1>2, <1>3
<1>6. \A i \in 1 .. Len(r) : r[i] = s[i] BY <1>3, <1>4, <1>5
<1> QED BY <1>1, <1>3, <1>6, SameSeq

\* Java code a that has pushed what it needs goes on as b and enters a script by a pcall for n
\* results, below is left on its frame.
Enters(t, c, m, a, b, below, n) ==
  /\ Runs(t, c, m) /\ a = c[Len(c)] /\ a.k = "java"
  /\ Alike(a, b) /\ Formed(b) /\ b.sync = a.sync /\ b.top = a.top /\ b.k = "java"
  /\ IsSeq(below) /\ Settled(b, Len(c), below, "waits")
  /\ Len(c) = 1 /\ a.sync => Same(Here, below, a.top)
  /\ Tracked(b, Len(c)) => n = b.nres
  /\ ctl' = [ctl EXCEPT ![t] = Append(Front(@), b) \o
                <<[k |-> "pcall", frames |-> Len(m), nres |-> n], Script("main")>>]
  /\ stack'["main"] = Append(Front(m), below)

LEMMA EnterStacked ==
  ASSUME OneEngine, Stacked, Calls, Calls', NEW t, NEW c, NEW m, NEW a, NEW b, NEW below, NEW n,
         Enters(t, c, m, a, b, below, n)
  PROVE  Stacked'
<1>a. /\ Runs(t, c, m) /\ a = c[Len(c)] /\ a.k = "java"
      /\ Alike(a, b) /\ Formed(b) /\ b.sync = a.sync /\ b.top = a.top /\ b.k = "java"
      /\ IsSeq(below) /\ Settled(b, Len(c), below, "waits")
      /\ Len(c) = 1 /\ a.sync => Same(Here, below, a.top)
      /\ Tracked(b, Len(c)) => n = b.nres
      /\ stack'["main"] = Append(Front(m), below)
  BY DEF Enters
<1>b. PICK pc, s : pc = [k |-> "pcall", frames |-> Len(m), nres |-> n] /\ s = Script("main") OBVIOUS
<1>c. ctl' = [ctl EXCEPT ![t] = Append(Front(@), b) \o <<pc, s>>] BY <1>b DEF Enters
<1> USE <1>a, <1>b, <1>c
<1>0. c = ctl[t] /\ m = stack["main"] /\ Here = Last(m) /\ t \in Thread BY DEF Runs
<1>1. PICK d, q, w : d = Append(Front(c), b) /\ q = Append(Front(m), below) /\ w = "waits" OBVIOUS
<1>2. PICK v : v = "sits" /\ Comes(c, m, c, m, v)
  <2>1. Comes(c, m, c, m, "sits") BY RunsComes
  <2> QED BY <2>1
<1>3. Comes(c, m, d, q, w) /\ Len(d) = Len(c) /\ d[Len(d)] = b
  <2>1. /\ Apart(a) /\ (a.k = "java" => b.sync = a.sync /\ b.top = a.top)
        /\ Settled(b, Len(c), below, w)
        /\ Len(c) = 1 /\ a.sync => Same(Last(m), below, a.top)
    BY <1>0, <1>1 DEF Apart
  <2>2. Comes(c, m, Append(Front(c), b), Append(Front(m), below), w)
    <3>1. Comes(c, m, c, m, v) BY <1>2
    <3>2. Apart(a) BY <2>1
    <3>3. a.k = "java" => b.sync = a.sync /\ b.top = a.top BY <2>1
    <3>4. Settled(b, Len(c), below, w) BY <2>1
    <3>5. Len(c) = 1 /\ a.sync => Same(Last(m), below, a.top) BY <2>1
    <3> QED BY ONLY <1>a, <3>1, <3>2, <3>3, <3>4, <3>5, ComesRetop
  <2>3. Len(Append(Front(c), b)) = Len(c) /\ Append(Front(c), b)[Len(c)] = b
    <3>1. Control(c) /\ Len(c) \in Nat /\ Len(c) > 0 BY <1>2 DEF Comes
    <3>2. IsSeq(c) BY <3>1 DEF Control
    <3>3. IsSeq(Front(c)) /\ Len(Front(c)) = Len(c) - 1 BY <3>1, <3>2, FrontFacts
    <3> QED BY <3>1, <3>3, AppendFacts
  <2> QED BY <1>1, <2>2, <2>3
<1>4. Framed(q) /\ Len(q) \in Nat /\ Len(q) = Len(m)
  <2>1. Framed(q) /\ Len(q) \in Nat BY ONLY <1>3, ComesTop
  <2>2. IsSeq(m) /\ Len(m) > 0 BY DEF Runs
  <2>3. Len(q) = Len(m) BY <1>1, <2>2, RetopFacts
  <2> QED BY <2>1, <2>3
<1>5. PICK e1 : e1 = Append(d, pc) OBVIOUS
<1>6. Comes(c, m, e1, q, w) /\ e1[Len(e1)] = pc
  <2>1. /\ pc.k = "pcall" /\ Formed(pc) /\ Rise(pc) = 0 /\ pc.frames = Len(m) /\ pc.nres = n
    BY <1>4 DEF Formed, Rise
  <2>2. Fits(d[Len(d)], pc) BY <1>3, <2>1 DEF Fits
  <2>3. Len(q) = Len(q) + Rise(pc) /\ \A i \in 1 .. Len(q) : q[i] = q[i] BY <1>4, <2>1
  <2>4. Settled(pc, Len(d) + 1, q[Len(q)], w) BY <2>1 DEF Settled
  <2>5. /\ pc.frames = Len(q)
        /\ Tracked(d[Len(d)], Len(d)) => pc.nres = d[Len(d)].nres
    BY <1>3, <1>4, <2>1
  <2>6. d[Len(d)].k # "java" \/ w = "waits" BY <1>1
  <2>7. /\ Comes(c, m, Append(d, pc), q, w)
        /\ Len(Append(d, pc)) = Len(d) + 1
        /\ Append(d, pc)[Len(d) + 1] = pc
    BY ONLY <1>3, <1>4, <2>1, <2>2, <2>3, <2>4, <2>5, <2>6, ComesPush
  <2> QED BY <1>5, <2>7
<1>7. PICK e2 : e2 = Append(e1, s) OBVIOUS
<1>8. Comes(c, m, e2, q, v)
  <2>1. s.k = "script" /\ Rise(s) = 0 /\ Formed(s) /\ pc.k = "pcall" /\ s.l = "main"
    <3>1. <<>> \in Seq(Looked) BY EmptySeq
    <3> QED BY <3>1 DEF Rise, Formed, Script
  <2>2. Fits(e1[Len(e1)], s) /\ e1[Len(e1)].k # "java" BY <1>6, <2>1 DEF Fits
  <2>3. Len(q) = Len(q) + Rise(s) /\ \A i \in 1 .. Len(q) : q[i] = q[i] BY <1>4, <2>1
  <2>4. Settled(s, Len(e1) + 1, q[Len(q)], v) BY <2>1 DEF Settled
  <2>5. s.k = "pcall" => /\ s.frames = Len(q)
                         /\ Tracked(e1[Len(e1)], Len(e1)) => s.nres = e1[Len(e1)].nres
    BY <2>1
  <2>6. e1[Len(e1)].k # "java" \/ w = "waits" BY <1>1
  <2>7. Comes(c, m, Append(e1, s), q, v)
    BY ONLY <1>4, <1>6, <2>1, <2>2, <2>3, <2>4, <2>5, <2>6, ComesPush
  <2> QED BY <1>7, <2>7
<1>9. ctl' = [ctl EXCEPT ![t] = e2]
  <2>1. IsSeq(d) BY <1>3 DEF Comes, Control
  <2>2. d \o <<pc, s>> = Append(Append(d, pc), s) BY <2>1, CatFacts
  <2>3. e2 = d \o <<pc, s>> BY <1>5, <1>7, <2>2
  <2> QED BY <1>0, <1>1, <2>3
<1>10. stack'["main"] = q BY <1>1
<1>11. Comes(c, m, e2, q, "sits") BY <1>2, <1>8
<1> QED BY <1>9, <1>10, <1>11, ComesStacked

LEMMA NativeDoFileStacked ==
  ASSUME OneEngine, Stacked, Calls, Calls', NEW t \in Thread, NativeDoFile(t)
  PROVE  Stacked'
<1>1. Busy(t) /\ Top(t).k = "java" /\ CanEnter(t) BY DEF NativeDoFile, InJava
<1>2. PICK c, m : Runs(t, c, m) BY <1>1, EnterRuns
<1>3. PICK a, f, op : a = Top(t) /\ f = Here /\ op = Head(a.code) OBVIOUS
<1>4. a = c[Len(c)] /\ a.k = "java" /\ Formed(a) /\ c = ctl[t] /\ m = stack["main"] /\ f = Last(m)
      /\ IsSeq(m) /\ Len(m) > 0
  BY <1>1, <1>2, <1>3, BusyFacts DEF Runs
<1>5. PICK b, pc, s :
        /\ b = [a EXCEPT !.code = Tail(@)]
        /\ pc = [k |-> "pcall", frames |-> Len(m), nres |-> op.n] /\ s = Script("main")
  OBVIOUS
<1>6. /\ ~a.failed /\ a.code # <<>> /\ op.op = "doFile" /\ stack' = stack
      /\ ctl' = [ctl EXCEPT ![t] = Append(Front(@), b) \o <<pc, s>>]
  BY <1>3, <1>4, <1>5 DEF NativeDoFile
<1>7. Settled(a, Len(c), f, "sits") /\ IsSeq(f) BY <1>2, <1>3, <1>4, RunsTop
<1>8. Sound(a) /\ (Tracked(a, Len(c)) => Sits(a, f, Len(f))) BY <1>4, <1>7 DEF Settled
<1>9. Coded(a.code) /\ Len(a.code) > 0
  <2>1. Coded(a.code) BY <1>8 DEF Sound
  <2> QED BY <1>6, <2>1, SeqFacts DEF Coded
<1>10. Coded(Tail(a.code)) /\ op = a.code[1] /\ op.n \in Nat
  <2>1. PICK code : code = a.code OBVIOUS
  <2>2. Coded(Tail(code)) /\ Head(code) = code[1] /\ code[1].n \in Nat
    BY <1>9, <2>1, TailCoded
  <2> QED BY <1>3, <2>1, <2>2
<1>11. /\ Alike(a, b) /\ b.sync = a.sync /\ b.top = a.top /\ b.k = "java" /\ Same3(a, b)
       /\ b.code = Tail(a.code) /\ b.did = a.did /\ b.meant = a.meant /\ b.failed = a.failed
       /\ b.spilt = a.spilt /\ Formed(b)
  BY <1>4, <1>5 DEF Formed, Alike, Same3
<1>12. Sound(b) BY <1>8, <1>10, <1>11 DEF Sound, Same3
<1>13. ASSUME Tracked(a, Len(c)) PROVE Waits(b, f) /\ op.n = b.nres
  <2>1. Sits(a, f, Len(f)) /\ ~a.failed /\ Len(a.code) > 0 /\ a.code[1].op = "doFile"
    BY <1>6, <1>8, <1>9, <1>10, <1>13
  <2>2. Waits(b, f) /\ a.code[1].n = a.nres BY ONLY <1>11, <2>1, DoFileWaits
  <2> QED BY <1>10, <1>11, <2>2 DEF Same3
<1>14. Settled(b, Len(c), f, "waits") BY <1>11, <1>12, <1>13 DEF Settled, Tracked
<1>15. Len(c) = 1 /\ a.sync => Same(Here, f, a.top)
  <2>1. ASSUME Len(c) = 1, a.sync PROVE Same(Here, f, a.top)
    <3>1. Tracked(a, Len(c)) /\ a.who \in {"call", "register"} BY <1>8, <2>1 DEF Tracked, Sound
    <3>2. PICK g, o : Path(a.who, a.nres, a.code, o) BY <1>8, <3>1 DEF Sits, Ready
    <3>3. 1 \in 1 .. Len(a.code) BY <1>9, SeqFacts DEF Coded
    <3>4. a.who \in Clears BY <1>6, <1>10, <3>2, <3>3 DEF Path
    <3> QED BY <3>1, <3>4 DEF Clears
  <2> QED BY <2>1
<1>16. stack'["main"] = Append(Front(m), f) BY <1>4, <1>6, Refront
<1>17. PICK n : n = op.n OBVIOUS
<1>18. Tracked(b, Len(c)) => n = b.nres BY <1>11, <1>13, <1>17 DEF Tracked
<1>19. pc = [k |-> "pcall", frames |-> Len(m), nres |-> n] /\ s = Script("main") BY <1>5, <1>17
<1>20. ctl' = [ctl EXCEPT ![t] = Append(Front(@), b) \o
                  <<[k |-> "pcall", frames |-> Len(m), nres |-> n], Script("main")>>]
  BY <1>6, <1>19
<1>21. Enters(t, c, m, a, b, f, n)
  BY <1>2, <1>4, <1>7, <1>11, <1>14, <1>15, <1>16, <1>18, <1>20 DEF Enters
<1> QED BY <1>21, EnterStacked

LEMMA NativePCallStacked ==
  ASSUME OneEngine, Stacked, Calls, Calls', NEW t \in Thread, NativePCall(t)
  PROVE  Stacked'
<1>1. Busy(t) /\ Top(t).k = "java" /\ CanEnter(t) BY DEF NativePCall, InJava
<1>2. PICK c, m : Runs(t, c, m) BY <1>1, EnterRuns
<1>3. PICK a, f, e, op : a = Top(t) /\ f = Here /\ e = Message /\ op = Head(a.code)
  OBVIOUS
<1>4. a = c[Len(c)] /\ a.k = "java" /\ Formed(a) /\ c = ctl[t] /\ m = stack["main"]
  BY <1>1, <1>2, <1>3, BusyFacts DEF Runs
<1>5. PICK k : k = Len(f) - Len(op.args) OBVIOUS
<1>6. PICK j, fn, did, meant :
        /\ j = (IF k >= 1 THEN k - 1 ELSE 0) /\ fn = (IF k >= 1 THEN f[k] ELSE Nil)
        /\ did = (IF k >= 1 THEN SubSeq(f, k, Len(f)) ELSE <<>>) /\ meant = <<op.fn>> \o op.args
  OBVIOUS
<1>7. PICK b, below, pc, s :
        /\ b = [a EXCEPT !.code = Tail(@), !.meant = meant, !.did = did]
        /\ below = SubSeq(f, 1, j)
        /\ pc = [k |-> "pcall", frames |-> Len(m), nres |-> op.n] /\ s = Script("main")
  OBVIOUS
<1>8. /\ ~a.failed /\ a.code # <<>> /\ op.op = "pcall"
      /\ IF fn.t = "function"
         THEN /\ ctl' = [ctl EXCEPT ![t] = Append(Front(@), b) \o <<pc, s>>]
              /\ stack' = SetFrame(stack, "main", below)
         ELSE /\ ctl' = SetTop(t, [b EXCEPT !.failed = TRUE])
              /\ stack' = SetFrame(stack, "main", Append(below, e))
  BY <1>3, <1>4, <1>5, <1>6, <1>7 DEF NativePCall
<1>9. Settled(a, Len(c), f, "sits") /\ IsSeq(f) BY <1>2, <1>3, <1>4, RunsTop
<1>10. Sound(a) /\ (Tracked(a, Len(c)) => Sits(a, f, Len(f))) BY <1>4, <1>9 DEF Settled
<1>11. Coded(a.code) /\ Len(a.code) > 0
  <2>1. Coded(a.code) BY <1>10 DEF Sound
  <2> QED BY <1>8, <2>1, SeqFacts DEF Coded
<1>12. Coded(Tail(a.code)) /\ op = a.code[1] /\ op.n \in Nat /\ IsSeq(op.args)
  <2>1. PICK code : code = a.code OBVIOUS
  <2>2. /\ Coded(Tail(code)) /\ Head(code) = code[1] /\ code[1].n \in Nat
        /\ code[1].op = "pcall" => IsSeq(code[1].args)
    BY <1>11, <2>1, TailCoded
  <2> QED BY <1>3, <1>8, <2>1, <2>2
<1>13. k \in Int /\ j \in Nat
  <2>1. Len(f) \in Nat /\ Len(op.args) \in Nat BY <1>9, <1>12, SeqFacts
  <2> QED BY <1>5, <1>6, <2>1
<1>14. IsSeq(below)
  <2>1. j \in Int BY <1>13
  <2> QED BY <1>7, <2>1, CutFacts
<1>15. /\ Alike(a, b) /\ b.sync = a.sync /\ b.top = a.top /\ b.k = "java" /\ Same3(a, b)
       /\ b.code = Tail(a.code) /\ b.did = did /\ b.meant = meant /\ b.failed = a.failed
       /\ b.spilt = a.spilt /\ Formed(b)
  BY <1>4, <1>7 DEF Formed, Alike, Same3
<1>16. Sound(b) BY <1>10, <1>12, <1>15 DEF Sound, Same3
<1>17. ASSUME Tracked(a, Len(c))
       PROVE  /\ Waits(b, below) /\ op.n = b.nres
              /\ a.who \notin Clears => Same(f, below, a.top)
  <2>1. /\ Sits(a, f, Len(f)) /\ ~a.failed /\ Len(a.code) > 0 /\ a.code[1].op = "pcall"
        /\ k = Len(f) - Len(a.code[1].args)
    BY <1>5, <1>8, <1>10, <1>11, <1>12, <1>17
  <2>2. PICK b0 : b0 = [a EXCEPT !.code = Tail(@), !.meant = meant, !.did = meant] OBVIOUS
  <2>3. /\ Same3(a, b0) /\ b0.code = Tail(a.code) /\ b0.did = b0.meant /\ b0.failed = a.failed
    BY <1>4, <2>2 DEF Formed, Same3
  <2>4. /\ k \in Nat /\ k >= 1 /\ a.code[1].n = a.nres
        /\ SubSeq(f, k, Len(f)) = <<a.code[1].fn>> \o a.code[1].args
    BY ONLY <2>1, <2>3, PCallWaits
  <2>5. did = meant /\ j = k - 1 BY <1>6, <1>12, <2>4
  <2>6. b.did = b.meant BY <1>15, <2>5
  <2>7. Waits(b, SubSeq(f, 1, k - 1))
        /\ (a.who \notin Clears => Same(f, SubSeq(f, 1, k - 1), a.top))
    BY ONLY <1>15, <2>1, <2>6, PCallWaits
  <2> QED BY <1>7, <1>12, <1>15, <2>4, <2>5, <2>7 DEF Same3
<1>18. Settled(b, Len(c), below, "waits") BY <1>15, <1>16, <1>17 DEF Settled, Tracked
<1>19. Len(c) = 1 /\ a.sync => Same(f, below, a.top)
  BY <1>10, <1>17 DEF Sound, Tracked, Clears
<1>20. CASE fn.t = "function"
  <2>1. stack'["main"] = Append(Front(m), below)
    <3>1. Stacks(stack) BY DEF Calls, Typed
    <3>2. stack' = SetFrame(stack, "main", below) BY <1>8, <1>20
    <3> QED BY <1>4, <3>1, <3>2, MainOf
  <2>2. ctl' = [ctl EXCEPT ![t] = Append(Front(@), b) \o <<pc, s>>] BY <1>8, <1>20
  <2>3. Tracked(b, Len(c)) => op.n = b.nres BY <1>15, <1>17 DEF Tracked
  <2>4. Len(c) = 1 /\ a.sync => Same(Here, below, a.top) BY <1>3, <1>19
  <2>5. PICK n : n = op.n OBVIOUS
  <2>6. pc = [k |-> "pcall", frames |-> Len(m), nres |-> n] /\ s = Script("main") BY <1>7, <2>5
  <2>7. Tracked(b, Len(c)) => n = b.nres BY <2>3, <2>5
  <2>8. ctl' = [ctl EXCEPT ![t] = Append(Front(@), b) \o
                   <<[k |-> "pcall", frames |-> Len(m), nres |-> n], Script("main")>>]
    BY <2>2, <2>6
  <2>9. Enters(t, c, m, a, b, below, n)
    BY <1>2, <1>4, <1>14, <1>15, <1>18, <2>1, <2>4, <2>7, <2>8 DEF Enters
  <2> QED BY <2>9, EnterStacked
<1>21. CASE fn.t # "function"
  <2>1. PICK b2, r : b2 = [b EXCEPT !.failed = TRUE] /\ r = Append(below, e) OBVIOUS
  <2>2. ctl' = SetTop(t, b2) /\ stack' = SetFrame(stack, "main", r) BY <1>8, <1>21, <2>1
  <2>3. /\ Alike(b, b2) /\ b2.sync = b.sync /\ b2.top = b.top /\ b2.k = "java" /\ Same3(b, b2)
        /\ b2.code = b.code /\ b2.did = b.did /\ b2.meant = b.meant /\ b2.failed = TRUE
        /\ b2.spilt = b.spilt
    BY <1>15, <2>1 DEF Formed, Alike, Same3
  <2>4. Alike(a, b2) /\ b2.sync = a.sync /\ b2.top = a.top BY <1>4, <1>15, <2>3 DEF Alike
  <2>5. IsSeq(r) BY <1>14, <2>1, AppendFacts
  <2>6. Sound(b2) BY <1>16, <2>3 DEF Sound, Same3
  <2>7. ASSUME Tracked(a, Len(c))
        PROVE  Sits(b2, r, Len(r)) /\ (a.who \notin Clears => Same(f, r, a.top))
    <3>1. Waits(b, below) BY <1>17, <2>7
    <3>2. Sits(b2, r, Len(r)) /\ (b.who \notin Clears => Same(below, r, b.top))
      BY ONLY <2>1, <2>3, <3>1, FailSits
    <3>3. a.who \notin Clears => Same(f, below, a.top) /\ Same(below, r, a.top)
      BY <1>15, <1>17, <2>7, <3>2 DEF Same3
    <3>4. PICK x : x = a.top OBVIOUS
    <3>5. x \in Nat BY <1>10, <3>4 DEF Sound
    <3>6. a.who \notin Clears => Same(f, r, x)
      <4>1. ASSUME a.who \notin Clears PROVE Same(f, r, x)
        <5>1. Same(f, below, x) /\ Same(below, r, x) BY <3>3, <3>4, <4>1
        <5> QED BY ONLY <3>5, <5>1, SameTrans
      <4> QED BY <4>1
    <3> QED BY <3>2, <3>4, <3>6
  <2>8. Settled(b2, Len(c), r, "sits") BY <1>15, <2>3, <2>6, <2>7 DEF Settled, Tracked
  <2>9. Len(c) = 1 /\ a.sync => Same(Here, r, a.top)
    BY <1>3, <1>10, <2>7 DEF Sound, Tracked, Clears
  <2> QED BY <1>2, <1>4, <2>2, <2>4, <2>5, <2>8, <2>9, JavaStacked
<1> QED BY <1>20, <1>21

\* The script on top of e ends: the pcall or the resume under it is left.
Caught(e, catch, j, below) ==
  catch = e[Len(e) - 1] /\ j = e[Len(e) - 2] /\ below = SubSeq(e, 1, Len(e) - 2)

LEMMA CatchComes ==
  ASSUME NEW c, NEW m, NEW e, NEW n, NEW w, Comes(c, m, e, n, w), e[Len(e)].k = "script",
         NEW catch, NEW j, NEW below, Caught(e, catch, j, below)
  PROVE  /\ Len(below) \in Nat /\ Len(below) > 0 /\ below[Len(below)] = j /\ Formed(j)
         /\ catch.k \in {"pcall", "resume"}
         /\ catch.k = "pcall" =>
              /\ Comes(c, m, below, n, "waits") /\ j.k = "java" /\ catch.frames = Len(n)
              /\ Tracked(j, Len(below)) => catch.nres = j.nres
         /\ catch.k = "resume" => Comes(c, m, below, Front(n), "sits") /\ j.k = "script"
<1>0. catch = e[Len(e) - 1] /\ j = e[Len(e) - 2] /\ below = SubSeq(e, 1, Len(e) - 2)
  BY DEF Caught
<1>1. Control(e) /\ Len(e) \in Nat /\ Len(e) > 0 BY DEF Comes
<1>2. /\ Len(e) >= 3 /\ catch.k \in {"pcall", "resume"}
      /\ catch.k = "pcall" => j.k = "java"
      /\ catch.k = "resume" => j.k = "script"
  BY <1>0, <1>1, ScriptBase
<1>3. PICK x, y : x = Len(e) - 1 /\ y = Len(e) - 2 OBVIOUS
<1>4. x \in Nat /\ y \in Nat /\ x - 1 = y /\ y > 0 /\ x > 1 /\ Len(e) > 1 /\ x \in 1 .. x
      /\ y \in 1 .. y /\ y \in 1 .. x /\ y \in 0 .. Len(e) /\ y \in 1 .. Len(e)
  BY <1>1, <1>2, <1>3
<1>5. PICK e1 : e1 = SubSeq(e, 1, Len(e) - 1) OBVIOUS
<1>6. Comes(c, m, e1, n, "waits") /\ Len(e1) = x /\ \A i \in 1 .. x : e1[i] = e[i]
  <2>1. Rise(e[Len(e)]) = 0 /\ n = n BY DEF Rise
  <2>2. /\ Comes(c, m, SubSeq(e, 1, Len(e) - 1), n, "waits")
        /\ Len(SubSeq(e, 1, Len(e) - 1)) = Len(e) - 1
        /\ \A i \in 1 .. Len(e) - 1 : SubSeq(e, 1, Len(e) - 1)[i] = e[i]
    BY ONLY <1>4, <2>1, Comes(c, m, e, n, w), ComesCut
  <2> QED BY <1>3, <1>5, <2>2
<1>7. e1[x] = catch /\ e1[y] = j BY <1>0, <1>3, <1>4, <1>6
<1>8. PICK e2 : e2 = SubSeq(e1, 1, x - 1) OBVIOUS
<1>9. ASSUME NEW q, \/ Rise(catch) = 0 /\ q = n
                    \/ Rise(catch) = 1 /\ q = Front(n)
      PROVE  Comes(c, m, e2, q, "waits") /\ Len(e2) = y /\ \A i \in 1 .. y : e2[i] = e[i]
  <2>1. PICK v : v = "waits" OBVIOUS
  <2>2. /\ Comes(c, m, e1, n, v) /\ Len(e1) > 1
        /\ \/ Rise(e1[Len(e1)]) = 0 /\ q = n
           \/ Rise(e1[Len(e1)]) = 1 /\ q = Front(n)
    BY <1>4, <1>6, <1>7, <1>9, <2>1
  <2>3. /\ Comes(c, m, SubSeq(e1, 1, Len(e1) - 1), q, "waits")
        /\ Len(SubSeq(e1, 1, Len(e1) - 1)) = Len(e1) - 1
        /\ \A i \in 1 .. Len(e1) - 1 : SubSeq(e1, 1, Len(e1) - 1)[i] = e1[i]
    BY ONLY <2>2, ComesCut
  <2>4. \A i \in 1 .. y : i \in 1 .. x BY <1>4
  <2> QED BY <1>4, <1>6, <1>8, <2>3, <2>4
<1>10. Len(below) = y /\ IsSeq(below) /\ \A i \in 1 .. y : below[i] = e[i]
  <2>1. below = SubSeq(e, 1, y) BY <1>0, <1>3
  <2>2. /\ Control(SubSeq(e, 1, y)) /\ Len(SubSeq(e, 1, y)) = y
        /\ \A i \in 1 .. y : SubSeq(e, 1, y)[i] = e[i]
    BY <1>1, <1>4, CutControl
  <2> QED BY <2>1, <2>2 DEF Control
<1>11. Formed(j) BY <1>0, <1>1, <1>3, <1>4 DEF Control
<1>12. ASSUME catch.k = "pcall"
       PROVE  /\ Comes(c, m, below, n, "waits") /\ catch.frames = Len(n)
              /\ Tracked(j, Len(below)) => catch.nres = j.nres
  <2>1. Rise(catch) = 0 /\ n = n BY <1>12 DEF Rise
  <2>2. Comes(c, m, e2, n, "waits") /\ Len(e2) = y /\ \A i \in 1 .. y : e2[i] = e[i] BY <1>9, <2>1
  <2>3. IsSeq(e2) BY <2>2 DEF Comes, Control
  <2>4. below = e2 BY <1>10, <2>2, <2>3, SameSeq
  <2>5. PICK lv : Len(n) = lv[x] /\ Part(e1, n, lv, x, "waits")
    <3>1. Stands(e1, n, m[1], "waits") BY <1>6 DEF Comes
    <3> QED BY <1>4, <1>6, <3>1 DEF Stands
  <2>6. catch.frames = Len(n) /\ (Tracked(j, y) => catch.nres = j.nres)
    BY <1>4, <1>7, <1>12, <2>5 DEF Part
  <2> QED BY <1>10, <2>2, <2>4, <2>6
<1>13. ASSUME catch.k = "resume" PROVE Comes(c, m, below, Front(n), "sits")
  <2>1. PICK q : q = Front(n) OBVIOUS
  <2>2. Rise(catch) = 1 BY <1>13 DEF Rise
  <2>3. Comes(c, m, e2, q, "waits") /\ Len(e2) = y /\ \A i \in 1 .. y : e2[i] = e[i]
    BY <1>9, <2>1, <2>2
  <2>4. IsSeq(e2) BY <2>3 DEF Comes, Control
  <2>5. below = e2 BY <1>10, <2>3, <2>4, SameSeq
  <2>6. PICK v : v = "waits" OBVIOUS
  <2>7. Comes(c, m, below, q, v) BY <2>3, <2>5, <2>6
  <2>8. below[Len(below)].k # "java" BY <1>0, <1>2, <1>3, <1>4, <1>10, <1>13
  <2>9. PICK z : z = "sits" OBVIOUS
  <2>10. Comes(c, m, below, q, z) BY ONLY <2>7, <2>8, ComesAwake
  <2> QED BY <2>1, <2>9, <2>10
<1>14. below[Len(below)] = j BY <1>0, <1>3, <1>4, <1>10
<1> QED BY <1>2, <1>4, <1>10, <1>11, <1>12, <1>13, <1>14

\* The pcall of j returns, with a result or an error: b and r.
LEMMA BackComes ==
  ASSUME NEW c, NEW m, NEW e, NEW n, Comes(c, m, e, n, "waits"),
         NEW j, j = e[Len(e)], j.k = "java",
         NEW b, Alike(j, b), b.sync = j.sync, Same3(j, b), b.code = j.code, b.spilt = j.spilt,
         NEW r, IsSeq(r),
         Tracked(j, Len(e)) /\ Waits(j, Last(n)) =>
           Sits(b, r, Len(r)) /\ (j.who \notin Clears => Same(Last(n), r, j.top))
  PROVE  Comes(c, m, Append(Front(e), b), Append(Front(n), r), "sits")
<1>1. PICK v, w : v = "waits" /\ w = "sits" OBVIOUS
<1>2. Comes(c, m, e, n, v) BY <1>1
<1>3. Settled(e[Len(e)], Len(e), Last(n), v) BY ONLY <1>2, ComesTop
<1>4. Sound(j) /\ (Tracked(j, Len(e)) => Waits(j, Last(n))) BY <1>1, <1>3 DEF Settled
<1>5. b.k = "java" /\ Sound(b) BY <1>4 DEF Sound, Same3, Alike
<1>6. Settled(b, Len(e), r, w) BY <1>1, <1>4, <1>5 DEF Settled, Tracked
<1>7. Len(e) = 1 /\ j.sync => Same(Last(n), r, j.top) BY <1>4 DEF Sound, Tracked, Clears
<1>8. Apart(j) /\ (j.k = "java" => b.sync = j.sync /\ b.top = j.top) BY DEF Apart, Same3
<1>9. j = e[Len(e)] /\ Alike(j, b) /\ IsSeq(r) OBVIOUS
<1>10. Comes(c, m, Append(Front(e), b), Append(Front(n), r), w)
  BY ONLY <1>2, <1>6, <1>7, <1>8, <1>9, ComesRetop
<1> QED BY <1>1, <1>10

\* An error ends the script on top of e.
LEMMA FailStacked ==
  ASSUME OneEngine, Stacked, Calls, Calls', NEW t, NEW c, NEW m, Runs(t, c, m),
         NEW e, NEW n, NEW w, Comes(c, m, e, n, w), e[Len(e)].k = "script",
         NEW s, Stacks(s), s["main"] = n, NEW v, Fail(t, e, s, v)
  PROVE  Stacked'
<1>1. PICK catch, j, below : /\ catch = e[Len(e) - 1] /\ j = e[Len(e) - 2]
                             /\ below = SubSeq(e, 1, Len(e) - 2)
  OBVIOUS
<1>2. /\ Len(below) \in Nat /\ Len(below) > 0 /\ below[Len(below)] = j /\ Formed(j)
      /\ catch.k \in {"pcall", "resume"}
      /\ catch.k = "pcall" =>
           /\ Comes(c, m, below, n, "waits") /\ j.k = "java" /\ catch.frames = Len(n)
           /\ Tracked(j, Len(below)) => catch.nres = j.nres
      /\ catch.k = "resume" => Comes(c, m, below, Front(n), "sits") /\ j.k = "script"
  <2>1. Caught(e, catch, j, below) BY <1>1 DEF Caught
  <2> QED BY ONLY Comes(c, m, e, n, w), e[Len(e)].k = "script", <2>1, CatchComes
<1>3. /\ IsSeq(n) /\ Len(n) \in Nat /\ Len(n) > 0 /\ Last(n) = n[Len(n)] /\ IsSeq(Last(n))
  BY ONLY Comes(c, m, e, n, w), ComesTop
<1>4. Last(below) = j BY <1>2 DEF Last
<1>5. CASE catch.k = "pcall"
  <2>1. PICK b, r : b = [j EXCEPT !.failed = TRUE] /\ r = Append(Last(n), v) OBVIOUS
  <2>2. /\ Alike(j, b) /\ b.sync = j.sync /\ Same3(j, b) /\ b.code = j.code /\ b.spilt = j.spilt
        /\ b.did = j.did /\ b.meant = j.meant /\ b.failed = TRUE
    BY <1>2, <1>5, <2>1 DEF Formed, Alike, Same3
  <2>3. IsSeq(r) BY <1>3, <2>1, AppendFacts
  <2>4. ASSUME Waits(j, Last(n))
        PROVE  Sits(b, r, Len(r)) /\ (j.who \notin Clears => Same(Last(n), r, j.top))
    <3>1. PICK f : f = Last(n) OBVIOUS
    <3>2. Waits(j, f) /\ r = Append(f, v) BY <2>1, <2>4, <3>1
    <3>3. Sits(b, r, Len(r)) /\ (j.who \notin Clears => Same(f, r, j.top))
      BY ONLY <2>2, <3>2, FailSits
    <3> QED BY <3>1, <3>3
  <2>5. PICK d, q : d = Append(Front(below), b) /\ q = Append(Front(n), r) OBVIOUS
  <2>6. Comes(c, m, d, q, "sits")
    <3>1. j = below[Len(below)] /\ j.k = "java" /\ Comes(c, m, below, n, "waits") BY <1>2, <1>5
    <3>2. Comes(c, m, Append(Front(below), b), Append(Front(n), r), "sits")
      BY ONLY <2>2, <2>3, <2>4, <3>1, BackComes
    <3> QED BY <2>5, <3>2
  <2>7. ctl' = [ctl EXCEPT ![t] = d]
    <3>1. ctl' = [ctl EXCEPT ![t] = Append(Front(SubSeq(e, 1, Len(e) - 2)),
                                            [Last(SubSeq(e, 1, Len(e) - 2)) EXCEPT !.failed = TRUE])]
      BY <1>1, <1>5 DEF Fail
    <3> QED BY <1>1, <1>4, <2>1, <2>5, <3>1
  <2>8. stack'["main"] = q
    <3>1. stack' = [s EXCEPT !["main"] =
                      Append(SubSeq(@, 1, catch.frames - 1), Append(@[catch.frames], v))]
      BY <1>1, <1>5 DEF Fail
    <3>2. "main" \in DOMAIN s BY DEF Stacks, LuaThread
    <3>3. stack'["main"] = Append(SubSeq(n, 1, catch.frames - 1), Append(n[catch.frames], v))
      BY <3>1, <3>2
    <3>4. catch.frames = Len(n) BY <1>2, <1>5
    <3> QED BY <1>3, <2>1, <2>5, <3>3, <3>4 DEF Front
  <2> QED BY <2>6, <2>7, <2>8, ComesStacked
<1>6. CASE catch.k = "resume"
  <2>1. PICK q : q = Front(n) OBVIOUS
  <2>2. Comes(c, m, below, q, "sits") BY <1>2, <1>6, <2>1
  <2>3. catch.k # "pcall" BY <1>6
  <2>4. ctl' = [ctl EXCEPT ![t] = below]
    <3>1. ctl' = [ctl EXCEPT ![t] = SubSeq(e, 1, Len(e) - 2)] BY <1>1, <2>3 DEF Fail
    <3> QED BY <1>1, <3>1
  <2>5. stack'["main"] = q
    <3>1. stack' = [s EXCEPT !["main"] = Front(@), !["co"] = <<>>] BY <1>1, <2>3 DEF Fail
    <3>2. "main" \in DOMAIN s /\ "main" # "co" BY DEF Stacks, LuaThread
    <3> QED BY <2>1, <3>1, <3>2
  <2> QED BY <2>2, <2>4, <2>5, ComesStacked
<1> QED BY <1>2, <1>5, <1>6

LEMMA TopFailsStacked ==
  ASSUME OneEngine, Stacked, Calls, Calls', NEW t \in Thread, InScript(t),
         NEW v, Fail(t, ctl[t], stack, v)
  PROVE  Stacked'
<1>1. Busy(t) /\ Top(t).k = "script" BY DEF InScript
<1>2. PICK c, m : Runs(t, c, m) BY <1>1, EnterRuns
<1>3. PICK s, w : s = stack /\ w = "sits" OBVIOUS
<1>4. Comes(c, m, c, m, "sits") BY <1>2, RunsComes
<1>5. Comes(c, m, c, m, w) /\ c[Len(c)].k = "script" /\ Stacks(s) /\ s["main"] = m
      /\ Fail(t, c, s, v)
  BY <1>1, <1>2, <1>3, <1>4, BusyFacts DEF Runs, Calls, Typed
<1> QED BY <1>2, <1>5, FailStacked

LEMMA ScriptFailsStacked ==
  ASSUME OneEngine, Stacked, Calls, Calls', NEW t \in Thread, ScriptFails(t)
  PROVE  Stacked'
<1>1. InScript(t) BY DEF ScriptFails
<1>2. PICK v : Fail(t, ctl[t], stack, v) BY DEF ScriptFails
<1> QED BY <1>1, <1>2, TopFailsStacked

\* The frames of a thread whose method is on top, without that of the method
LEMMA MethodComes ==
  ASSUME NEW c, NEW m, NEW e, NEW n, NEW w, Comes(c, m, e, n, w), e[Len(e)].k = "method"
  PROVE  /\ Len(e) > 1 /\ Front(e)[Len(Front(e))] = e[Len(e) - 1] /\ e[Len(e) - 1].k = "script"
         /\ e[Len(e) - 1].l = e[Len(e)].l /\ Len(Front(e)) \in Nat /\ Len(Front(e)) > 0
         /\ e[Len(e)].l \in LuaThread
         /\ Comes(c, m, Front(e), IF e[Len(e)].l = "main" THEN Front(n) ELSE n, "sits")
<1>1. Control(e) /\ Len(e) \in Nat /\ Len(e) > 0 BY DEF Comes
<1>2. Len(e) >= 4 /\ e[Len(e) - 1].k = "script" /\ e[Len(e) - 1].l = e[Len(e)].l BY <1>1, MethodBase
<1>3. PICK d, q, x : /\ d = SubSeq(e, 1, Len(e) - 1) /\ x = Len(e) - 1
                     /\ q = IF e[Len(e)].l = "main" THEN Front(n) ELSE n
  OBVIOUS
<1>4. Len(e) > 1 /\ x \in Nat /\ x > 0 /\ x \in 1 .. x BY <1>1, <1>2, <1>3
<1>5. Comes(c, m, d, q, "waits") /\ Len(d) = x /\ \A i \in 1 .. x : d[i] = e[i]
  <2>1. \/ Rise(e[Len(e)]) = 0 /\ q = n
        \/ Rise(e[Len(e)]) = 1 /\ q = Front(n)
    BY <1>3 DEF Rise
  <2>2. /\ Comes(c, m, SubSeq(e, 1, Len(e) - 1), q, "waits")
        /\ Len(SubSeq(e, 1, Len(e) - 1)) = Len(e) - 1
        /\ \A i \in 1 .. Len(e) - 1 : SubSeq(e, 1, Len(e) - 1)[i] = e[i]
    BY ONLY <1>4, <2>1, Comes(c, m, e, n, w), ComesCut
  <2> QED BY <1>3, <2>2
<1>6. d[Len(d)] = e[Len(e) - 1] BY <1>3, <1>4, <1>5
<1>7. Comes(c, m, d, q, "sits")
  <2>1. PICK v, z : v = "waits" /\ z = "sits" OBVIOUS
  <2>2. Comes(c, m, d, q, v) /\ d[Len(d)].k # "java" BY <1>2, <1>5, <1>6, <2>1
  <2>3. Comes(c, m, d, q, z) BY ONLY <2>2, ComesAwake
  <2> QED BY <2>1, <2>3
<1>8. e[Len(e)].l \in LuaThread
  <2>1. Control(d) /\ Len(d) > 0 /\ d[Len(d)].k = "script" BY <1>2, <1>4, <1>5, <1>6 DEF Comes
  <2> QED BY <1>2, <1>6, <2>1, ScriptBase DEF LuaThread
<1>9. d = Front(e) BY <1>3 DEF Front
<1> QED BY <1>2, <1>3, <1>4, <1>5, <1>6, <1>7, <1>8, <1>9

LEMMA MethodThrowsStacked ==
  ASSUME OneEngine, Stacked, Calls, Calls', NEW t \in Thread, MethodThrows(t)
  PROVE  Stacked'
<1>1. Busy(t) /\ Top(t).k = "method" BY DEF MethodThrows, InMethod
<1>2. PICK c, m : Runs(t, c, m) BY <1>1, EnterRuns
<1>3. c = ctl[t] /\ m = stack["main"] /\ c[Len(c)] = Top(t) BY <1>1, <1>2, BusyFacts DEF Runs
<1>4. PICK w : w = "sits" /\ Comes(c, m, c, m, w)
  <2>1. Comes(c, m, c, m, "sits") BY <1>2, RunsComes
  <2> QED BY <2>1
<1>5. c[Len(c)].k = "method" BY <1>1, <1>3
<1>6. /\ Front(c)[Len(Front(c))] = c[Len(c) - 1] /\ c[Len(c) - 1].k = "script"
      /\ c[Len(c)].l \in LuaThread
      /\ Comes(c, m, Front(c), IF c[Len(c)].l = "main" THEN Front(m) ELSE m, "sits")
  BY ONLY <1>4, <1>5, MethodComes
<1>7. PICK l, s, e, n, v : /\ l = Top(t).l /\ s = PopFrame(stack, l) /\ e = Front(c)
                           /\ n = (IF l = "main" THEN Front(m) ELSE m) /\ v = Message
  OBVIOUS
<1>8. Stacks(s) /\ s["main"] = n
  <2>1. PICK st : st = stack /\ Stacks(st) BY DEF Calls, Typed
  <2>2. l \in LuaThread /\ s = PopFrame(st, l) BY <1>3, <1>6, <1>7, <2>1
  <2> QED BY <1>3, <1>7, <2>1, <2>2, StacksKept, MainIs
<1>9. Comes(c, m, e, n, w) /\ e[Len(e)].k = "script" BY <1>3, <1>4, <1>6, <1>7
<1>10. Fail(t, e, s, v) BY <1>3, <1>7 DEF MethodThrows
<1> QED BY <1>2, <1>8, <1>9, <1>10, FailStacked

LEMMA ScriptReturnsStacked ==
  ASSUME OneEngine, Stacked, Calls, Calls', NEW t \in Thread, ScriptReturns(t)
  PROVE  Stacked'
<1>1. Busy(t) /\ Top(t).k = "script" BY DEF ScriptReturns, InScript
<1>2. PICK c, m : Runs(t, c, m) BY <1>1, EnterRuns
<1>3. c = ctl[t] /\ m = stack["main"] /\ c[Len(c)].k = "script" /\ Here = Last(m)
  BY <1>1, <1>2, BusyFacts DEF Runs
<1>4. PICK w : w = "sits" /\ Comes(c, m, c, m, w)
  <2>1. Comes(c, m, c, m, "sits") BY <1>2, RunsComes
  <2> QED BY <2>1
<1>5. PICK catch, j, below : /\ catch = c[Len(c) - 1] /\ j = c[Len(c) - 2]
                             /\ below = SubSeq(c, 1, Len(c) - 2)
  OBVIOUS
<1>6. /\ Len(below) \in Nat /\ Len(below) > 0 /\ below[Len(below)] = j /\ Formed(j)
      /\ catch.k \in {"pcall", "resume"}
      /\ catch.k = "pcall" =>
           /\ Comes(c, m, below, m, "waits") /\ j.k = "java" /\ catch.frames = Len(m)
           /\ Tracked(j, Len(below)) => catch.nres = j.nres
      /\ catch.k = "resume" => Comes(c, m, below, Front(m), "sits") /\ j.k = "script"
  <2>1. Caught(c, catch, j, below) BY <1>5 DEF Caught
  <2>2. Comes(c, m, c, m, w) /\ c[Len(c)].k = "script" BY <1>3, <1>4
  <2> QED BY ONLY <2>1, <2>2, CatchComes
<1>7. /\ IsSeq(m) /\ Len(m) \in Nat /\ Len(m) > 0 /\ Last(m) = m[Len(m)] /\ IsSeq(Last(m))
  <2>1. Comes(c, m, c, m, w) BY <1>4
  <2> QED BY ONLY <2>1, ComesTop
<1>8. Last(below) = j BY <1>6 DEF Last
<1>9. CASE catch.k = "pcall"
  <2>1. PICK v \in Result :
          /\ ctl' = [ctl EXCEPT ![t] = Append(Front(SubSeq(c, 1, Len(c) - 2)),
                                              [Last(SubSeq(c, 1, Len(c) - 2)) EXCEPT !.ret = v])]
          /\ stack' = IF catch.nres = 0 THEN stack ELSE SetFrame(stack, "main", Append(Here, v))
    BY <1>3, <1>5, <1>9 DEF ScriptReturns
  <2>2. PICK b, r : /\ b = [j EXCEPT !.ret = v]
                    /\ r = IF catch.nres = 0 THEN Last(m) ELSE Append(Last(m), v)
    OBVIOUS
  <2>3. /\ Alike(j, b) /\ b.sync = j.sync /\ Same3(j, b) /\ b.code = j.code /\ b.spilt = j.spilt
        /\ b.did = j.did /\ b.meant = j.meant /\ b.failed = j.failed /\ b.ret = v
    BY <1>6, <1>9, <2>2 DEF Formed, Alike, Same3
  <2>4. IsSeq(r)
    <3>1. IsSeq(Append(Last(m), v)) BY <1>7, AppendFacts
    <3> QED BY <1>7, <2>2, <3>1
  <2>5. ASSUME Tracked(j, Len(below)) /\ Waits(j, Last(m))
        PROVE  Sits(b, r, Len(r)) /\ (j.who \notin Clears => Same(Last(m), r, j.top))
    <3>1. PICK f : f = Last(m) OBVIOUS
    <3>2. Waits(j, f) /\ r = IF j.nres = 0 THEN f ELSE Append(f, v)
      BY <1>6, <1>9, <2>2, <2>5, <3>1
    <3>3. Sits(b, r, Len(r)) /\ (j.who \notin Clears => Same(f, r, j.top))
      BY ONLY <2>3, <3>2, ReturnSits
    <3> QED BY <3>1, <3>3
  <2>6. PICK d, q : d = Append(Front(below), b) /\ q = Append(Front(m), r) OBVIOUS
  <2>7. Comes(c, m, d, q, "sits")
    <3>1. j = below[Len(below)] /\ j.k = "java" /\ Comes(c, m, below, m, "waits") BY <1>6, <1>9
    <3>2. Comes(c, m, Append(Front(below), b), Append(Front(m), r), "sits")
      BY ONLY <2>3, <2>4, <2>5, <3>1, BackComes
    <3> QED BY <2>6, <3>2
  <2>8. ctl' = [ctl EXCEPT ![t] = d] BY <1>5, <1>8, <2>1, <2>2, <2>6
  <2>9. stack'["main"] = q
    <3>1. CASE catch.nres = 0
      <4>1. q = m BY <1>7, <2>2, <2>6, <3>1, Refront
      <4> QED BY <1>3, <2>1, <3>1, <4>1
    <3>2. CASE catch.nres # 0
      <4>1. stack' = SetFrame(stack, "main", r) BY <1>3, <2>1, <2>2, <3>2
      <4>2. Stacks(stack) BY DEF Calls, Typed
      <4>3. SetFrame(stack, "main", r)["main"] = Append(Front(stack["main"]), r) BY <4>2, MainOf
      <4> QED BY <1>3, <2>6, <4>1, <4>3
    <3> QED BY <3>1, <3>2
  <2> QED BY <1>2, <2>7, <2>8, <2>9, ComesStacked
<1>10. CASE catch.k = "resume"
  <2>1. PICK q : q = Front(m) OBVIOUS
  <2>2. Comes(c, m, below, q, "sits") BY <1>6, <1>10, <2>1
  <2>3. catch.k # "pcall" BY <1>10
  <2>4. ctl' = [ctl EXCEPT ![t] = SubSeq(c, 1, Len(c) - 2)] /\ stack' = PopFrame(stack, "main")
    BY <1>3, <1>5, <2>3 DEF ScriptReturns
  <2>5. ctl' = [ctl EXCEPT ![t] = below] BY <1>5, <2>4
  <2>6. stack'["main"] = q
    <3>1. Stacks(stack) BY DEF Calls, Typed
    <3>2. PopFrame(stack, "main")["main"] = Front(stack["main"]) BY <3>1, MainOf
    <3> QED BY <1>3, <2>1, <2>4, <3>2
  <2> QED BY <1>2, <2>2, <2>5, <2>6, ComesStacked
<1> QED BY <1>6, <1>9, <1>10

\* An activation that is not Java code and no pcall is pushed.
Grown(n, b, f, q) == b.k \notin {"java", "pcall"} /\ q = IF Rise(b) = 1 THEN Append(n, f) ELSE n

LEMMA ComesOn ==
  ASSUME NEW c, NEW m, NEW e, NEW n, NEW w, Comes(c, m, e, n, w), e[Len(e)].k # "java",
         NEW b, Formed(b), Fits(e[Len(e)], b), NEW f, IsSeq(f), NEW q, Grown(n, b, f, q)
  PROVE  /\ Comes(c, m, Append(e, b), q, w)
         /\ Len(Append(e, b)) = Len(e) + 1 /\ Append(e, b)[Len(e) + 1] = b
<1>0. b.k \notin {"java", "pcall"} /\ q = IF Rise(b) = 1 THEN Append(n, f) ELSE n BY DEF Grown
<1>1. Framed(n) /\ IsSeq(n) /\ Len(n) \in Nat /\ Len(n) > 0
  BY ONLY Comes(c, m, e, n, w), ComesTop
<1>2. Framed(q) /\ Len(q) = Len(n) + Rise(b) /\ \A i \in 1 .. Len(n) : q[i] = n[i]
  <2>1. CASE Rise(b) = 1
    <3>1. /\ IsSeq(Append(n, f)) /\ Len(Append(n, f)) = Len(n) + 1
          /\ \A i \in 1 .. Len(n) : Append(n, f)[i] = n[i]
          /\ Append(n, f)[Len(n) + 1] = f
      BY <1>1, AppendFacts
    <3>2. q = Append(n, f) BY <1>0, <2>1
    <3>3. \A i \in 1 .. Len(n) + 1 : i = Len(n) + 1 \/ i \in 1 .. Len(n) BY <1>1
    <3>4. \A i \in 1 .. Len(q) : IsSeq(q[i]) BY <1>1, <3>1, <3>2, <3>3 DEF Framed
    <3> QED BY <2>1, <3>1, <3>2, <3>4 DEF Framed
  <2>2. CASE Rise(b) # 1
    <3>1. Rise(b) = 0 /\ q = n BY <1>0, <2>2 DEF Rise
    <3> QED BY <1>1, <3>1
  <2> QED BY <2>1, <2>2
<1>3. Settled(b, Len(e) + 1, q[Len(n)], w) BY <1>0 DEF Settled
<1>4. /\ e[Len(e)].k # "java" \/ w = "waits"
      /\ b.k = "pcall" => /\ b.frames = Len(n)
                          /\ Tracked(e[Len(e)], Len(e)) => b.nres = e[Len(e)].nres
      /\ Formed(b) /\ Fits(e[Len(e)], b)
  BY <1>0
<1>5. /\ Comes(c, m, Append(e, b), q, w)
      /\ Len(Append(e, b)) = Len(e) + 1 /\ Append(e, b)[Len(e) + 1] = b
  BY ONLY Comes(c, m, e, n, w), <1>2, <1>3, <1>4, ComesPush
<1> QED BY <1>5

LEMMA ScriptResumesStacked ==
  ASSUME OneEngine, Stacked, Calls, Calls', NEW t \in Thread, ScriptResumes(t)
  PROVE  Stacked'
<1>1. Busy(t) /\ Top(t).k = "script" BY DEF ScriptResumes, InScript
<1>2. PICK c, m : Runs(t, c, m) BY <1>1, EnterRuns
<1>3. c = ctl[t] /\ m = stack["main"] /\ c[Len(c)] = Top(t) /\ Top(t) = Last(c)
  BY <1>1, <1>2, BusyFacts DEF Runs, Top
<1>4. PICK w : w = "sits" /\ Comes(c, m, c, m, w)
  <2>1. Comes(c, m, c, m, "sits") BY <1>2, RunsComes
  <2> QED BY <2>1
<1>5. PICK p, s, f, q : /\ p = [k |-> "resume"] /\ s = Script("co") /\ f = <<Coroutine>>
                        /\ q = Append(m, f)
  OBVIOUS
<1>6. /\ ctl' = [ctl EXCEPT ![t] = Append(Front(@), Top(t)) \o <<p, s>>]
      /\ stack' = PushFrame(stack, "main", f) /\ Top(t).l = "main"
  BY <1>5 DEF ScriptResumes
<1>7. IsSeq(f)
  <2>1. f \in Seq({Coroutine}) BY <1>5
  <2> QED BY <2>1 DEF IsSeq
<1>8. PICK d : d = Append(c, p) OBVIOUS
<1>9. Comes(c, m, d, q, w) /\ d[Len(d)] = p
  <2>1. p.k = "resume" /\ Formed(p) /\ Rise(p) = 1 BY <1>5 DEF Formed, Rise
  <2>2. Fits(c[Len(c)], p) /\ c[Len(c)].k # "java" BY <1>1, <1>3, <1>6, <2>1 DEF Fits
  <2>3. Grown(m, p, f, q) /\ Comes(c, m, c, m, w) BY <1>4, <1>5, <2>1 DEF Grown
  <2>4. /\ Comes(c, m, Append(c, p), q, w)
        /\ Len(Append(c, p)) = Len(c) + 1 /\ Append(c, p)[Len(c) + 1] = p
    BY ONLY <1>7, <2>1, <2>2, <2>3, ComesOn
  <2> QED BY <1>8, <2>4
<1>10. PICK e : e = Append(d, s) OBVIOUS
<1>11. Comes(c, m, e, q, w)
  <2>1. s.k = "script" /\ Rise(s) = 0 /\ Formed(s) /\ p.k = "resume" /\ s.l = "co"
    <3>1. <<>> \in Seq(Looked) BY EmptySeq
    <3> QED BY <1>5, <3>1 DEF Rise, Formed, Script
  <2>2. Fits(d[Len(d)], s) /\ d[Len(d)].k # "java" BY <1>9, <2>1 DEF Fits
  <2>3. Grown(q, s, f, q) BY <2>1 DEF Grown
  <2>4. Comes(c, m, Append(d, s), q, w)
    BY ONLY <1>7, <1>9, <2>1, <2>2, <2>3, ComesOn
  <2> QED BY <1>10, <2>4
<1>12. ctl' = [ctl EXCEPT ![t] = e]
  <2>1. IsSeq(c) /\ Len(c) > 0 BY <1>2 DEF Runs, Control
  <2>2. c \o <<p, s>> = Append(Append(c, p), s) BY <2>1, CatFacts
  <2>3. Append(Front(c), Top(t)) = c BY <1>3, <2>1, Refront
  <2>4. e = c \o <<p, s>> BY <1>8, <1>10, <2>2
  <2> QED BY <1>3, <1>6, <2>3, <2>4
<1>13. stack'["main"] = q
  <2>1. Stacks(stack) BY DEF Calls, Typed
  <2>2. PushFrame(stack, "main", f)["main"] = Append(stack["main"], f) BY <2>1, MainOf
  <2> QED BY <1>3, <1>5, <1>6, <2>2
<1>14. Comes(c, m, e, q, "sits") BY <1>4, <1>11
<1> QED BY <1>2, <1>12, <1>13, <1>14, ComesStacked

\* LuaJavaAPI pushes a value for a C function that a script called: on a
\* coroutine it stays in the frame of the main thread.
Landed(l, n, v) == IF l = "main" THEN n ELSE Append(Front(n), Append(Last(n), v))

LEMMA MainSet ==
  ASSUME NEW s, Stacks(s), NEW g
  PROVE  /\ Stacks(SetFrame(s, "main", g))
         /\ SetFrame(s, "main", g)["main"] = Append(Front(s["main"]), g)
<1>1. PICK k : k = "main" /\ k \in LuaThread BY DEF LuaThread
<1>2. k \in LuaThread BY <1>1
<1>3. Stacks(SetFrame(s, k, g)) BY ONLY Stacks(s), <1>2, StacksKept
<1>4. SetFrame(s, k, g)["main"] = IF k = "main" THEN Append(Front(s["main"]), g) ELSE s["main"]
  BY ONLY Stacks(s), <1>2, MainIs
<1> QED BY <1>1, <1>3, <1>4

LEMMA PushedMain ==
  ASSUME NEW s, Stacks(s), NEW l \in LuaThread, NEW f, IsSeq(f), NEW v,
         NEW s1, s1 = PushFrame(s, l, f),
         NEW s2, s2 = SetFrame(s1, "main", Append(Frame(s1, "main"), v))
  PROVE  /\ PopFrame(s2, l)["main"] = Landed(l, s["main"], v)
         /\ l = "main" => Last(Frame(s2, l)) = v
<1>1. PICK m : m = s["main"] OBVIOUS
<1>2. IsSeq(m) BY <1>1 DEF Stacks
<1>3. Stacks(s1) /\ s1["main"] = IF l = "main" THEN Append(m, f) ELSE m
  BY <1>1, StacksKept, MainIs
<1>4. PICK g : g = Append(Frame(s1, "main"), v) OBVIOUS
<1>6. Stacks(s2) /\ s2["main"] = Append(Front(s1["main"]), g) BY <1>3, <1>4, MainSet
<1>7. PopFrame(s2, l)["main"] = IF l = "main" THEN Front(s2["main"]) ELSE s2["main"]
  BY <1>6, MainIs
<1>8. CASE l = "main"
  <2>1. PICK x : x = Append(m, f) OBVIOUS
  <2>2. s1["main"] = x /\ Front(x) = m /\ Last(x) = f BY <1>2, <1>3, <1>8, <2>1, FrontOfAppend
  <2>3. g = Append(f, v) BY <1>4, <2>2 DEF Frame
  <2>4. s2["main"] = Append(m, g) /\ Front(Append(m, g)) = m /\ Last(Append(m, g)) = g
    BY <1>2, <1>6, <2>2, FrontOfAppend
  <2>5. Last(Append(f, v)) = v BY FrontOfAppend
  <2> QED BY <1>1, <1>7, <1>8, <2>3, <2>4, <2>5 DEF Frame, Landed
<1>9. CASE l # "main"
  <2>1. s1["main"] = m /\ g = Append(Last(m), v) BY <1>3, <1>4, <1>9 DEF Frame
  <2> QED BY <1>1, <1>6, <1>7, <1>9, <2>1 DEF Landed
<1> QED BY <1>8, <1>9

LEMMA PushedIs ==
  ASSUME Stacks(stack), NEW l \in LuaThread, NEW f, IsSeq(f), NEW v
  PROVE  /\ PopFrame(Pushed(l, f, v), l)["main"] = Landed(l, stack["main"], v)
         /\ l = "main" => Last(Frame(Pushed(l, f, v), l)) = v
<1>1. PICK s, s1 : s = stack /\ s1 = PushFrame(s, l, f) OBVIOUS
<1>2. PICK s2 : s2 = SetFrame(s1, "main", Append(Frame(s1, "main"), v)) OBVIOUS
<1>3. Pushed(l, f, v) = s2 BY <1>1, <1>2 DEF Pushed
<1>4. /\ PopFrame(s2, l)["main"] = Landed(l, s["main"], v)
      /\ l = "main" => Last(Frame(s2, l)) = v
  <2>1. Stacks(s) BY <1>1
  <2>2. s1 = PushFrame(s, l, f) /\ s2 = SetFrame(s1, "main", Append(Frame(s1, "main"), v))
    BY <1>1, <1>2
  <2> QED BY ONLY <2>1, <2>2, l \in LuaThread, IsSeq(f), PushedMain
<1> QED BY <1>1, <1>3, <1>4

\* That value does not disturb Java code: the frame is the coroutine's.
LEMMA LandedComes ==
  ASSUME NEW c, NEW m, NEW e, NEW n, NEW w, Comes(c, m, e, n, w), e[Len(e)].k = "script",
         NEW l, l = e[Len(e)].l, NEW v
  PROVE  Comes(c, m, e, Landed(l, n, v), w)
<1>1. CASE l = "main" BY <1>1 DEF Landed
<1>2. CASE l # "main"
  <2>1. Control(e) /\ Len(e) \in Nat /\ Len(e) > 0 /\ IsSeq(e) BY DEF Comes, Control
  <2>2. Len(e) >= 3 /\ (l = "co" \/ l = "main") BY <2>1, ScriptBase
  <2>3. PICK a, r : a = e[Len(e)] /\ r = Append(Last(n), v) OBVIOUS
  <2>4. Formed(a)
    <3>1. Len(e) \in 1 .. Len(e) BY <2>1
    <3> QED BY <2>1, <2>3, <3>1 DEF Control
  <2>5. IsSeq(r)
    <3>1. IsSeq(Last(n)) BY ONLY Comes(c, m, e, n, w), ComesTop
    <3> QED BY <2>3, <3>1, AppendFacts
  <2>6. Apart(a) /\ Alike(a, a) /\ (a.k = "java" => a.sync = a.sync /\ a.top = a.top)
    BY <1>2, <2>2, <2>3, <2>4 DEF Apart, Alike
  <2>7. Settled(a, Len(e), r, w) BY <2>3 DEF Settled
  <2>8. Len(e) # 1 BY <2>1, <2>2
  <2>9. Len(e) = 1 /\ a.sync => Same(Last(n), r, a.top) BY <2>8
  <2>10. Comes(c, m, Append(Front(e), a), Append(Front(n), r), w)
    <3>1. a = e[Len(e)] BY <2>3
    <3> QED BY ONLY Comes(c, m, e, n, w), <3>1, <2>5, <2>6, <2>7, <2>9, ComesRetop
  <2>11. Append(Front(e), Last(e)) = e /\ a = Last(e) BY <2>1, <2>3, Refront DEF Last
  <2>12. Append(Front(n), r) = Landed(l, n, v) BY <1>2, <2>3 DEF Landed
  <2> QED BY <2>10, <2>11, <2>12
<1> QED BY <1>1, <1>2

\* A C function that answers a script at once
LEMMA AnswerStacked ==
  ASSUME OneEngine, Stacked, Calls, Calls', NEW t \in Thread, InScript(t),
         NEW f, IsSeq(f), NEW v, NEW l, l = Top(t).l,
         ctl' = ctl \/ ctl' = SetTop(t, Top(t)), stack' = PopFrame(Pushed(l, f, v), l)
  PROVE  Stacked'
<1>1. Busy(t) /\ Top(t).k = "script" /\ l \in LuaThread BY ScriptFacts DEF InScript
<1>2. PICK c, m : Runs(t, c, m) BY <1>1, EnterRuns
<1>3. c = ctl[t] /\ m = stack["main"] /\ c[Len(c)] = Top(t) /\ Top(t) = Last(c)
  BY <1>1, <1>2, BusyFacts DEF Runs, Top
<1>4. PICK w : w = "sits" /\ Comes(c, m, c, m, w)
  <2>1. Comes(c, m, c, m, "sits") BY <1>2, RunsComes
  <2> QED BY <2>1
<1>5. PICK q : q = Landed(l, m, v) OBVIOUS
<1>6. Comes(c, m, c, q, w)
  <2>1. Comes(c, m, c, m, w) /\ c[Len(c)].k = "script" /\ l = c[Len(c)].l BY <1>1, <1>3, <1>4
  <2>2. Comes(c, m, c, Landed(l, m, v), w) BY ONLY <2>1, LandedComes
  <2> QED BY <1>5, <2>2
<1>7. stack'["main"] = q BY <1>1, <1>3, <1>5, PushedIs DEF Calls, Typed
<1>8. ctl' = [ctl EXCEPT ![t] = c]
  <2>1. CASE ctl' = ctl BY <1>3, <2>1 DEF Calls, Typed
  <2>2. CASE ctl' = SetTop(t, Top(t))
    <3>1. IsSeq(c) /\ Len(c) > 0 BY <1>2 DEF Runs, Control
    <3>2. Append(Front(c), Top(t)) = c BY <1>3, <3>1, Refront
    <3> QED BY <1>3, <2>2, <3>2 DEF SetTop
  <2> QED BY <2>1, <2>2
<1>9. Comes(c, m, c, q, "sits") BY <1>4, <1>6
<1> QED BY <1>2, <1>7, <1>8, <1>9, ComesStacked

LEMMA PairSeq == ASSUME NEW v, NEW w PROVE IsSeq(<<v, w>>)
<1>1. <<v, w>> \in Seq({v, w}) OBVIOUS
<1> QED BY <1>1 DEF IsSeq

LEMMA ScriptFindsClassStacked ==
  ASSUME OneEngine, Stacked, Calls, Calls', NEW t \in Thread, ScriptFindsClass(t)
  PROVE  Stacked'
<1>1. InScript(t) /\ ctl' = SetTop(t, Top(t)) BY DEF ScriptFindsClass
<1>2. PICK n : \/ stack' = PopFrame(Pushed(Top(t).l, <<Table("_G"), Str(n)>>, Object(n)), Top(t).l)
               \/ stack' = PopFrame(PushFrame(stack, Top(t).l, <<Table("_G"), Str(n)>>), Top(t).l)
  BY DEF ScriptFindsClass
<1>3. PICK l, f, v : l = Top(t).l /\ f = <<Table("_G"), Str(n)>> /\ v = Object(n) OBVIOUS
<1>4. IsSeq(f) BY <1>3, PairSeq
<1>5. CASE stack' = PopFrame(Pushed(l, f, v), l) BY <1>1, <1>3, <1>4, <1>5, AnswerStacked
<1>6. CASE stack' = PopFrame(PushFrame(stack, l, f), l)
  <2>1. Busy(t) /\ Top(t).k = "script" /\ l \in LuaThread BY <1>1, <1>3, ScriptFacts DEF InScript
  <2>2. PICK c, m : Runs(t, c, m) BY <2>1, EnterRuns
  <2>3. /\ c = ctl[t] /\ m = stack["main"] /\ Top(t) = Last(c) /\ IsSeq(c) /\ Len(c) > 0
        /\ Comes(c, m, c, m, "sits")
    BY <2>1, <2>2, BusyFacts, RunsComes DEF Runs, Top, Control
  <2>4. PICK st, s : st = stack /\ s = PushFrame(st, l, f) /\ Stacks(st) BY DEF Calls, Typed
  <2>5. Stacks(s) /\ s["main"] = IF l = "main" THEN Append(m, f) ELSE m
    BY <1>4, <2>1, <2>3, <2>4, StacksKept, MainIs
  <2>6. PopFrame(s, l)["main"] = IF l = "main" THEN Front(s["main"]) ELSE s["main"]
    BY <2>1, <2>5, MainIs
  <2>7. Front(Append(m, f)) = m
    <3>1. IsSeq(m) BY <2>3, <2>4 DEF Stacks
    <3> QED BY <3>1, FrontOfAppend
  <2>8. stack'["main"] = m BY <1>6, <2>4, <2>5, <2>6, <2>7
  <2>9. ctl' = [ctl EXCEPT ![t] = c]
    <3>1. Append(Front(c), Top(t)) = c BY <2>3, Refront
    <3> QED BY <1>1, <2>3, <3>1 DEF SetTop
  <2> QED BY <2>2, <2>3, <2>8, <2>9, ComesStacked
<1> QED BY <1>2, <1>3, <1>5, <1>6

LEMMA ObjectIndexStacked ==
  ASSUME OneEngine, Stacked, Calls, Calls', NEW t \in Thread, InScript(t),
         NEW u \in Userdata, NEW key \in Names, ObjectIndex(t, u, key)
  PROVE  Stacked'
<1>1. CASE key \in Fields
  <2>1. PICK l, f, v : l = Top(t).l /\ f = <<Object(u), Str(key)>>
        /\ v = Value("field", key) OBVIOUS
  <2>2. IsSeq(f) BY <2>1, PairSeq
  <2>3. ctl' = ctl /\ stack' = PopFrame(Pushed(l, f, v), l) BY <1>1, <2>1 DEF ObjectIndex
  <2> QED BY <2>1, <2>2, <2>3, AnswerStacked
<1>2. CASE key \notin Fields
  <2>1. Busy(t) /\ Top(t).k = "script" BY DEF InScript
  <2>2. PICK c, m : Runs(t, c, m) BY <2>1, EnterRuns
  <2>3. c = ctl[t] /\ m = stack["main"] /\ c[Len(c)] = Top(t) /\ Control(c) /\ Len(c) \in Nat
        /\ Len(c) > 0 /\ IsSeq(c)
    BY <2>1, <2>2, BusyFacts DEF Runs, Control
  <2>4. PICK n, a, p : /\ n = Len(c) /\ a = Top(t)
                       /\ p = Append(a.pend, [u |-> u, key |-> key, stale |-> FALSE])
    OBVIOUS
  <2> DEFINE b == Top(t)
             fresh == Append(b.pend, [u |-> u, key |-> key, stale |-> FALSE])
             c2 == [ctl[t] EXCEPT ![Len(ctl[t])] = [b EXCEPT !.pend = fresh]]
             mark(x) == [x EXCEPT !.pend = AllMarked(x.pend, u, key)]
             dd == [i \in DOMAIN c2 |-> IF c2[i].k = "script" THEN mark(c2[i]) ELSE c2[i]]
  <2>5. PICK e : e = c2 OBVIOUS
  <2>6. PICK d : d = dd OBVIOUS
  <2>7. stack' = stack /\ ctl' = [ctl EXCEPT ![t] = d]
    <3>1. stack' = stack /\ ctl' = [ctl EXCEPT ![t] = dd]
      BY <1>2 DEF ObjectIndex, AllMarked, Marked
    <3> QED BY <2>6, <3>1
  <2>15. e = [c EXCEPT ![n] = [a EXCEPT !.pend = p]] BY <2>3, <2>4, <2>5
  <2>16. d = [i \in DOMAIN e |-> IF e[i].k = "script"
                                 THEN [e[i] EXCEPT !.pend = AllMarked(e[i].pend, u, key)]
                                 ELSE e[i]]
    BY <2>5, <2>6
  <2> HIDE DEF b, fresh, c2, mark, dd
  <2>8. DOMAIN c = 1 .. n /\ DOMAIN e = 1 .. n /\ n \in 1 .. n
    <3>1. DOMAIN c = 1 .. n /\ n \in 1 .. n BY <2>3, <2>4, SeqFacts
    <3> QED BY <2>15, <3>1
  <2>9. IsSeq(d) /\ Len(d) = n
    <3>1. PICK S : S = {d[i] : i \in 1 .. n} OBVIOUS
    <3>2. d \in [1 .. n -> S] BY <2>16, <2>8, <3>1
    <3> QED BY <2>3, <2>4, <3>2, FunctionSeq
  <2>10. ASSUME NEW i \in 1 .. Len(c)
         PROVE  d[i] = c[i] \/ (c[i].k = "script" /\ d[i].k = "script" /\ d[i].l = c[i].l)
    <3>1. Formed(c[i]) BY <2>3 DEF Control
    <3>2. c[i].k = "script" => e[i].k = "script" /\ e[i].l = c[i].l
                               /\ e[i] = [k |-> "script", l |-> c[i].l, pend |-> e[i].pend]
      <4>1. CASE i = n
        <5>1. e[i] = [a EXCEPT !.pend = p] /\ a = c[i] BY <2>3, <2>4, <2>15, <2>8, <4>1
        <5> QED BY <3>1, <5>1 DEF Formed
      <4>2. CASE i # n
        <5>1. e[i] = c[i] BY <2>4, <2>15, <2>8, <4>2
        <5> QED BY <3>1, <5>1 DEF Formed
      <4> QED BY <4>1, <4>2
    <3>3. c[i].k # "script" => e[i] = c[i] BY <2>1, <2>3, <2>4, <2>15, <2>8
    <3>4. d[i] = IF e[i].k = "script" THEN [e[i] EXCEPT !.pend = AllMarked(e[i].pend, u, key)] ELSE e[i]
      BY <2>4, <2>16, <2>8
    <3> QED BY <3>2, <3>3, <3>4
  <2>11. Control(d)
    <3>1. ctl'[t] = d BY <2>7 DEF Calls, Typed
    <3>2. \A s \in Thread : Good(ctl[s], called)' BY DEF Calls
    <3> QED BY <3>1, <3>2 DEF Good, Control
  <2>12. PICK w : w = "sits" /\ Comes(c, m, c, m, w)
    <3>1. Comes(c, m, c, m, "sits") BY <2>2, RunsComes
    <3> QED BY <3>1
  <2>13. Comes(c, m, d, m, w)
    <3>1. Comes(c, m, c, m, w) /\ IsSeq(d) /\ Len(d) = Len(c) BY <2>4, <2>9, <2>12
    <3> QED BY ONLY <2>10, <2>11, <3>1, ComesAlike
  <2>14. Comes(c, m, d, m, "sits") /\ stack'["main"] = m BY <2>3, <2>7, <2>12, <2>13
  <2> QED BY <2>2, <2>7, <2>14, ComesStacked
<1> QED BY <1>1, <1>2

LEMMA ScriptLooksStacked ==
  ASSUME OneEngine, Stacked, Calls, Calls', NEW t \in Thread, ScriptLooks(t)
  PROVE  Stacked'
<1>1. InScript(t) BY DEF ScriptLooks
<1>2. PICK u \in Userdata, key \in Names :
        IF u \in Classes THEN ClassIndex(t, u, key) ELSE ObjectIndex(t, u, key)
  BY DEF ScriptLooks
<1>3. CASE ObjectIndex(t, u, key) BY <1>1, <1>3, ObjectIndexStacked
<1>4. CASE ~ObjectIndex(t, u, key)
  <2>1. Fail(t, ctl[t], stack, Message)
    BY <1>2, <1>4 DEF ClassIndex
  <2> QED BY <1>1, <2>1, TopFailsStacked
<1> QED BY <1>3, <1>4

\* A script calls Java: the method gets a frame of its own, but from a
\* coroutine, whose frames are not those of the main thread.
LEMMA CallsJavaStacked ==
  ASSUME OneEngine, Stacked, Calls, Calls', NEW t \in Thread, InScript(t),
         NEW a, Alike(Top(t), a), NEW first, NEW asked, NEW stale, NEW name,
         NEW given, IsSeq(given), CallsJava(t, a, first, asked, stale, name, given)
  PROVE  Stacked'
<1>1. Busy(t) /\ Top(t).k = "script" BY DEF InScript
<1>2. PICK c, m : Runs(t, c, m) BY <1>1, EnterRuns
<1>3. /\ c = ctl[t] /\ m = stack["main"] /\ c[Len(c)] = Top(t) /\ Control(c)
      /\ Len(c) \in Nat /\ Len(c) > 0 /\ IsSeq(c)
  BY <1>1, <1>2, BusyFacts DEF Runs, Control
<1>4. PICK w : w = "sits" /\ Comes(c, m, c, m, w)
  <2>1. Comes(c, m, c, m, "sits") BY <1>2, RunsComes
  <2> QED BY <2>1
<1>5. a.k = "script" /\ a.l = Top(t).l /\ a.l \in LuaThread BY <1>1, ScriptFacts DEF Alike
<1>6. CASE Fail(t, ctl[t], stack, Message)
  <2>1. PICK v : v = Message OBVIOUS
  <2>2. Fail(t, ctl[t], stack, v) BY <1>6, <2>1
  <2> QED BY <2>2, TopFailsStacked
<1>7. CASE ~Fail(t, ctl[t], stack, Message)
  <2>1. PICK told :
          /\ stack' = PushFrame(stack, a.l, <<first>> \o given)
          /\ ctl' = [ctl EXCEPT ![t] = Front(@) \o <<a, Method(a.l, asked, given, stale, name, told)>>]
    BY <1>7 DEF CallsJava
  <2>2. PICK f, b : f = <<first>> \o given
        /\ b = Method(a.l, asked, given, stale, name, told) OBVIOUS
  <2>3. b.k = "method" /\ b.l = a.l
    <3>1. b = [k |-> "method", l |-> a.l, asked |-> asked, given |-> given, stale |-> stale,
               name |-> name, args |-> told]
      BY <2>2 DEF Method
    <3> QED BY <3>1
  <2>4. IsSeq(f)
    <3>1. PICK x : x = <<first>> OBVIOUS
    <3>2. IsSeq(x) BY <3>1, OneFacts
    <3>3. f = x \o given BY <2>2, <3>1
    <3> QED BY ONLY IsSeq(given), <3>2, <3>3, ConcatFacts
  <2>5. PICK d : d = Append(Front(c), a) OBVIOUS
  <2>6. /\ Control(d) /\ Len(d) = Len(c) /\ IsSeq(d) /\ d[Len(c)] = a
        /\ \A i \in 1 .. Len(c) - 1 : d[i] = c[i]
    <3>1. Alike(c[Len(c)], a) BY <1>3
    <3>2. Control(c) /\ Len(c) > 0 BY <1>3
    <3>3. /\ Control(Append(Front(c), a)) /\ Len(Append(Front(c), a)) = Len(c)
          /\ \A i \in 1 .. Len(c) - 1 : Append(Front(c), a)[i] = c[i]
          /\ Append(Front(c), a)[Len(c)] = a
      BY ONLY <3>1, <3>2, RetopControl
    <3> QED BY <2>5, <3>3 DEF Control
  <2>7. Comes(c, m, d, m, w)
    <3>1. ASSUME NEW i \in 1 .. Len(c)
          PROVE  d[i] = c[i] \/ (c[i].k = "script" /\ d[i].k = "script" /\ d[i].l = c[i].l)
      <4>1. CASE i = Len(c) BY <1>1, <1>3, <1>5, <2>6, <4>1
      <4>2. CASE i # Len(c)
        <5>1. i \in 1 .. Len(c) - 1 BY <1>3, <4>2
        <5> QED BY <2>6, <5>1
      <4> QED BY <4>1, <4>2
    <3>2. Comes(c, m, c, m, w) BY <1>4
    <3> QED BY ONLY <2>6, <3>1, <3>2, ComesAlike
  <2>8. PICK q : q = IF a.l = "main" THEN Append(m, f) ELSE m OBVIOUS
  <2>9. stack'["main"] = q
    <3>1. PICK st : st = stack /\ Stacks(st) BY DEF Calls, Typed
    <3>2. stack' = PushFrame(st, a.l, f) BY <2>1, <2>2, <3>1
    <3>3. PICK l : l = a.l /\ l \in LuaThread BY <1>5
    <3>4. PushFrame(st, l, f)["main"] = IF l = "main" THEN Append(st["main"], f) ELSE st["main"]
      BY <3>1, <3>3, MainIs
    <3> QED BY <1>3, <2>8, <3>1, <3>2, <3>3, <3>4
  <2>10. PICK e : e = Append(d, b) OBVIOUS
  <2>11. Comes(c, m, e, q, w)
    <3>1. Formed(b) /\ Fits(d[Len(d)], b) /\ d[Len(d)].k # "java"
      BY <1>5, <2>3, <2>6 DEF Formed, Fits
    <3>2. Grown(m, b, f, q) BY <2>3, <2>8 DEF Grown, Rise
    <3>3. Comes(c, m, Append(d, b), q, w) BY ONLY <2>4, <2>7, <3>1, <3>2, ComesOn
    <3> QED BY <2>10, <3>3
  <2>12. ctl' = [ctl EXCEPT ![t] = e]
    <3>1. PICK x : x = Front(c) OBVIOUS
    <3>2. IsSeq(x)
      <4>1. Len(c) - 1 \in Int /\ x = SubSeq(c, 1, Len(c) - 1) BY <1>3, <3>1 DEF Front
      <4> QED BY <1>3, <4>1, CutFacts
    <3>3. x \o <<a, b>> = Append(Append(x, a), b) BY <3>2, CatFacts
    <3>4. Front(ctl[t]) \o <<a, b>> = e BY <1>3, <2>5, <2>10, <3>1, <3>3
    <3>5. ctl' = [ctl EXCEPT ![t] = Front(@) \o <<a, b>>] BY <2>1, <2>2
    <3> QED BY <3>4, <3>5
  <2>13. Comes(c, m, e, q, "sits") BY <1>4, <2>11
  <2> QED BY <1>2, <2>9, <2>12, <2>13, ComesStacked
<1> QED BY <1>6, <1>7

LEMMA ScriptCallsStacked ==
  ASSUME OneEngine, Stacked, Calls, Calls', NEW t \in Thread, ScriptCalls(t)
  PROVE  Stacked'
<1>1. InScript(t) /\ Top(t).pend # <<>> BY DEF ScriptCalls
<1>2. Formed(Top(t)) /\ Top(t).k = "script" BY <1>1, ScriptFacts
<1>3. PICK b, ps, qs : b = Top(t) /\ ps = b.pend /\ qs = Front(ps) OBVIOUS
<1>4. qs \in Seq(Looked)
  <2>1. ps \in Seq(Looked) /\ ps # <<>> BY <1>1, <1>2, <1>3 DEF Formed
  <2>2. Len(ps) \in Nat /\ Len(ps) > 0 BY <2>1, LenProperties, EmptySeq
  <2>3. qs = SubSeq(ps, 1, Len(ps) - 1) BY <1>3 DEF Front
  <2> QED BY <2>1, <2>2, <2>3
<1>5. PICK a : a = [b EXCEPT !.pend = qs] OBVIOUS
<1>6. a = [k |-> "script", l |-> b.l, pend |-> qs] BY <1>2, <1>3, <1>5 DEF Formed
<1>7. Alike(b, a) BY <1>2, <1>3, <1>4, <1>6 DEF Formed, Alike
<1>8. PICK given \in {<<>>} \cup {<<v>> : v \in Argument} :
        CallsJava(t, [Top(t) EXCEPT !.pend = Front(@)],
                  Object(Last(Top(t).pend).u), Last(Top(t).pend).key, Last(Top(t).pend).stale,
                  called[Last(Top(t).pend).u], given)
  BY DEF ScriptCalls
<1>9. IsSeq(given)
  <2>1. CASE given = <<>> BY <2>1, EmptySeq DEF IsSeq
  <2>2. CASE given # <<>>
    <3>1. PICK v : given = <<v>> BY <1>8, <2>2
    <3> QED BY <3>1, OneFacts
  <2> QED BY <2>1, <2>2
<1>10. PICK first, asked, stale, name :
         CallsJava(t, [Top(t) EXCEPT !.pend = Front(@)], first, asked, stale, name, given)
  BY <1>8
<1>11. CallsJava(t, a, first, asked, stale, name, given) /\ Alike(Top(t), a)
  <2>1. [Top(t) EXCEPT !.pend = Front(@)] = a BY <1>3, <1>5
  <2> QED BY <1>3, <1>7, <1>10, <2>1
<1> QED BY <1>1, <1>9, <1>11, CallsJavaStacked

LEMMA ScriptEntersStacked ==
  ASSUME OneEngine, Stacked, Calls, Calls', NEW t \in Thread, ScriptEnters(t)
  PROVE  Stacked'
<1>1. InScript(t) BY DEF ScriptEnters
<1>2. Formed(Top(t)) BY <1>1, ScriptFacts
<1>3. PICK e \in Entries : CallsJava(t, Top(t), e.first, e.name, FALSE, e.name, e.given)
  BY DEF ScriptEnters
<1>4. PICK v : e.given = <<v>> BY <1>3 DEF Entries
<1>5. PICK a, first, name, given, stale :
        /\ a = Top(t) /\ first = e.first /\ name = e.name /\ given = e.given /\ stale = FALSE
  OBVIOUS
<1>6. IsSeq(given) BY <1>4, <1>5, OneFacts
<1>7. Alike(Top(t), a) /\ CallsJava(t, a, first, name, stale, name, given)
  BY <1>2, <1>3, <1>5 DEF Alike
<1> QED BY <1>1, <1>6, <1>7, CallsJavaStacked

\* A Java method ends: what it pushed for the script is on its frame, or, on a
\* coroutine, above what the main thread had there.
LEMMA MethodReturnsStacked ==
  ASSUME OneEngine, Stacked, Calls, Calls', NEW t \in Thread, MethodReturns(t)
  PROVE  Stacked'
<1>1. Busy(t) /\ Top(t).k = "method" BY DEF MethodReturns, InMethod
<1>2. PICK c, m : Runs(t, c, m) BY <1>1, EnterRuns
<1>3. /\ c = ctl[t] /\ m = stack["main"] /\ c[Len(c)] = Top(t) /\ IsSeq(m) /\ Here = Last(m)
  BY <1>1, <1>2, BusyFacts DEF Runs
<1>4. PICK w : w = "sits" /\ Comes(c, m, c, m, w)
  <2>1. Comes(c, m, c, m, "sits") BY <1>2, RunsComes
  <2> QED BY <2>1
<1>5. PICK l, d, n : /\ l = Top(t).l /\ d = Front(c)
                     /\ n = IF l = "main" THEN Front(m) ELSE m
  OBVIOUS
<1>6. /\ d[Len(d)].k = "script" /\ d[Len(d)].l = l /\ l \in LuaThread /\ Comes(c, m, d, n, w)
  <2>1. Comes(c, m, c, m, w) /\ c[Len(c)].k = "method" BY <1>1, <1>3, <1>4
  <2>2. /\ Front(c)[Len(Front(c))] = c[Len(c) - 1] /\ c[Len(c) - 1].k = "script"
        /\ c[Len(c) - 1].l = c[Len(c)].l /\ c[Len(c)].l \in LuaThread
        /\ Comes(c, m, Front(c), IF c[Len(c)].l = "main" THEN Front(m) ELSE m, "sits")
    BY ONLY <2>1, MethodComes
  <2> QED BY <1>3, <1>4, <1>5, <2>2
<1>7. PICK v : stack' = PopFrame(IF v = Nil THEN stack ELSE SetFrame(stack, "main", Append(Here, v)), l)
  BY <1>5 DEF MethodReturns
<1>8. PICK st, f, s : /\ st = stack /\ f = Append(Here, v) /\ Stacks(st)
                      /\ s = (IF v = Nil THEN stack ELSE SetFrame(stack, "main", Append(Here, v)))
  BY DEF Calls, Typed
<1>9. Stacks(s) /\ s["main"] = IF v = Nil THEN m ELSE Append(Front(m), f)
  <2>1. Stacks(SetFrame(st, "main", f))
        /\ SetFrame(st, "main", f)["main"] = Append(Front(st["main"]), f)
    BY <1>8, MainSet
  <2> QED BY <1>3, <1>8, <2>1
<1>10. stack'["main"] = IF l = "main" THEN Front(s["main"]) ELSE s["main"]
  <2>1. stack' = PopFrame(s, l) BY <1>7, <1>8
  <2> QED BY <1>6, <1>9, <2>1, MainIs
<1>11. PICK q : q = IF l = "main" \/ v = Nil THEN n ELSE Landed(l, n, v) OBVIOUS
<1>12. stack'["main"] = q
  <2>1. CASE l = "main"
    <3>1. PICK x : x = Front(m) OBVIOUS
    <3>2. IsSeq(x)
      <4>1. Len(m) - 1 \in Int /\ x = SubSeq(m, 1, Len(m) - 1) BY <1>2, <3>1 DEF Front, Runs
      <4> QED BY <1>3, <4>1, CutFacts
    <3>3. Front(Append(x, f)) = x BY <3>2, FrontOfAppend
    <3> QED BY <1>5, <1>9, <1>10, <1>11, <2>1, <3>1, <3>3
  <2>2. CASE l # "main" BY <1>3, <1>5, <1>8, <1>9, <1>10, <1>11, <2>2 DEF Landed
  <2> QED BY <2>1, <2>2
<1>13. Comes(c, m, d, q, w)
  <2>1. Comes(c, m, d, n, w) /\ d[Len(d)].k = "script" /\ l = d[Len(d)].l BY <1>6
  <2>2. Comes(c, m, d, Landed(l, n, v), w) BY ONLY <2>1, LandedComes
  <2> QED BY <1>11, <2>1, <2>2
<1>14. ctl' = [ctl EXCEPT ![t] = d] BY <1>3, <1>5 DEF MethodReturns, Drop, Front
<1>15. Comes(c, m, d, q, "sits") BY <1>4, <1>13
<1> QED BY <1>2, <1>12, <1>14, <1>15, ComesStacked

\* The calls that Java starts with
LEMMA FreshCalls ==
  ASSUME NEW a, a \in EngineCalls \cup Invoke \cup CallOf(0) \cup CallOf(1)
                        \cup {Java("register", TRUE, Register("print"), 0)}
  PROVE  /\ Formed(a) /\ a.k = "java" /\ Fresh(a, Len(Here))
         /\ IsSeq(Here) => Sound(a)
         /\ a \notin EngineCalls => a.sync
<1>1. Formed(a) /\ a.k = "java" BY CallsFormed
<1>2. PICK f : f = Here OBVIOUS
<1>3. Fresh(a, Len(f)) /\ (a.sync => a.who \in {"call", "register"}) /\ (a \notin EngineCalls => a.sync)
      /\ (a.nres = 1 => a.sync \/ a.who = "file")
  <2>1. CASE a \in EngineCalls
    <3>1. Fresh(a, Len(Here)) /\ a.sync = FALSE /\ (a.nres = 0 \/ a.who = "file")
      BY <2>1, EngineFresh
    <3> QED BY <1>2, <2>1, <3>1
  <2>2. CASE a \notin EngineCalls
    <3>1. a \in CallOf(0) \cup CallOf(1) \cup Invoke \cup {Java("register", TRUE, Register("print"), 0)}
      BY <2>2
    <3>2. Fresh(a, Len(Here)) /\ a.sync = TRUE /\ a.who \in {"call", "register"}
      BY <3>1, SyncFresh
    <3> QED BY <1>2, <2>2, <3>2
  <2> QED BY <2>1, <2>2
<1>4. Coding(a.who, a.nres, a.code) /\ a.top = Len(f) BY <1>3 DEF Fresh
<1>5. Coded(a.code) /\ a.nres \in {0, 1} BY <1>4 DEF Coding, Path
<1>6. ASSUME IsSeq(f) PROVE Sound(a)
  <2>1. Len(f) \in Nat BY <1>6, SeqFacts
  <2> QED BY <1>3, <1>4, <1>5, <2>1 DEF Sound
<1> QED BY <1>1, <1>2, <1>3, <1>6

LEMMA MethodCallsStacked ==
  ASSUME OneEngine, Stacked, Calls, Calls', NEW t \in Thread, MethodCalls(t)
  PROVE  Stacked'
<1>1. Busy(t) /\ Top(t).k = "method" BY DEF MethodCalls, InMethod
<1>2. PICK c, m : Runs(t, c, m) BY <1>1, EnterRuns
<1>3. /\ c = ctl[t] /\ m = stack["main"] /\ c[Len(c)] = Top(t) /\ IsSeq(c) /\ Len(c) \in Nat
      /\ Here = m[Len(m)] /\ Len(m) \in Nat /\ Len(c) > 0
  BY <1>1, <1>2, BusyFacts DEF Runs, Control
<1>4. PICK w : w = "sits" /\ Comes(c, m, c, m, w)
  <2>1. Comes(c, m, c, m, "sits") BY <1>2, RunsComes
  <2> QED BY <2>1
<1>5. PICK a : /\ a \in EngineCalls \cup Invoke \cup CallOf(0) \cup CallOf(1)
               /\ ctl' = Push(t, <<a>>)
  BY DEF MethodCalls
<1>6. PICK f : f = Here /\ IsSeq(f) BY <1>2, RunsTop
<1>7. Formed(a) /\ a.k = "java" /\ Fresh(a, Len(f)) /\ Sound(a) BY <1>5, <1>6, FreshCalls
<1>8. Sits(a, f, Len(f)) BY <1>6, <1>7, FreshSits
<1>9. PICK d : d = Append(c, a) OBVIOUS
<1>10. Comes(c, m, d, m, w)
  <2>1. Fits(c[Len(c)], a) /\ (c[Len(c)].k # "java" \/ w = "waits") BY <1>1, <1>3, <1>7 DEF Fits
  <2>2. Settled(a, Len(c) + 1, m[Len(m)], w) BY <1>3, <1>4, <1>6, <1>7, <1>8 DEF Settled
  <2>3. /\ Framed(m) /\ (\A i \in 1 .. Len(m) : m[i] = m[i])
        /\ a.k = "pcall" => /\ a.frames = Len(m)
                            /\ Tracked(c[Len(c)], Len(c)) => a.nres = c[Len(c)].nres
    <3>1. Comes(c, m, c, m, w) BY <1>4
    <3>2. Framed(m) BY ONLY <3>1, ComesTop
    <3> QED BY <1>7, <3>2
  <2>4. Len(m) = Len(m) + Rise(a) BY <1>3, <1>7 DEF Rise
  <2>5. Comes(c, m, c, m, w) /\ Formed(a) BY <1>4, <1>7
  <2>6. Comes(c, m, Append(c, a), m, w) BY ONLY <2>1, <2>2, <2>3, <2>4, <2>5, ComesPush
  <2> QED BY <1>9, <2>6
<1>11. ctl' = [ctl EXCEPT ![t] = d] BY <1>3, <1>5, <1>9, CatFacts DEF Push
<1>12. stack'["main"] = m BY <1>3 DEF MethodCalls
<1>13. Comes(c, m, d, m, "sits") BY <1>4, <1>10
<1> QED BY <1>2, <1>11, <1>12, <1>13, ComesStacked

\* What the monitor says of the threads when t enters
LEMMA EnterFree ==
  ASSUME Calls, NEW t \in Thread, CanEnter(t)
  PROVE  Free(ctl, t) /\ \A s \in Thread : Control(ctl[s])
<1>1. \A s \in Thread : Control(ctl[s]) BY DEF Calls, Good
<1>2. \A s \in Thread : Holds(s) <=> HoldsMonitor(ctl[s]) BY <1>1, HoldsIs
<1> QED BY <1>1, <1>2 DEF Free, CanEnter

LEMMA StartsCallStacked ==
  ASSUME OneEngine, Stacked, Calls, Calls', NEW t \in Thread, StartsCall(t)
  PROVE  Stacked'
<1>1. ~Busy(t) /\ CanEnter(t) /\ stack' = stack BY DEF StartsCall
<1>2. PICK a : /\ a \in (IF t \in Engine THEN EngineCalls ELSE {}) \cup Invoke
                          \cup {Java("register", TRUE, Register("print"), 0)}
               /\ ctl' = Push(t, <<a>>)
  BY DEF StartsCall
<1>3. PICK cs, ds, m : cs = ctl /\ ds = ctl' /\ m = stack["main"] OBVIOUS
<1>4. StacksOf(cs, m) /\ Free(cs, t) /\ \A s \in Thread : Control(cs[s])
  BY <1>1, <1>3, EnterFree DEF Stacked
<1>5. cs[t] = <<>> /\ Len(cs[t]) = 0 BY <1>1, <1>3, NilFacts DEF Busy
<1>6. Len(m) = 1 /\ IsSeq(m[1])
  <2>1. Stands(cs[t], m, m[1], "sits") BY <1>4 DEF StacksOf
  <2>2. PICK lv : Levels(cs[t], lv) /\ Len(m) = lv[Len(cs[t])] BY <2>1 DEF Stands
  <2>3. Len(m) = 1 BY <1>5, <2>2 DEF Levels
  <2>4. 1 \in 1 .. Len(m) BY <2>3
  <2> QED BY <1>4, <2>3, <2>4 DEF StacksOf, Framed
<1>7. PICK f : f = Here /\ f = m[1] BY <1>3, <1>6 DEF Here, Frame, Last
<1>8. /\ Formed(a) /\ a.k = "java" /\ Fresh(a, Len(f)) /\ Sound(a)
      /\ t \notin Engine => a.sync
  <2>1. a \in EngineCalls => t \in Engine
    <3>1. CASE t \in Engine BY <3>1
    <3>2. CASE t \notin Engine
      <4>1. a \in Invoke \cup {Java("register", TRUE, Register("print"), 0)} BY <1>2, <3>2
      <4>2. a.sync = TRUE BY <4>1, SyncFresh
      <4>3. a \in EngineCalls => a.sync = FALSE BY EngineFresh
      <4> QED BY <4>2, <4>3
    <3> QED BY <3>1, <3>2
  <2> QED BY <1>2, <1>6, <1>7, <2>1, FreshCalls
<1>9. Sits(a, f, Len(f)) /\ a.top = Len(f) BY <1>6, <1>7, <1>8, FreshSits DEF Fresh
<1>10. PICK d : d = Append(cs[t], a) OBVIOUS
<1>11. IsSeq(cs[t]) BY <1>4 DEF Control
<1>12. /\ ds[t] = d /\ \A s \in Thread \ {t} : ds[s] = cs[s]
  <2>1. cs[t] \o <<a>> = d BY <1>10, <1>11, CatFacts
  <2>2. ds = [ctl EXCEPT ![t] = ctl[t] \o <<a>>] BY <1>2, <1>3 DEF Push
  <2> QED BY <1>3, <2>1, <2>2 DEF Calls, Typed
<1>13. Len(d) = 1 /\ d[1] = a
  <2>1. Len(d) = Len(cs[t]) + 1 /\ d[Len(cs[t]) + 1] = a BY <1>10, <1>11, AppendFacts
  <2> QED BY <1>5, <2>1
<1>14. Control(d)
  <2>1. \A s \in Thread : Good(ctl[s], called)' BY DEF Calls
  <2>2. ctl'[t] = d BY <1>3, <1>12
  <2> QED BY <2>1, <2>2 DEF Good, Control
<1>15. StacksOf(ds, m)
  <2>1. /\ ds[t] = d /\ Control(d) /\ Len(d) = 1 /\ Sound(d[1]) /\ d[1].top = Len(m[1])
        /\ Sits(d[1], m[1], Len(m[1])) /\ (t \notin Engine => d[1].sync) /\ Len(cs[t]) = 0
    BY <1>5, <1>7, <1>8, <1>9, <1>12, <1>13, <1>14
  <2> QED BY ONLY <1>4, <1>12, <2>1, t \in Thread, StartStack
<1> QED BY <1>1, <1>3, <1>15 DEF Stacked

\* Java code that a method called returns to it.
LEMMA DownStacked ==
  ASSUME OneEngine, Stacked, Calls, Calls', NEW t, NEW c, NEW m, Runs(t, c, m),
         c[Len(c)].k = "java", Len(c) > 1, ctl' = [ctl EXCEPT ![t] = Front(c)],
         NEW r, IsSeq(r), stack' = SetFrame(stack, "main", r)
  PROVE  Stacked'
<1>1. Control(c) /\ Len(c) \in Nat /\ m = stack["main"] BY DEF Runs
<1>2. PICK v, w, x : v = "waits" /\ w = "sits" /\ x = Len(c) - 1 OBVIOUS
<1>3. PICK e : e = SubSeq(c, 1, x) OBVIOUS
<1>4. Comes(c, m, e, m, v) /\ Len(e) = x /\ \A i \in 1 .. x : e[i] = c[i]
  <2>1. PICK z : z = "sits" /\ Comes(c, m, c, m, z)
    <3>1. Comes(c, m, c, m, "sits") BY RunsComes
    <3> QED BY <3>1
  <2>2. \/ Rise(c[Len(c)]) = 0 /\ m = m
        \/ Rise(c[Len(c)]) = 1 /\ m = Front(m)
    BY DEF Rise
  <2>3. Comes(c, m, c, m, z) /\ Len(c) > 1 BY <2>1
  <2>4. /\ Comes(c, m, SubSeq(c, 1, Len(c) - 1), m, "waits")
        /\ Len(SubSeq(c, 1, Len(c) - 1)) = Len(c) - 1
        /\ \A i \in 1 .. Len(c) - 1 : SubSeq(c, 1, Len(c) - 1)[i] = c[i]
    BY ONLY <2>2, <2>3, ComesCut
  <2> QED BY <1>2, <1>3, <2>4
<1>5. x \in Nat /\ x > 0 /\ x \in 1 .. x BY <1>1, <1>2
<1>6. PICK a : a = e[Len(e)] OBVIOUS
<1>7. a.k = "method" /\ Formed(a)
  <2>1. c[Len(c) - 1].k = "method" BY <1>1, JavaBase
  <2>2. Control(e) BY <1>4 DEF Comes
  <2>3. Formed(e[x]) BY <1>4, <1>5, <2>2 DEF Control
  <2> QED BY <1>2, <1>4, <1>5, <1>6, <2>1, <2>3
<1>8. x # 1
  <2>1. Control(e) /\ Len(e) > 0 BY <1>4 DEF Comes
  <2> QED BY <1>4, <1>6, <1>7, <2>1 DEF Control
<1>9. Comes(c, m, Append(Front(e), a), Append(Front(m), r), w)
  <2>1. /\ Apart(a) /\ Alike(a, a) /\ (a.k = "java" => a.sync = a.sync /\ a.top = a.top)
        /\ Settled(a, Len(e), r, w) /\ (Len(e) = 1 /\ a.sync => Same(Last(m), r, a.top))
    BY <1>4, <1>7, <1>8 DEF Apart, Alike, Settled
  <2> QED BY ONLY <1>4, <1>6, <2>1, IsSeq(r), ComesRetop
<1>10. Append(Front(e), a) = e
  <2>1. IsSeq(e) /\ Len(e) > 0 BY <1>4 DEF Comes, Control
  <2> QED BY <1>6, <2>1, Refront DEF Last
<1>11. PICK q : q = Append(Front(m), r) OBVIOUS
<1>12. stack'["main"] = q
  <2>1. Stacks(stack) BY DEF Calls, Typed
  <2> QED BY <1>1, <1>11, <2>1, MainOf
<1>13. ctl' = [ctl EXCEPT ![t] = e] BY <1>2, <1>3 DEF Front
<1>14. Comes(c, m, e, q, "sits") BY <1>2, <1>9, <1>10, <1>11
<1> QED BY <1>12, <1>13, <1>14, ComesStacked

\* Java code that a thread started is at its end.
LEMMA OutStacked ==
  ASSUME OneEngine, Stacked, Calls, Calls', NEW t, NEW c, NEW m, Runs(t, c, m),
         Len(c) = 1, ctl'[t] = <<>>,
         \A s \in Thread \ {t} :
           \/ ctl'[s] = ctl[s]
           \/ /\ Len(ctl'[s]) = 1 /\ Len(ctl[s]) = 1 /\ ctl'[s][1].spilt
              /\ ctl'[s][1].sync = ctl[s][1].sync /\ Sound(ctl'[s][1]),
         NEW r, IsSeq(r), stack' = SetFrame(stack, "main", r),
         (\E s \in Thread \ {t} : Len(ctl'[s]) = 1 /\ ~ctl'[s][1].spilt) /\ c[1].sync =>
           Len(r) = c[1].top /\ Same(Here, r, c[1].top)
  PROVE  Stacked'
<1>1. t \in Thread /\ c = ctl[t] /\ m = stack["main"] /\ Free(ctl, t) /\ Here = m[Len(m)]
  BY DEF Runs
<1>2. PICK cs, ds : cs = ctl /\ ds = ctl' OBVIOUS
<1>3. StacksOf(cs, m) /\ Free(cs, t) /\ (\A s \in Thread : Control(cs[s])) /\ Len(cs[t]) = 1
  BY <1>1, <1>2 DEF Stacked, Calls, Good
<1>4. \A s \in Thread : Control(ds[s])
  <2>1. \A s \in Thread : Good(ctl[s], called)' BY DEF Calls
  <2> QED BY <1>2, <2>1 DEF Good, Control
<1>5. Len(m) = 1 /\ IsSeq(m)
  <2>1. PICK w : w = "sits" /\ Comes(c, m, c, m, w)
    <3>1. Comes(c, m, c, m, "sits") BY RunsComes
    <3> QED BY <3>1
  <2>2. Comes(c, m, c, m, w) BY <2>1
  <2>3. (Len(c) = 1 => Len(m) = 1) /\ IsSeq(m) BY ONLY <2>2, ComesTop
  <2> QED BY <2>3
<1>6. PICK q : q = Append(Front(m), r) OBVIOUS
<1>7. stack'["main"] = q
  <2>1. Stacks(stack) BY DEF Calls, Typed
  <2> QED BY <1>1, <1>6, <2>1, MainOf
<1>8. Len(q) = 1 /\ q[1] = r /\ Framed(q)
  <2>1. IsSeq(q) /\ Len(q) = Len(m) /\ q[Len(m)] = r
    <3>1. IsSeq(m) /\ Len(m) > 0 BY <1>5
    <3>2. IsSeq(Append(Front(m), r)) /\ Len(Append(Front(m), r)) = Len(m)
          /\ Append(Front(m), r)[Len(m)] = r
      BY ONLY <3>1, RetopFacts
    <3> QED BY <1>6, <3>2
  <2>2. \A i \in 1 .. 1 : i = 1 OBVIOUS
  <2> QED BY <1>5, <2>1, <2>2 DEF Framed
<1>9. ds[t] = <<>> BY <1>2
<1>10. \A s \in Thread \ {t} :
           \/ ds[s] = cs[s]
           \/ /\ Len(ds[s]) = 1 /\ Len(cs[s]) = 1 /\ ds[s][1].spilt
              /\ ds[s][1].sync = cs[s][1].sync /\ Sound(ds[s][1])
  BY <1>2
<1>11. (\E s \in Thread \ {t} : Len(ds[s]) = 1 /\ ~ds[s][1].spilt) /\ cs[t][1].sync =>
           Len(q[1]) = cs[t][1].top /\ Same(m[1], q[1], cs[t][1].top)
  BY <1>1, <1>2, <1>5, <1>8
<1>12. StacksOf(ds, q)
  BY ONLY OneEngine, <1>1, <1>3, <1>4, <1>8, <1>9, <1>10, <1>11, EndStack
<1> QED BY <1>2, <1>7, <1>12 DEF Stacked

LEMMA JavaEndsStacked ==
  ASSUME OneEngine, Stacked, Calls, Calls', NEW t \in Thread, JavaEnds(t)
  PROVE  Stacked'
<1>1. Busy(t) /\ Top(t).k = "java" /\ CanEnter(t) BY DEF JavaEnds, InJava
<1>2. PICK c, m : Runs(t, c, m) BY <1>1, EnterRuns
<1>3. c = ctl[t] /\ c[Len(c)] = Top(t) /\ Len(c) \in Nat /\ Len(c) > 0 BY <1>1, <1>2, BusyFacts
      DEF Runs
<1>4. PICK a, f, r : a = Top(t) /\ f = Here /\ r = SubSeq(f, 1, Len(f) - Taken(a)) OBVIOUS
<1>5. ~a.failed /\ a.code = <<>> /\ stack' = SetFrame(stack, "main", r) /\ ctl' = Drop(t, 1)
  BY <1>4 DEF JavaEnds
<1>6. ctl' = [ctl EXCEPT ![t] = Front(c)] BY <1>3, <1>5 DEF Drop, Front
<1>7. Settled(a, Len(c), f, "sits") /\ IsSeq(f) BY <1>2, <1>3, <1>4, RunsTop
<1>8. a.k = "java" /\ Sound(a) /\ (Tracked(a, Len(c)) => Sits(a, f, Len(f)))
  BY <1>1, <1>4, <1>7 DEF Settled
<1>9. IsSeq(r)
  <2>1. Len(f) \in Nat BY <1>7, SeqFacts
  <2>2. PICK x : x = Len(f) - Taken(a) /\ x \in Int BY <1>8, <2>1 DEF Sound, Taken
  <2>3. r = SubSeq(f, 1, x) BY <1>4, <2>2
  <2> QED BY <1>7, <2>2, <2>3, CutFacts
<1>10. CASE Len(c) > 1
  <2>1. c[Len(c)].k = "java" BY <1>1, <1>3
  <2> QED BY <1>2, <1>5, <1>6, <1>9, <1>10, <2>1, DownStacked
<1>11. CASE ~(Len(c) > 1)
  <2>n. \A n \in Nat : n > 0 /\ ~(n > 1) => n = 1 OBVIOUS
  <2>1. Len(c) = 1 BY <1>3, <1>11, <2>n
  <2>2. a = c[1] BY <1>3, <1>4, <2>1
  <2>3. ctl'[t] = <<>> /\ \A s \in Thread \ {t} : ctl'[s] = ctl[s]
    <3>1. Control(c) BY <1>2 DEF Runs
    <3>2. Len(Front(c)) = Len(c) - 1 /\ IsSeq(Front(c))
      <4>1. IsSeq(c) /\ Len(c) > 0 BY <1>3, <3>1 DEF Control
      <4> QED BY <4>1, FrontFacts
    <3>3. Front(c) = <<>> BY <2>1, <3>2, SeqFacts
    <3> QED BY <1>6, <3>3 DEF Calls, Typed
  <2>4. ASSUME a.sync PROVE Len(r) = a.top /\ Same(f, r, a.top)
    <3>1. Sits(a, f, Len(f)) /\ a.who \notin Clears BY <1>8, <2>4 DEF Tracked, Sound, Clears
    <3>2. Len(a.code) = 0 BY <1>5, NilFacts
    <3>3. a.who \notin Clears => Len(r) = a.top /\ Same(f, r, a.top)
      <4>1. r = SubSeq(f, 1, Len(f) - Taken(a)) /\ ~a.failed BY <1>4, <1>5
      <4> QED BY ONLY <3>1, <3>2, <4>1, EndFacts
    <3> QED BY <3>1, <3>3
  <2>5. c[1].sync => Len(r) = c[1].top /\ Same(Here, r, c[1].top) BY <1>4, <2>2, <2>4
  <2> QED BY <1>2, <1>5, <1>9, <2>1, <2>3, <2>5, OutStacked
<1> QED BY <1>10, <1>11

LEMMA JavaFailsStacked ==
  ASSUME OneEngine, Stacked, Calls, Calls', NEW t \in Thread, JavaFails(t)
  PROVE  Stacked'
<1>1. Busy(t) /\ Top(t).k = "java" /\ CanEnter(t) /\ Top(t).failed BY DEF JavaFails, InJava
<1>2. PICK c, m : Runs(t, c, m) BY <1>1, EnterRuns
<1>3. /\ c = ctl[t] /\ c[Len(c)] = Top(t) /\ Len(c) \in Nat /\ Len(c) > 0 /\ Free(ctl, t)
      /\ Control(c)
  BY <1>1, <1>2, BusyFacts DEF Runs
<1>4. PICK a, f, r : /\ a = Top(t) /\ f = Here
                     /\ r = IF a.who = "trace" \/ (a.who = "call" /\ Last(f).t = "string")
                            THEN Front(f) ELSE f
  OBVIOUS
<1>5. stack' = SetFrame(stack, "main", r) BY <1>4 DEF JavaFails, RemovesError
<1> DEFINE leaks == a.who = "call" /\ Last(f).t # "string"
           spills(s) == Append(Front(ctl[s]), [Top(s) EXCEPT !.spilt = TRUE])
<1>6. ctl' = [s \in Thread |-> IF s = t THEN Front(ctl[t])
                               ELSE IF leaks /\ Len(ctl[t]) = 1 /\ InJava(s) THEN spills(s)
                               ELSE ctl[s]]
  BY <1>4 DEF JavaFails
<1>7. Settled(a, Len(c), f, "sits") /\ IsSeq(f) BY <1>2, <1>3, <1>4, RunsTop
<1>8. a.k = "java" /\ Sound(a) /\ (Tracked(a, Len(c)) => Sits(a, f, Len(f)))
  BY <1>1, <1>4, <1>7 DEF Settled
<1>9. IsSeq(r)
  <2>1. Len(f) \in Nat BY <1>7, SeqFacts
  <2>2. PICK x : x = Len(f) - 1 /\ x \in Int BY <2>1
  <2>3. Front(f) = SubSeq(f, 1, x) BY <2>2 DEF Front
  <2>4. IsSeq(Front(f)) BY <1>7, <2>2, <2>3, CutFacts
  <2> QED BY <1>4, <1>7, <2>4
<1>10. CASE Len(c) > 1
  <2>1. c[Len(c)].k = "java" BY <1>1, <1>3
  <2>2. Len(ctl[t]) # 1 BY <1>3, <1>10
  <2>3. ctl' = [ctl EXCEPT ![t] = Front(c)]
    <3>1. ctl' = [s \in Thread |-> IF s = t THEN Front(c) ELSE ctl[s]] BY <1>3, <1>6, <2>2
    <3> QED BY <3>1 DEF Calls, Typed
  <2> QED BY <1>2, <1>5, <1>9, <1>10, <2>1, <2>3, DownStacked
<1>11. CASE ~(Len(c) > 1)
  <2>n. \A n \in Nat : n > 0 /\ ~(n > 1) => n = 1 OBVIOUS
  <2>1. Len(c) = 1 BY <1>3, <1>11, <2>n
  <2>2. a = c[1] BY <1>3, <1>4, <2>1
  <2>3. ctl'[t] = <<>>
    <3>2. Len(Front(c)) = Len(c) - 1 /\ IsSeq(Front(c))
      <4>1. IsSeq(c) /\ Len(c) > 0 BY <1>3 DEF Control
      <4> QED BY <4>1, FrontFacts
    <3>3. Front(c) = <<>> BY <2>1, <3>2, SeqFacts
    <3> QED BY <1>3, <1>6, <3>3
  <2>4. ASSUME NEW s \in Thread \ {t}
        PROVE  /\ \/ ctl'[s] = ctl[s]
                  \/ /\ Len(ctl'[s]) = 1 /\ Len(ctl[s]) = 1 /\ ctl'[s][1].spilt
                     /\ ctl'[s][1].sync = ctl[s][1].sync /\ Sound(ctl'[s][1])
               /\ leaks /\ Len(ctl'[s]) = 1 => ctl'[s][1].spilt
    <3>1. CASE leaks /\ InJava(s)
      <4>1. Busy(s) /\ Top(s).k = "java" BY <3>1 DEF InJava
      <4>2. PICK e, b, d : e = ctl[s] /\ b = Top(s) /\ d = [Top(s) EXCEPT !.spilt = TRUE] OBVIOUS
      <4>3. /\ Control(e) /\ Len(e) \in Nat /\ Len(e) > 0 /\ b = e[Len(e)] /\ Formed(b)
               /\ b.k = "java"
        BY <4>1, <4>2, BusyFacts
      <4>4. Len(e) = 1
        <5>1. ~HoldsMonitor(e) BY <1>3, <4>2 DEF Free
        <5>2. ~(Len(e) > 1) BY <4>3, <5>1, DeepHolds
        <5> QED BY <2>n, <4>3, <5>2
      <4>5. b = e[1] /\ Sound(b)
        <5>1. Len(ctl[s]) > 0 => Sound(ctl[s][1]) BY DEF Stacked, StacksOf
        <5> QED BY <4>2, <4>3, <4>4, <5>1
      <4>6. Alike(b, d) /\ d.spilt = TRUE /\ d.sync = b.sync /\ Sound(d)
        <5>1. d = [b EXCEPT !.spilt = TRUE] BY <4>2
        <5>2. /\ Alike(b, d) /\ d.spilt = TRUE /\ d.sync = b.sync /\ d.who = b.who
              /\ d.code = b.code /\ d.nres = b.nres /\ d.top = b.top
          BY <4>3, <5>1 DEF Formed, Alike
        <5> QED BY <4>5, <5>2 DEF Sound
      <4>7. ctl'[s] = Append(Front(e), d) BY <1>3, <1>6, <2>1, <3>1, <4>2
      <4>8. Len(Append(Front(e), d)) = Len(e) /\ Append(Front(e), d)[Len(e)] = d
        <5>1. Control(e) /\ Len(e) > 0 /\ Alike(e[Len(e)], d) BY <4>3, <4>6
        <5> QED BY ONLY <5>1, RetopControl
      <4>9. Len(ctl'[s]) = 1 /\ ctl'[s][1] = d /\ Len(ctl[s]) = 1 /\ ctl[s][1] = b
        BY <4>2, <4>4, <4>5, <4>7, <4>8
      <4> QED BY <4>6, <4>9
    <3>2. CASE ~(leaks /\ InJava(s))
      <4>1. ctl'[s] = ctl[s] BY <1>6, <3>2
      <4>2. ASSUME leaks, Len(ctl[s]) = 1 PROVE FALSE
        <5>1. ctl[s] # <<>>
          <6>1. ASSUME ctl[s] = <<>> PROVE FALSE
            <7>1. Len(ctl[s]) = 0 BY <6>1, NilFacts
            <7> QED BY <4>2, <7>1
          <6> QED BY <6>1
        <5>2. Busy(s) BY <5>1 DEF Busy
        <5>3. Top(s) = ctl[s][1] /\ Control(ctl[s]) BY <4>2, <5>2, BusyFacts
        <5>4. Top(s).k = "java" BY <4>2, <5>3 DEF Control
        <5> QED BY <3>2, <4>2, <5>2, <5>4 DEF InJava
      <4> QED BY <4>1, <4>2
    <3> QED BY <3>1, <3>2
  <2>5. ASSUME a.sync, ~leaks PROVE Len(r) = a.top /\ Same(f, r, a.top)
    <3>1. Sits(a, f, Len(f)) /\ a.failed BY <1>1, <1>4, <1>8, <2>5 DEF Tracked
    <3>2. a.who \in Failing /\ (a.who = "call" => Len(Front(f)) = a.top /\ Same(f, Front(f), a.top))
      BY <3>1, FailedFacts
    <3>3. a.who = "call" BY <1>8, <2>5, <3>2 DEF Sound, Failing
    <3> QED BY <1>4, <2>5, <3>2, <3>3
  <2>6. (\E s \in Thread \ {t} : Len(ctl'[s]) = 1 /\ ~ctl'[s][1].spilt) /\ c[1].sync =>
          Len(r) = c[1].top /\ Same(Here, r, c[1].top)
    BY <1>4, <2>2, <2>4, <2>5
  <2> QED BY <1>2, <1>5, <1>9, <2>1, <2>3, <2>4, <2>6, OutStacked
<1> QED BY <1>10, <1>11

LEMMA InitStacked == Init => Stacked
<1> SUFFICES ASSUME Init PROVE Stacked OBVIOUS
<1>1. PICK m, cs, w : m = stack["main"] /\ cs = ctl /\ w = "sits" OBVIOUS
<1>2. m = << <<>> >> /\ \A t \in Thread : cs[t] = <<>> /\ Len(cs[t]) = 0
  <2>1. stack = [l \in LuaThread |-> IF l = "main" THEN << <<>> >> ELSE <<>>]
        /\ ctl = [t \in Thread |-> <<>>]
    BY DEF Init
  <2> QED BY <1>1, <2>1, NilFacts DEF LuaThread
<1>3. IsSeq(m) /\ Len(m) = 1 /\ Framed(m)
  <2>1. PICK e : e = <<>> OBVIOUS
  <2>2. IsSeq(m) /\ Len(m) = 1 /\ m[1] = e BY <1>2, <2>1, OneFacts
  <2>3. IsSeq(e) /\ \A i \in 1 .. 1 : i = 1 BY <2>1, NilFacts
  <2> QED BY <2>2, <2>3 DEF Framed
<1>4. \A t \in Thread : Stands(cs[t], m, m[1], "sits")
  <2>1. PICK f : f = m[1] OBVIOUS
  <2>2. Stands(<<>>, m, f, w) BY <1>3, EmptyStands
  <2> QED BY <1>1, <1>2, <2>1, <2>2
<1>5. StacksOf(cs, m) BY <1>2, <1>3, <1>4 DEF StacksOf
<1> QED BY <1>1, <1>5 DEF Stacked

LEMMA NextStacked == OneEngine /\ Stacked /\ Calls /\ [Next]_vars => Stacked'
<1> SUFFICES ASSUME OneEngine, Stacked, Calls, [Next]_vars PROVE Stacked' OBVIOUS
<1>1. Calls' BY NextCalls
<1>2. CASE UNCHANGED vars
  <2>1. stack' = stack /\ ctl' = ctl BY <1>2 DEF vars
  <2> QED BY <2>1 DEF Stacked
<1>3. CASE Next
  BY <1>1, <1>3, StartsCallStacked, NativeStacked, LoadFailsStacked, NativePCallStacked,
     NativeDoFileStacked, JavaEndsStacked, JavaFailsStacked, ScriptFailsStacked, ScriptReturnsStacked,
     ScriptResumesStacked, ScriptLooksStacked, ScriptFindsClassStacked, ScriptCallsStacked,
     ScriptEntersStacked, MethodReturnsStacked, MethodThrowsStacked, MethodCallsStacked
  DEF Next
<1> QED BY <1>2, <1>3

\* The inductive invariant of the stack.
THEOREM StackedCorrect == OneEngine => (Spec => [](Stacked /\ Calls))
<1> SUFFICES ASSUME OneEngine PROVE Spec => [](Stacked /\ Calls) OBVIOUS
<1>1. Init => Stacked /\ Calls BY InitStacked, InitCalls
<1>2. (Stacked /\ Calls) /\ [Next]_vars => (Stacked /\ Calls)'
  <2>1. ASSUME Stacked, Calls, [Next]_vars PROVE Stacked' /\ Calls' BY <2>1, NextStacked, NextCalls
  <2> QED BY <2>1
<1> QED BY <1>1, <1>2, PTL DEF Spec

\* What a call got and left
NamesItself(got, due) == due = Nil /\ \E n \in OtherNames : got = Str(n)
Right(r) ==
  /\ r.l = "main" => r.got = r.due \/ NamesItself(r.got, r.due)
  /\ r.h = r.left \/ r.spilt

LEMMA AnswerRight ==
  ASSUME NEW got, NEW due, NEW l, l = "main" => got = due \/ NamesItself(got, due)
  PROVE  Right(Answer(got, due, l))
<1>1. PICK r : r = Answer(got, due, l) OBVIOUS
<1>2. r = [got |-> got, due |-> due, l |-> l, h |-> 0, left |-> 0, spilt |-> FALSE]
  BY <1>1 DEF Answer
<1>3. r.got = got /\ r.due = due /\ r.l = l /\ r.h = 0 /\ r.left = 0 BY <1>2
<1> QED BY <1>1, <1>3 DEF Right

LEMMA QuietRight == Quiet => Right(answer')
<1> SUFFICES ASSUME Quiet PROVE Right(answer') OBVIOUS
<1>1. PICK v, l : v = Nil /\ l = "main" OBVIOUS
<1>2. Right(Answer(v, v, l)) BY AnswerRight
<1> QED BY <1>1, <1>2 DEF Quiet

LEMMA EndedRight ==
  ASSUME NEW a, NEW got, NEW h, NEW left, got = a.ret, h = left \/ a.spilt
  PROVE  Right(Ended(a, got, h, left))
<1>1. PICK r : r = Ended(a, got, h, left) OBVIOUS
<1>2. r = [got |-> got, due |-> a.ret, l |-> "main", h |-> h, left |-> left, spilt |-> a.spilt]
  BY <1>1 DEF Ended
<1>3. r.got = got /\ r.due = a.ret /\ r.l = "main" /\ r.h = h /\ r.left = left /\ r.spilt = a.spilt
  BY <1>2
<1> QED BY <1>1, <1>3 DEF Right

\* Java code that runs, and what it has on the stack
LEMMA JavaHere ==
  ASSUME Stacked, Calls, NEW t \in Thread, InJava(t), CanEnter(t),
         NEW a, a = Top(t), NEW f, f = Here
  PROVE  /\ a.k = "java" /\ Formed(a) /\ Sound(a) /\ IsSeq(f)
         /\ a.sync \/ ~a.spilt => Sits(a, f, Len(f))
<1>1. Busy(t) /\ Top(t).k = "java" BY DEF InJava
<1>2. PICK c, m : Runs(t, c, m) BY <1>1, EnterRuns
<1>3. a = c[Len(c)] /\ Formed(a) BY <1>1, <1>2, BusyFacts DEF Runs
<1>4. Settled(a, Len(c), f, "sits") /\ IsSeq(f) BY <1>2, <1>3, RunsTop
<1> QED BY <1>1, <1>3, <1>4 DEF Settled, Tracked

LEMMA JavaEndsRight ==
  ASSUME Stacked, Calls, NEW t \in Thread, JavaEnds(t)
  PROVE  Right(answer')
<1>1. PICK a, f, r, left :
        /\ a = Top(t) /\ f = Here /\ r = SubSeq(f, 1, Len(f) - Taken(a))
        /\ left = CASE a.who = "eval" -> 0 [] a.who = "module" -> 1 [] a.who = "file" -> a.nres
                    [] OTHER -> a.top
  OBVIOUS
<1>2. /\ ~a.failed /\ a.code = <<>> /\ InJava(t) /\ CanEnter(t)
      /\ answer' = Ended(a, IF Taken(a) = 1 THEN Last(f) ELSE a.ret, Len(r), left)
  BY <1>1 DEF JavaEnds
<1>3. Sound(a) /\ (a.sync \/ ~a.spilt => Sits(a, f, Len(f))) BY <1>1, <1>2, JavaHere
<1>4. Len(a.code) = 0 BY <1>2, NilFacts
<1>5. ASSUME a.sync \/ ~a.spilt PROVE (Taken(a) = 1 => Last(f) = a.ret) /\ Len(r) = left
  <2>1. Sits(a, f, Len(f)) /\ ~a.failed /\ Len(a.code) = 0 /\ r = SubSeq(f, 1, Len(f) - Taken(a))
    BY <1>1, <1>2, <1>3, <1>4, <1>5
  <2>2. /\ Taken(a) = 1 => Last(f) = a.ret
        /\ a.who = "eval" => Len(r) = 0
        /\ a.who = "module" => Len(r) = 1
        /\ a.who = "file" => Len(r) = a.nres
        /\ a.who \notin Clears => Len(r) = a.top
    BY ONLY <2>1, EndFacts
  <2> QED BY <1>1, <2>2 DEF Clears
<1>6. PICK got, h : got = (IF Taken(a) = 1 THEN Last(f) ELSE a.ret) /\ h = Len(r) OBVIOUS
<1>7. got = a.ret /\ (h = left \/ a.spilt)
  <2>1. Taken(a) = 1 => a.sync BY <1>3 DEF Sound, Taken
  <2> QED BY <1>5, <1>6, <2>1
<1>8. Right(Ended(a, got, h, left)) BY ONLY <1>7, EndedRight
<1> QED BY <1>2, <1>6, <1>8

LEMMA JavaFailsRight ==
  ASSUME Stacked, Calls, NEW t \in Thread, JavaFails(t)
  PROVE  Right(answer')
<1>1. PICK a, f, r, b, left :
        /\ a = Top(t) /\ f = Here
        /\ r = (IF a.who = "trace" \/ (a.who = "call" /\ Last(f).t = "string") THEN Front(f) ELSE f)
        /\ b = (IF a.who = "call" /\ Last(f).t # "string" THEN [a EXCEPT !.spilt = TRUE] ELSE a)
        /\ left = CASE a.who \in {"eval", "module", "file"} ->
                         IF a.code = <<>> /\ a.who = "module" THEN 2 ELSE 1
                    [] a.who \in {"global", "trace"} -> a.top + 1
                    [] OTHER -> a.top
  OBVIOUS
<1>2. InJava(t) /\ CanEnter(t) /\ a.failed /\ answer' = Ended(b, a.ret, Len(r), left)
  BY <1>1 DEF JavaFails, RemovesError
<1>3. a.k = "java" /\ Formed(a) /\ Sound(a) /\ (a.sync \/ ~a.spilt => Sits(a, f, Len(f)))
  BY <1>1, <1>2, JavaHere
<1>4. b.ret = a.ret
      /\ (b.spilt = a.spilt \/ (a.who = "call" /\ Last(f).t # "string" /\ b.spilt = TRUE))
  <2>1. PICK d : d = [a EXCEPT !.spilt = TRUE] OBVIOUS
  <2>2. d.ret = a.ret /\ d.spilt = TRUE BY <1>3, <2>1 DEF Formed
  <2> QED BY <1>1, <2>1, <2>2
<1>5. ASSUME ~b.spilt PROVE Len(r) = left
  <2>1. /\ Sits(a, f, Len(f)) /\ a.failed BY <1>2, <1>3, <1>4, <1>5
  <2>2. /\ a.who \in Failing
        /\ a.who \in {"eval", "module", "file"} =>
             Len(f) = IF Len(a.code) = 0 /\ a.who = "module" THEN 2 ELSE 1
        /\ a.who = "global" => Len(f) = a.top + 1
        /\ a.who = "call" => Len(Front(f)) = a.top
        /\ a.who = "trace" => Len(Front(f)) = a.top + 1
    BY ONLY <2>1, FailedFacts
  <2>3. a.code = <<>> <=> Len(a.code) = 0 BY <1>3, SeqFacts DEF Sound, Coded
  <2>4. CASE a.who = "call" BY <1>1, <1>4, <1>5, <2>2, <2>4
  <2>5. CASE a.who = "global" BY <1>1, <2>2, <2>5
  <2>6. CASE a.who \in {"eval", "module", "file"} BY <1>1, <2>2, <2>3, <2>6
  <2>7. CASE a.who = "trace" BY <1>1, <2>2, <2>7
  <2> QED BY <2>2, <2>4, <2>5, <2>6, <2>7 DEF Failing
<1>6. PICK got, h : got = a.ret /\ h = Len(r) OBVIOUS
<1>7. got = b.ret /\ (h = left \/ b.spilt) BY <1>4, <1>5, <1>6
<1>8. Right(Ended(b, got, h, left)) BY ONLY <1>7, EndedRight
<1> QED BY <1>2, <1>6, <1>8

\* What LuaJavaAPI pushes for a script is on top of the frame of the main thread.
LEMMA PushedRight ==
  ASSUME Calls, NEW t \in Thread, InScript(t), NEW x, NEW y, NEW v,
         answer' = Answer(Last(Frame(Pushed(Top(t).l, <<x, y>>, v), Top(t).l)), v, Top(t).l)
  PROVE  Right(answer')
<1>1. PICK l, f : l = Top(t).l /\ f = <<x, y>> OBVIOUS
<1>2. l \in LuaThread /\ Stacks(stack) /\ IsSeq(f) BY <1>1, ScriptFacts, PairSeq
<1>3. PICK got : got = Last(Frame(Pushed(l, f, v), l)) OBVIOUS
<1>4. l = "main" => got = v BY <1>2, <1>3, PushedIs
<1>5. Right(Answer(got, v, l)) BY ONLY <1>4, AnswerRight
<1> QED BY <1>1, <1>3, <1>5

LEMMA ScriptFindsClassRight ==
  ASSUME Calls, NEW t \in Thread, ScriptFindsClass(t)
  PROVE  Right(answer')
<1>1. InScript(t) BY DEF ScriptFindsClass
<1>2. CASE \E n : answer' = Answer(Last(Frame(Pushed(Top(t).l, <<Table("_G"), Str(n)>>, Object(n)), Top(t).l)),
                                   Object(n), Top(t).l)
  <2>1. PICK n : answer' = Answer(Last(Frame(Pushed(Top(t).l, <<Table("_G"), Str(n)>>, Object(n)), Top(t).l)),
                                  Object(n), Top(t).l)
    BY <1>2
  <2>2. PICK x, y, v : x = Table("_G") /\ y = Str(n) /\ v = Object(n) OBVIOUS
  <2> QED BY <1>1, <2>1, <2>2, PushedRight
<1>3. CASE \E n \in OtherNames :
        answer' = Answer(Last(Frame(PushFrame(stack, Top(t).l, <<Table("_G"), Str(n)>>), Top(t).l)),
                         Nil, Top(t).l)
  <2>1. PICK n \in OtherNames :
          answer' = Answer(Last(Frame(PushFrame(stack, Top(t).l, <<Table("_G"), Str(n)>>), Top(t).l)),
                           Nil, Top(t).l)
    BY <1>3
  <2>2. PICK l, f, st, got, due :
          /\ l = Top(t).l /\ f = <<Table("_G"), Str(n)>> /\ st = stack /\ due = Nil
          /\ got = Last(Frame(PushFrame(st, l, f), l))
    OBVIOUS
  <2>3. l = "main" => got = Str(n)
    <3>1. Stacks(st) BY <2>2 DEF Calls, Typed
    <3>2. PICK m : m = st["main"] /\ IsSeq(m) BY <3>1 DEF Stacks
    <3>3. l = "main" => PushFrame(st, l, f)["main"] = Append(m, f)
      <4>1. PICK o \in LuaThread : l = "main" => o = l BY DEF LuaThread
      <4>2. PushFrame(st, o, f)["main"] = IF o = "main" THEN Append(st["main"], f) ELSE st["main"]
        BY <3>1, <4>1, MainIs
      <4> QED BY <3>2, <4>1, <4>2
    <3>4. Last(Append(m, f)) = f BY <3>2, FrontOfAppend
    <3>5. Last(f) = Str(n)
      <4>1. PICK y, x : y = Str(n) /\ x = Table("_G") OBVIOUS
      <4>2. f = <<x, y>> BY <2>2, <4>1
      <4>3. Last(f) = y BY ONLY <4>2 DEF Last
      <4> QED BY <4>1, <4>3
    <3> QED BY <2>2, <3>3, <3>4, <3>5 DEF Frame
  <2>4. l = "main" => got = due \/ NamesItself(got, due) BY <2>2, <2>3 DEF NamesItself
  <2>5. Right(Answer(got, due, l)) BY ONLY <2>4, AnswerRight
  <2> QED BY <2>1, <2>2, <2>5
<1> QED BY <1>2, <1>3 DEF ScriptFindsClass

LEMMA ScriptLooksRight ==
  ASSUME Calls, NEW t \in Thread, ScriptLooks(t)
  PROVE  Right(answer')
<1>1. InScript(t) BY DEF ScriptLooks
<1>2. PICK u \in Userdata, key \in Names :
        IF u \in Classes THEN ClassIndex(t, u, key) ELSE ObjectIndex(t, u, key)
  BY DEF ScriptLooks
<1>3. CASE ObjectIndex(t, u, key) /\ key \in Fields
  <2>1. PICK x, y, v : x = Object(u) /\ y = Str(key) /\ v = Value("field", key) OBVIOUS
  <2>2. answer' = Answer(Last(Frame(Pushed(Top(t).l, <<x, y>>, v), Top(t).l)), v, Top(t).l)
    BY <1>3, <2>1 DEF ObjectIndex
  <2> QED BY <1>1, <2>2, PushedRight
<1>4. CASE ObjectIndex(t, u, key) /\ key \notin Fields BY <1>4, QuietRight DEF ObjectIndex
<1>5. CASE ~ObjectIndex(t, u, key) BY <1>2, <1>5, QuietRight DEF ClassIndex
<1> QED BY <1>3, <1>4, <1>5

LEMMA MethodReturnsRight ==
  ASSUME Stacked, Calls, NEW t \in Thread, MethodReturns(t)
  PROVE  Right(answer')
<1>1. PICK st, m, h : st = stack /\ m = stack["main"] /\ Stacks(st) /\ h = Here
  BY DEF Calls, Typed
<1>2. PICK l, v, s, got :
        /\ l = Top(t).l /\ s = (IF v = Nil THEN st ELSE SetFrame(st, "main", Append(h, v)))
        /\ got = (IF Results(v) = 0 \/ Frame(s, l) = <<>> THEN Nil ELSE Last(Frame(s, l)))
        /\ answer' = Answer(got, v, l)
  BY <1>1 DEF MethodReturns
<1>3. IsSeq(h)
  <2>1. Busy(t) /\ Top(t).k # "java" BY DEF MethodReturns, InMethod
  <2>2. PICK c, n : Runs(t, c, n) BY <2>1, EnterRuns
  <2> QED BY <1>1, <2>2, RunsTop
<1>4. ASSUME l = "main" PROVE got = v
  <2>1. CASE v = Nil BY <1>2, <2>1 DEF Results
  <2>2. CASE v # Nil
    <3>1. PICK f, x : f = Append(h, v) /\ x = Front(m) OBVIOUS
    <3>2. s["main"] = Append(x, f) BY <1>1, <1>2, <2>2, <3>1, MainSet
    <3>3. IsSeq(x)
      <4>1. IsSeq(m) BY <1>1 DEF Stacks
      <4>2. Len(m) \in Nat BY <4>1, SeqFacts
      <4>3. Len(m) - 1 \in Int /\ x = SubSeq(m, 1, Len(m) - 1) BY <3>1, <4>2 DEF Front
      <4> QED BY <4>1, <4>3, CutFacts
    <3>4. Frame(s, l) = f BY <1>4, <3>2, <3>3, FrontOfAppend DEF Frame
    <3>5. Last(f) = v BY <1>3, <3>1, FrontOfAppend
    <3>6. f # <<>>
      <4>1. IsSeq(f) /\ Len(f) = Len(h) + 1 /\ Len(h) \in Nat BY <1>3, <3>1, AppendFacts, SeqFacts
      <4>2. Len(f) # 0 BY <4>1
      <4> QED BY <4>1, <4>2, SeqFacts
    <3>7. Results(v) = 1 /\ 1 # 0 BY <2>2 DEF Results
    <3> QED BY ONLY <1>2, <3>4, <3>5, <3>6, <3>7
  <2> QED BY <2>1, <2>2
<1>5. Right(Answer(got, v, l)) BY ONLY <1>4, AnswerRight
<1> QED BY <1>2, <1>5

LEMMA NextRight == Stacked /\ Calls /\ Right(answer) /\ [Next]_vars => Right(answer')
<1> SUFFICES ASSUME Stacked, Calls, Right(answer), [Next]_vars PROVE Right(answer') OBVIOUS
<1>1. CASE UNCHANGED vars BY <1>1 DEF vars
<1>2. ASSUME Quiet PROVE Right(answer') BY <1>2, QuietRight
<1>3. ASSUME NEW t \in Thread,
             \/ StartsCall(t) \/ Native(t) \/ LoadFails(t) \/ NativePCall(t) \/ NativeDoFile(t)
             \/ ScriptFails(t) \/ ScriptReturns(t) \/ ScriptResumes(t) \/ ScriptCalls(t) \/ ScriptEnters(t)
             \/ MethodThrows(t) \/ MethodCalls(t)
      PROVE  Quiet
  BY <1>3 DEF StartsCall, Native, LoadFails, NativePCall, NativeDoFile, ScriptFails, ScriptReturns,
              ScriptResumes, ScriptCalls, ScriptEnters, MethodThrows, MethodCalls
<1>4. CASE Next
  BY <1>2, <1>3, <1>4, JavaEndsRight, JavaFailsRight, ScriptLooksRight, ScriptFindsClassRight,
     MethodReturnsRight DEF Next
<1> QED BY <1>1, <1>4

LEMMA RightCorrect == OneEngine => (Spec => [](Right(answer)))
<1> SUFFICES ASSUME OneEngine PROVE Spec => [](Right(answer)) OBVIOUS
<1>1. Init => Right(answer)
  <2>1. PICK v, l : v = Nil /\ l = "main" OBVIOUS
  <2>2. Right(Answer(v, v, l)) BY AnswerRight
  <2> QED BY <2>1, <2>2 DEF Init
<1>2. (Stacked /\ Calls) /\ Right(answer) /\ [Next]_vars => Right(answer)'
  <2>1. ASSUME Stacked, Calls, Right(answer), [Next]_vars PROVE Right(answer') BY <2>1, NextRight
  <2>2. ASSUME Right(answer') PROVE Right(answer)' BY <2>2 DEF Right
  <2> QED BY <2>1, <2>2
<1>3. Spec => [](Stacked /\ Calls) BY StackedCorrect
<1> QED BY <1>1, <1>2, <1>3, PTL DEF Spec

\* What a Java method or field has reaches the script that asked for it, and
\* what a Lua function returns reaches Java (LuaState.call and the pushes of
\* LuaJavaAPI), except on a coroutine, whose stack LuaJavaAPI does not use.
\* The one answer that is not what Java gave is that of javaFindClass for a
\* global that is not set and names no class, which is its own name.
THEOREM AnswerArrivesCorrect == OneEngine => (Spec => []AnswerArrives)
<1> SUFFICES ASSUME OneEngine PROVE Spec => []AnswerArrives OBVIOUS
<1>1. Right(answer) => AnswerArrives BY DEF Right, NamesItself, AnswerArrives
<1>2. Spec => [](Right(answer)) BY RightCorrect
<1> QED BY <1>1, <1>2, PTL

\* Java code leaves the stack of the LuaState as high as it found it, and
\* where LuaEngine and LuaObject do not, exactly as much higher as their code
\* says: no call leaves part of its arguments or takes away what is another's.
THEOREM StackLeftAsFoundCorrect == OneEngine => (Spec => []StackLeftAsFound)
<1> SUFFICES ASSUME OneEngine PROVE Spec => []StackLeftAsFound OBVIOUS
<1>1. Right(answer) => StackLeftAsFound BY DEF Right, StackLeftAsFound
<1>2. Spec => [](Right(answer)) BY RightCorrect
<1> QED BY <1>1, <1>2, PTL

\* A pcall from Java calls the function that the Java code pushed with the
\* arguments that it pushed, whatever other threads and the callbacks of
\* scripts did to the stack between the natives, each of which takes the
\* monitor of its own.
THEOREM CallsWhatItPushedCorrect == OneEngine => (Spec => []CallsWhatItPushed)
<1> SUFFICES ASSUME OneEngine PROVE Spec => []CallsWhatItPushed OBVIOUS
<1>1. ASSUME Stacked, Calls PROVE CallsWhatItPushed
  <2>1. ASSUME NEW t \in Thread, NEW i \in DOMAIN ctl[t], ctl[t][i].k = "java"
        PROVE  ctl[t][i].did = ctl[t][i].meant \/ ctl[t][i].spilt
    <3>1. PICK cs, c, m, w : cs = ctl /\ c = ctl[t] /\ m = stack["main"] /\ w = "sits" OBVIOUS
    <3>2. StacksOf(cs, m) /\ \A s \in Thread : Control(cs[s])
      BY <1>1, <3>1 DEF Stacked, Calls, Good
    <3>3. Control(c) /\ i \in 1 .. Len(c) /\ Len(c) \in Nat /\ c[i].k = "java"
      <4>1. Control(c) BY <3>1, <3>2
      <4> QED BY <2>1, <3>1, <4>1, SeqFacts DEF Control
    <3>4. CASE Free(cs, t)
      <4>1. Stands(c, m, m[1], w) BY <3>1, <3>2, <3>4 DEF StacksOf
      <4>2. PICK lv : Part(c, m, lv, i, w) BY <3>3, <4>1 DEF Stands
      <4>3. Tracked(c[i], i) => c[i].did = c[i].meant BY <3>3, <4>2 DEF Part, Sits, Waits, Halts
      <4> QED BY <3>1, <4>3 DEF Tracked
    <3>5. CASE ~Free(cs, t)
      <4>1. PICK s \in Thread \ {t} : HoldsMonitor(cs[s]) BY <3>5 DEF Free
      <4>2. ~HoldsMonitor(cs[t])
        <5>1. Holds(s) BY <3>1, <3>2, <4>1, HoldsIs
        <5>2. ~Holds(t) BY <1>1, <5>1 DEF Calls, Exclusive
        <5> QED BY <3>1, <3>2, <5>2, HoldsIs
      <4>3. ~(Len(c) > 1) BY <3>1, <3>3, <4>2, DeepHolds
      <4>4. Len(cs[t]) = 1 /\ i = 1
        <5>n. \A n \in Nat : ~(n > 1) => \A j \in 1 .. n : n = 1 /\ j = 1 OBVIOUS
        <5>1. Len(c) = 1 /\ i = 1 BY ONLY <3>3, <4>3, <5>n
        <5> QED BY <3>1, <5>1
      <4>5. ~cs[t][1].spilt => Sits(cs[t][1], m[1], cs[s][1].top) BY <3>2, <4>1, <4>4 DEF StacksOf
      <4> QED BY <3>1, <4>4, <4>5 DEF Sits
    <3> QED BY <3>4, <3>5
  <2> QED BY <2>1 DEF CallsWhatItPushed
<1>2. Spec => [](Stacked /\ Calls) BY StackedCorrect
<1> QED BY <1>1, <1>2, PTL
=============================================================================
