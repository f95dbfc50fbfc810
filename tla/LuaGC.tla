------------------------------- MODULE LuaGC -------------------------------
(***************************************************************************)
(* The incremental garbage collector of the embedded Lua VM (jni/lua/lgc.c,*)
(* lfunc.c, lstring.c, lstate.c): tri-colour mark and sweep with two       *)
(* whites, write barriers, weak tables, finalizers of userdata, and open   *)
(* upvalues that point into thread stacks.                                 *)
(*                                                                         *)
(* Abstractions.  The gray, grayagain and weak lists (all threaded through *)
(* one gclist field) and the root list are sets: the model takes their     *)
(* members in any order, which covers the order of the C lists.  What is   *)
(* left on grayagain and weak when a mark phase ends, markroot drops       *)
(* unread; the model drops it at once.  "white" stands for the bit of      *)
(* currentwhite, "dead" for the other white bit.  A slot is a field of an  *)
(* object or a cell of a thread's stack; values that are not collectable   *)
(* are Nil; an entry of a weak table keeps its weak half.  A singlestep    *)
(* that sweeps up to GCSWEEPMAX objects is that many steps.                *)
(***************************************************************************)
EXTENDS Naturals

CONSTANTS Obj,      \* the memory cells objects are allocated in
          Kind,     \* Kind[o]: the type of the object that cell can hold
          Slots,    \* the fields of an object, the cells of a stack
          Main,     \* the main thread
          Registry, \* the registry table; stands for the globals, too
          Nil       \* no collectable value

Tables  == {o \in Obj : Kind[o] \in {"table", "weaktable"}}
Weak    == {o \in Obj : Kind[o] = "weaktable"}
Closures == {o \in Obj : Kind[o] = "function"}
Udata   == {o \in Obj : Kind[o] \in {"udata", "udata_gc"}}
HasGC   == {o \in Obj : Kind[o] = "udata_gc"}
Upvals  == {o \in Obj : Kind[o] = "upval"}
Threads == {o \in Obj : Kind[o] = "thread"}
Strings == {o \in Obj : Kind[o] = "string"}

Kinds == {"table", "weaktable", "function", "udata", "udata_gc",
          "upval", "thread", "string"}

ASSUME KindAssumption == Kind \in [Obj -> Kinds]
ASSUME RootAssumption == /\ Main \in Obj /\ Kind[Main] = "thread"
                         /\ Registry \in Obj /\ Kind[Registry] = "table"
ASSUME NilAssumption  == Nil \notin Obj /\ Nil \notin Threads \X Slots

VARIABLES marked,       \* marked[o]: "white" is the current white, "dead" the other
          gcstate,      \* the collector's phase; "closing", "closed": lua_close
          gray, grayagain, weak,  \* the collector's lists
          unswept,      \* what lies beyond sweepgc and sweepstrgc
          tmudata,      \* userdata waiting for their __gc call
          finalized,    \* userdata whose FINALIZEDBIT is set
          finalizing,   \* arguments of the __gc calls under way
          slot,         \* slot[o][i]: what field i of o refers to
          openat,       \* openat[u]: the stack cell of an open upvalue, or Nil
          L             \* the running thread

lists   == <<gray, grayagain, weak>>
fin     == <<tmudata, finalized, finalizing>>
heap    == <<slot, openat, L>>
vars    == <<marked, gcstate, lists, unswept, fin, heap>>

Empty   == [i \in Slots |-> Nil]

Alloc     == {o \in Obj : marked[o] # "free"}
White     == {o \in Obj : marked[o] \in {"white", "dead"}}
IsDead(o) == marked[o] = "dead"
IsOpen(u) == u \in Upvals /\ openat[u] # Nil
OpenOn(th) == {u \in Upvals : openat[u] # Nil /\ openat[u][1] = th}
-----------------------------------------------------------------------------
(* What an object refers to.  The argument of a running __gc call lies on  *)
(* a stack that atomic() scans again; it is counted with the main thread.  *)

Held(o) == {slot[o][i] : i \in Slots} \ {Nil}

Values(o) == IF IsOpen(o) THEN {slot[openat[o][1]][openat[o][2]]} \ {Nil}
             ELSE Held(o) \cup (IF o = Main THEN finalizing ELSE {})

\* What a mark of o leads to: a weak table does not keep what it refers to.
Children(o) == IF o \in Weak THEN {} ELSE Values(o)

\* The least set that includes R and follows every edge <<p, q>>.
Reach(R, edges) ==
  LET Extends(X) == \A e \in edges : e[1] \in R \cup X => e[2] \in R \cup X
      Closed == {R \cup X : X \in {Y \in SUBSET (Obj \ R) : Extends(Y)}}
  IN  {o \in Obj : \A C \in Closed : o \in C}

Roots == IF gcstate = "closed" THEN {} ELSE {Main, Registry, L}

\* What the program can get hold of, through weak references as well.
Accessible == Reach(Roots, UNION {{o} \X Values(o) : o \in Obj})
StronglyReachable == Reach(Roots, UNION {{o} \X Children(o) : o \in Obj})
-----------------------------------------------------------------------------
(* Marking.                                                                *)

\* The white objects that marking every member of S turns non-white:
\* reallymarkobject goes on into the value of an upvalue and into the
\* metatable and environment of a userdata, and queues the rest.
Newly(S) ==
  LET direct == S \cap White
      values == direct \cup (White \cap UNION {Children(u) : u \in direct \cap Upvals})
  IN  values \cup (White \cap UNION {Children(u) : u \in values \cap Udata})

Queued == Tables \cup Closures \cup Threads

\* The mark bits after reallymarkobject on the objects of m.
Paint(base, m) ==
  [o \in Obj |-> IF o \notin m THEN base[o]
                 ELSE IF o \in Udata \/ (o \in Upvals /\ ~IsOpen(o)) THEN "black"
                 ELSE "gray"]

Mark(base, S) ==
  /\ marked' = Paint(base, Newly(S))
  /\ gray' = gray \cup (Newly(S) \cap Queued)
  /\ UNCHANGED <<grayagain, weak>>

\* luaC_barrierf: o is black and about to refer to the white v.
BarrierForward(o, v) ==
  IF gcstate = "propagate" THEN Mark(marked, {v})
  ELSE marked' = [marked EXCEPT ![o] = "white"] /\ UNCHANGED lists

\* (Mutant: the table is not linked to grayagain.)
BarrierBackUnlisted(t) == /\ marked' = [marked EXCEPT ![t] = "gray"]
                          /\ UNCHANGED lists

\* luaC_barrierback: the black table t is about to refer to a white object.
BarrierBack(t) ==
  /\ marked' = [marked EXCEPT ![t] = "gray"]
  /\ grayagain' = grayagain \cup (IF gcstate = "propagate" THEN {t} ELSE {})
  /\ UNCHANGED <<gray, weak>>

NeedsBarrier(o, v) == o \notin Threads /\ marked[o] = "black" /\ v \in White

Barrier(o, v) ==
  \/ ~NeedsBarrier(o, v) /\ UNCHANGED <<marked, lists>>
  \/ NeedsBarrier(o, v) /\ o \in Tables /\ BarrierBack(o)
  \/ NeedsBarrier(o, v) /\ o \notin Tables /\ BarrierForward(o, v)

-----------------------------------------------------------------------------
(* The program.                                                            *)

\* luaC_link, luaS_newudata, newlstr, luaE_newthread: a new object, white and
\* empty, is put into cell i of the running thread's stack.  It goes to the
\* head of its list; should the sweep still meet it, it is of the current
\* white already, so unswept leaves it out.
New(o, i) ==
  /\ o \notin Upvals /\ marked[o] = "free"
  /\ marked' = [marked EXCEPT ![o] = "white"]
  /\ slot' = [slot EXCEPT ![L][i] = o]
  /\ UNCHANGED <<gcstate, lists, unswept, fin, openat, L>>

\* luaS_newlstr finds the string in the string table, dead or not.
Intern(s, i) ==
  /\ s \in Strings /\ marked[s] # "free"
  /\ marked' = [marked EXCEPT ![s] = IF IsDead(s) THEN "white" ELSE @]
  /\ slot' = [slot EXCEPT ![L][i] = s]
  /\ UNCHANGED <<gcstate, lists, unswept, fin, openat, L>>

\* Any store of an accessible v into an accessible o: a table entry, a
\* metatable or environment, an upvalue of a C closure, OP_SETUPVAL (through
\* an open upvalue into the stack), a local of a thread.
Store(o, i, v) ==
  LET at == IF IsOpen(o) THEN openat[o] ELSE <<o, i>>
  IN  /\ o \in Udata => v \in Tables \cup {Nil}
      /\ slot[o][i] \notin Upvals
      /\ slot' = [slot EXCEPT ![at[1]][at[2]] = v]
      /\ Barrier(o, v)
      /\ UNCHANGED <<gcstate, unswept, fin, openat, L>>

\* luaF_findupval: u is the open upvalue of cell i, or a new one.
FindUpval(u, i) ==
  \/ openat[u] = <<L, i>> /\ UNCHANGED openat
  \/ /\ \A p \in Upvals : openat[p] # <<L, i>>
     /\ marked[u] = "free"
     /\ openat' = [openat EXCEPT ![u] = <<L, i>>]

\* OP_CLOSURE: a closure c goes to cell j.  Its upvalue u is the one of cell
\* i, brought back if it was dead, or one of the enclosing function.
Capture(c, u, i, j) ==
  /\ marked[c] = "free"
  /\ FindUpval(u, i) \/ (u \in Accessible /\ UNCHANGED openat)
  /\ marked' = [marked EXCEPT ![c] = "white",
                   ![u] = IF @ = "free" \/ IsDead(u) THEN "white" ELSE @]
  /\ slot' = [slot EXCEPT ![c] = [@ EXCEPT ![i] = u], ![L] = [@ EXCEPT ![j] = c]]
  /\ UNCHANGED <<gcstate, lists, unswept, fin, L>>

\* (Mutant: no barrier for the value.)
LinkUpvalNoBarrier(u, v) ==
  /\ marked' = [marked EXCEPT ![u] = IF @ = "gray" THEN "black" ELSE @]
  /\ UNCHANGED lists

\* luaC_linkupval of an upvalue that just took v over: a gray one turns black
\* and needs a barrier, or, out of the mark phase, turns white.
LinkUpval(u, v) ==
  \/ marked[u] # "gray" /\ UNCHANGED <<marked, lists>>
  \/ /\ marked[u] = "gray" /\ gcstate = "propagate"
     /\ Mark([marked EXCEPT ![u] = "black"], {v})
  \/ /\ marked[u] = "gray" /\ gcstate # "propagate"
     /\ marked' = [marked EXCEPT ![u] = "white"]
     /\ UNCHANGED lists

\* luaF_close when cell i of the running thread goes out of scope: its open
\* upvalue u is freed if dead, or takes the value over and is linked as an
\* object of its own (luaC_linkupval), marked according to the phase.
CloseUpval(u, i) ==
  LET v == slot[L][i]
  IN  /\ u \in Upvals /\ openat[u] = <<L, i>>
      /\ openat' = [openat EXCEPT ![u] = Nil]
      /\ \/ /\ IsDead(u)
            /\ marked' = [marked EXCEPT ![u] = "free"]
            /\ slot' = [slot EXCEPT ![L][i] = Nil]
            /\ UNCHANGED lists
         \/ /\ ~IsDead(u)
            /\ slot' = [slot EXCEPT ![u] = [@ EXCEPT ![i] = v], ![L] = [@ EXCEPT ![i] = Nil]]
            /\ LinkUpval(u, v)
      /\ UNCHANGED <<gcstate, unswept, fin, L>>

\* lua_resume, lua_yield, a call from Java on another LuaState.
Switch(th) ==
  /\ L' = th
  /\ UNCHANGED <<marked, gcstate, lists, unswept, fin, slot, openat>>

\* The __gc metamethod of u returns, or fails: the error is the program's.
FinalizerReturns(u) ==
  /\ u \in finalizing
  /\ finalizing' = finalizing \ {u}
  /\ UNCHANGED <<marked, gcstate, lists, unswept, tmudata, finalized, heap>>
-----------------------------------------------------------------------------
(* The collector.                                                          *)

\* markroot, and markmt: the main thread, the globals and the registry.
MarkRoot ==
  /\ gcstate = "pause"
  /\ gcstate' = "propagate"
  /\ LET m == Newly({Main, Registry})
     IN  marked' = Paint(marked, m) /\ gray' = m \cap Queued
  /\ grayagain' = {} /\ weak' = {}
  /\ UNCHANGED <<unswept, fin, heap>>

\* (Mutant: strings and userdata are put on the gray list, too.)
PropagateQueuesAll(o) ==
  /\ gcstate = "propagate" /\ o \in gray
  /\ marked' = Paint([marked EXCEPT ![o] = "black"], Newly(Children(o)))
  /\ gray' = (gray \ {o}) \cup Newly(Children(o))
  /\ UNCHANGED <<gcstate, grayagain, weak, unswept, fin, heap>>

\* propagatemark: o turns black, but a thread and a weak table stay gray on
\* the list atomic() visits again.
Propagate(o) ==
  LET m == Newly(Children(o))
      stays == IF o \in Threads \cup Weak THEN "gray" ELSE "black"
  IN  /\ gcstate = "propagate" /\ o \in gray
      /\ marked' = Paint([marked EXCEPT ![o] = stays], m)
      /\ gray' = (gray \ {o}) \cup (m \cap Queued)
      /\ grayagain' = grayagain \cup ({o} \cap Threads)
      /\ weak' = weak \cup ({o} \cap Weak)
      /\ UNCHANGED <<gcstate, unswept, fin, heap>>

\* What propagateall marks, starting with the objects of S, when the objects
\* of white are white.
MarkAll(S, white) ==
  Reach(S \cap white, UNION {{o} \X (Children(o) \cap white) : o \in white})

\* (Mutants: what was not marked stays; every userdata is cleared.)
ClearedIfFinalized(o, iskey, live, gone) ==
  o \notin Strings /\ ~iskey /\ o \in Udata /\ o \in gone
ClearedIfUdata(o, iskey, live, gone) ==
  o \notin Strings /\ (o \notin live \/ (~iskey /\ o \in Udata))

\* iscleared, when the objects of live are marked and those of gone are, or
\* are about to be, finalized: such a userdata is kept as a key.
Cleared(o, iskey, live, gone) ==
  /\ o \notin Strings
  /\ o \notin live \/ (~iskey /\ o \in Udata /\ o \in gone)

\* (Mutant: currentwhite stays.)
FlipNot(m) == IF m = "free" THEN "free" ELSE "white"

\* currentwhite becomes the other white; what a full collection painted
\* before it started over counts as white.
Flip(m) == CASE m = "free" -> "free" [] m = "dead" -> "white" [] OTHER -> "dead"

\* The mark phase ends with the objects of live marked, those of live2 not
\* for a weak reference to a string alone: sep is separated, weak tables
\* (those of keys by key) are cleared, and the white of the dead becomes the
\* other one.
EndMark(sep, tm, live2, live) ==
  /\ marked' = [o \in Obj |->
                  IF o \notin live THEN Flip(marked[o])
                  ELSE IF o \in Strings \cup Threads \cup Weak \/ IsOpen(o)
                       THEN "gray" ELSE "black"]
  /\ finalized' = finalized \cup sep
  /\ tmudata' = tm
  /\ \E keys \in SUBSET Weak :
       slot' = [w \in Obj |-> [i \in Slots |->
                  IF w \in Weak \cap live2 /\ slot[w][i] # Nil
                     /\ Cleared(slot[w][i], w \in keys, live2, finalized \cup sep)
                  THEN Nil ELSE slot[w][i]]]
  /\ gray' = {} /\ grayagain' = {} /\ weak' = {}
  /\ unswept' = {o \in Alloc \ tm : ~IsOpen(o)}
  /\ gcstate' = "sweepstring"
  /\ UNCHANGED <<finalizing, openat, L>>

\* (Mutant: a userdata is separated whether or not it was before.)
FinishMarkTwice(before, S) ==
  \E live1 \in {before \cup MarkAll(S, Alloc \ before)} :
  \E sep \in {(Udata \cap Alloc) \ live1} :
  \E tm \in {tmudata \cup (sep \cap HasGC)} :
  \E live2 \in {live1 \cup MarkAll(tm \cup UNION {Children(u) : u \in tm}, Alloc \ live1)} :
     EndMark(sep, tm, live2, live2)

\* remarkupvals ... cleartable, with the objects of before marked already and
\* those of S to be marked: dead userdata are separated, and those that have a
\* finalizer are marked after all, with what they refer to.
FinishMark(before, S) ==
  \E live1 \in {before \cup MarkAll(S, Alloc \ before)} :
  \E sep \in {{u \in Udata \cap Alloc : u \notin live1 /\ u \notin finalized}} :
  \E tm \in {tmudata \cup (sep \cap HasGC)} :
  \E live2 \in {live1 \cup MarkAll(tm \cup UNION {Children(u) : u \in tm}, Alloc \ live1)} :
  \E live \in {live2 \cup (Strings \cap UNION {Held(w) : w \in Weak \cap live2})} :
     EndMark(sep, tm, live2, live)

\* (Mutant: open upvalues are not marked again.)
AtomicNoUpvals ==
  /\ gcstate = "propagate" /\ gray = {}
  /\ FinishMark(Alloc \ White, {L} \cup UNION {Children(o) : o \in grayagain \cup weak})

\* atomic(), once gray is empty: open upvalues that are gray, weak tables,
\* the running thread and the objects of grayagain are visited again.
Atomic ==
  /\ gcstate = "propagate" /\ gray = {}
  /\ LET again == grayagain \cup weak \cup {u \in Upvals : IsOpen(u) /\ marked[u] = "gray"}
     IN  FinishMark(Alloc \ White, {L} \cup UNION {Children(o) : o \in again})

\* luaC_fullgc, up to the sweep: a mark phase under way is dropped, nothing
\* dead is left, so all is white again, and the roots are marked from anew.
\* (In a sweep it finishes that first: those are the steps below.)  Userdata
\* still waiting for their __gc call are not white: markroot does not go on
\* from them, and marktmu marks what they refer to once more.
FullGC ==
  /\ gcstate \in {"pause", "propagate", "finalize"}
  /\ FinishMark(tmudata \ White, {Main, Registry, L})

\* singlestep in GCSsweepstring and GCSsweep, and freeobj: a dead object is
\* freed, another turns white.  A thread takes its open upvalues along; when
\* it is freed (luaE_freethread) those still alive are closed and linked.
Sweep(o) ==
  LET swept  == {o} \cup OpenOn(o)
      freed  == {p \in swept : IsDead(p)}
      closed == IF o \in freed THEN OpenOn(o) \ freed ELSE {}
  IN  /\ gcstate = (IF o \in Strings THEN "sweepstring" ELSE "sweep")
      /\ o \in unswept
      /\ marked' = [p \in Obj |-> IF p \in freed THEN "free"
                                  ELSE IF p \in swept THEN "white" ELSE marked[p]]
      /\ slot' = [p \in Obj |->
                    IF p \in freed THEN Empty
                    ELSE IF p \in closed
                         THEN [Empty EXCEPT ![openat[p][2]] = slot[o][openat[p][2]]]
                    ELSE slot[p]]
      /\ openat' = [p \in Upvals |-> IF p \in freed \cup closed THEN Nil ELSE openat[p]]
      /\ finalized' = finalized \ freed
      /\ unswept' = unswept \ {o}
      /\ UNCHANGED <<gcstate, lists, tmudata, finalizing, L>>

\* The string table, then the root list, have been swept.
SweepEnds ==
  /\ \/ gcstate = "sweepstring" /\ unswept \cap Strings = {} /\ gcstate' = "sweep"
     \/ gcstate = "sweep" /\ unswept = {} /\ gcstate' = "finalize"
  /\ UNCHANGED <<marked, lists, unswept, fin, heap>>

\* (Mutant: u keeps its colour.)
GCTMBlack(u) ==
  /\ gcstate \in {"finalize", "closing"} /\ u \in tmudata
  /\ tmudata' = tmudata \ {u}
  /\ finalizing' = finalizing \cup {u}
  /\ UNCHANGED <<marked, gcstate, lists, unswept, finalized, heap>>

\* GCTM: u goes back to the root list and its __gc metamethod is called.
GCTM(u) ==
  /\ gcstate \in {"finalize", "closing"} /\ u \in tmudata
  /\ tmudata' = tmudata \ {u}
  /\ finalizing' = finalizing \cup {u}
  /\ marked' = [marked EXCEPT ![u] = "white"]
  /\ UNCHANGED <<gcstate, lists, unswept, finalized, heap>>

CycleEnds ==
  /\ gcstate = "finalize" /\ tmudata = {} /\ gcstate' = "pause"
  /\ UNCHANGED <<marked, lists, unswept, fin, heap>>

Collect == \/ MarkRoot \/ Atomic \/ SweepEnds \/ CycleEnds
           \/ \E o \in Obj : Propagate(o) \/ Sweep(o) \/ GCTM(o)
-----------------------------------------------------------------------------
(* lua_close, called from outside any Lua function: every userdata that    *)
(* has a __gc metamethod and was not finalized is, then all is freed.  No  *)
(* allocation runs a collector step any more: GCTM moved the threshold out *)
(* of reach.  A __gc metamethod that calls collectgarbage is left out.     *)

Close ==
  /\ gcstate \notin {"closing", "closed"} /\ OpenOn(Main) = {} /\ finalizing = {}
  /\ gcstate' = "closing"
  /\ tmudata' = tmudata \cup {u \in HasGC \cap Alloc : u \notin finalized}
  /\ finalized' = finalized \cup (Udata \cap Alloc)
  /\ slot' = [slot EXCEPT ![Main] = Empty]
  /\ L' = Main
  /\ UNCHANGED <<marked, lists, unswept, finalizing, openat>>

\* close_state, luaC_freeall.
FreeAll ==
  /\ gcstate = "closing" /\ tmudata = {} /\ finalizing = {}
  /\ gcstate' = "closed"
  /\ marked' = [o \in Obj |-> "free"]
  /\ slot' = [o \in Obj |-> Empty]
  /\ openat' = [u \in Upvals |-> Nil]
  /\ unswept' = {} /\ finalized' = {}
  /\ UNCHANGED <<lists, tmudata, finalizing, L>>
-----------------------------------------------------------------------------
Init ==
  /\ marked = [o \in Obj |-> IF o \in {Main, Registry} THEN "white" ELSE "free"]
  /\ gcstate = "pause"
  /\ gray = {} /\ grayagain = {} /\ weak = {} /\ unswept = {}
  /\ tmudata = {} /\ finalized = {} /\ finalizing = {}
  /\ slot = [o \in Obj |-> Empty]
  /\ openat = [u \in Upvals |-> Nil]
  /\ L = Main

Mutate ==
  \/ \E o \in Obj, i \in Slots : New(o, i) \/ Intern(o, i) \/ CloseUpval(o, i)
  \/ LET A == Accessible
     IN  \/ \E o \in A \ Strings, v \in (A \ Upvals) \cup {Nil}, i \in Slots : Store(o, i, v)
         \/ \E th \in A \cap Threads : Switch(th)
  \/ \E c \in Closures, u \in Upvals, i, j \in Slots : Capture(c, u, i, j)
  \/ \E u \in Udata : FinalizerReturns(u)

\* After lua_close nothing happens.
Next ==
  \/ gcstate # "closed" /\ (Mutate \/ Collect \/ FullGC \/ Close \/ FreeAll)
  \/ gcstate = "closed" /\ UNCHANGED vars

Spec == Init /\ [][Next]_vars

\* The program keeps allocating, so luaC_checkGC keeps running steps, and
\* every __gc metamethod comes to an end.  luaC_fullgc does not return before
\* it has called those that wait, in the order luaC_separateudata queued them:
\* no repetition of full collections keeps one waiting for ever.
FairSpec == /\ Spec /\ WF_vars(gcstate # "closed" /\ Collect)
            /\ WF_vars(\E u \in Udata : FinalizerReturns(u))
            /\ \A u \in HasGC : SF_vars(GCTM(u))
-----------------------------------------------------------------------------
(* Properties.                                                             *)

\* The variables keep their types: luaC_* only ever leave one of these.
TypeOK ==
  /\ marked \in [Obj -> {"free", "white", "dead", "gray", "black"}]
  /\ gcstate \in {"pause", "propagate", "sweepstring", "sweep", "finalize",
                  "closing", "closed"}
  /\ gray \subseteq Queued /\ grayagain \subseteq Queued /\ weak \subseteq Weak
  /\ unswept \subseteq Obj
  /\ tmudata \subseteq HasGC /\ finalized \subseteq Udata /\ finalizing \subseteq HasGC
  /\ slot \in [Obj -> [Slots -> Obj \cup {Nil}]]
  /\ openat \in [Upvals -> (Threads \X Slots) \cup {Nil}]
  /\ L \in Threads

\* Nothing the program can still get hold of, through stacks, tables, weak
\* tables, upvalues or a finalizer's argument, was freed or is about to be:
\* the collector never pulls an object from under a running script.
LiveKept == \A o \in Accessible : marked[o] # "free" /\ ~IsDead(o)

\* While the mark phase is interrupted by the program, no black object
\* refers to a white one: the write barriers of lgc.h are called everywhere.
TriColour ==
  gcstate = "propagate" =>
    \A o \in Obj : marked[o] = "black" => Children(o) \cap White = {}

\* In the mark phase every gray object that has references of its own waits
\* on exactly one of the three lists that share the gclist field, so none is
\* forgotten and none of the lists runs into another.
GrayListed ==
  gcstate = "propagate" =>
    /\ gray \cap grayagain = {} /\ gray \cap weak = {} /\ grayagain \cap weak = {}
    /\ \A o \in Queued : marked[o] = "gray" <=> o \in gray \cup grayagain \cup weak

\* Outside mark and sweep every object in the root list is of the current
\* white: the lua_assert of luaC_barrierf and luaC_barrierback on gcstate.
WhiteBetweenCycles ==
  gcstate \in {"pause", "finalize"} =>
    \A o \in Alloc \ tmudata : marked[o] = "white"

\* What marking the roots leads to when it does not go on from the userdata
\* that still wait for their __gc call.
ReachablePastPending == Reach(Roots, UNION {{o} \X Children(o) : o \in Obj \ tmudata})

\* An entry leaves a weak table only when nothing but weak references led to
\* the object, or, for a value, when the object is a userdata at the end of
\* its life: finalized already, or reached only by way of a userdata that
\* still waits for its __gc call when a full collection starts.
WeakClearedIfDead ==
  [][\A w \in Weak, i \in Slots :
       gcstate' = "sweepstring" /\ gcstate # gcstate' /\ slot[w][i] # slot'[w][i]
         => \/ slot[w][i] \notin StronglyReachable
            \/ slot[w][i] \in finalized
            \/ slot[w][i] \in Udata \ ReachablePastPending]_vars

\* A userdata with a __gc metamethod is freed only after that was called for
\* it (by LuaJava's gc, which deletes the global reference to the Java
\* object), unless lua_close found it created by another finalizer.  It waits
\* for that call once, and leaves the queue for it alone, whatever full
\* collections start meanwhile.
FinalizeFirst ==
  \A u \in HasGC :
    /\ (marked[u] # "free" /\ marked'[u] = "free" /\ gcstate # "closing")
         => u \in finalized /\ u \notin tmudata \cup finalizing
    /\ u \in tmudata' \ tmudata => u \notin finalized
    /\ u \in tmudata \ tmudata' => u \in finalizing'
FinalizedBeforeFree == [][FinalizeFirst]_vars

\* Under the fairness of FairSpec, whatever the program lost hold of is freed,
\* or a finalizer gets it back.  (It cannot lose hold of the two roots.)
GarbageCollected ==
  \A o \in Obj \ {Main, Registry} :
    (o \in Alloc \ Accessible)
      ~> (marked[o] = "free" \/ o \in Accessible \/ gcstate = "closing")
=============================================================================
