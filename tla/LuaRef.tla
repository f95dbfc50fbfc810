------------------------------- MODULE LuaRef -------------------------------
(***************************************************************************)
(* References to Lua values held by Java: luaL_ref and luaL_unref          *)
(* (jni/lua/lauxlib.c) on the registry, as LuaObject.java drives them from *)
(* application threads, which construct LuaObjects, and from the finalizer *)
(* thread, which releases them, under the monitor of the LuaState.         *)
(*                                                                         *)
(* luaL_ref keeps its free references in a list threaded through the very  *)
(* table they index: t[0] is the first, t[r] the one after r, nil ends it. *)
(* Each read of t[0] and each write of the table is a step, so that two    *)
(* Java threads that do not hold the same monitor interleave as they can   *)
(* in the native code.                                                     *)
(***************************************************************************)
EXTENDS Integers

CONSTANTS App,        \* the application's Java threads
          Finalizer,  \* the thread that runs finalize()
          Object,     \* the LuaObjects
          State,      \* the LuaState objects that share one Lua VM
          StateOf,    \* StateOf[o]: the LuaState that o was constructed with
          Value,      \* the Lua values other than nil; numbers may be among them
          Nil         \* Lua's nil

Thread == App \cup {Finalizer}

ASSUME ThreadAssumption == Finalizer \notin App
ASSUME StateAssumption  == StateOf \in [Object -> State]
ASSUME ValueAssumption  == Nil \notin Value /\ Nil \notin Int

VARIABLES t,       \* the integer keys 0..n of the registry
          life,    \* life[o]: "none", "new", "live", "garbage", "gone"
          val,     \* val[o]: the value o was constructed for
          ref,     \* ref[o]: LuaObject.ref
          pc,      \* pc[th]: where thread th is
          on,      \* on[th]: the LuaObject it works for
          head,    \* head[th]: the C local that holds t[FREELIST_REF], or ref
          open,    \* open[s]: LuaState.luaState is not null
          vm       \* whether the VM behind the LuaStates exists

vars == <<t, life, val, ref, pc, on, head, open, vm>>

LUA_REFNIL == -1
FREELIST_REF == 0

Idle(th)  == pc[th] = "idle"
Holds(th, s) == ~Idle(th) /\ StateOf[on[th]] = s
Free(s)   == \A th \in Thread : ~Holds(th, s)   \* the monitor of s is free

Get(r) == IF r \in DOMAIN t THEN t[r] ELSE Nil
Set(r, v) == t' = [i \in DOMAIN t \cup {r} |-> IF i = r THEN v ELSE t[i]]

\* lua_objlen may return any border of the table.
Borders == {n \in DOMAIN t : (n = 0 \/ Get(n) # Nil) /\ Get(n + 1) = Nil}

Goto(th, where, o, h) ==
  /\ pc' = [pc EXCEPT ![th] = where]
  /\ on' = [on EXCEPT ![th] = o]
  /\ head' = [head EXCEPT ![th] = h]
Leave(th) == Goto(th, "idle", on[th], 0)
-----------------------------------------------------------------------------
(* The constructors of LuaObject: each ends in registerValue, which pushes *)
(* the value and calls luaL_ref on the registry.                           *)

Construct(th, o, v) ==
  /\ th \in App /\ Idle(th) /\ life[o] = "none"
  /\ open[StateOf[o]] /\ Free(StateOf[o])
  /\ val' = [val EXCEPT ![o] = v]
  /\ life' = [life EXCEPT ![o] = "new"]
  /\ Goto(th, "ref", o, 0)
  /\ UNCHANGED <<t, ref, open, vm>>

Registered(th, r) ==
  /\ ref' = [ref EXCEPT ![on[th]] = r]
  /\ life' = [life EXCEPT ![on[th]] = "live"]
  /\ Leave(th)

\* nil has a reference of its own; otherwise ref = t[FREELIST_REF], 0 if nil.
RefHead(th) ==
  /\ pc[th] = "ref"
  /\ \/ /\ val[on[th]] = Nil
        /\ Registered(th, LUA_REFNIL)
     \/ /\ val[on[th]] # Nil
        /\ Goto(th, IF Get(FREELIST_REF) # Nil THEN "pop" ELSE "grow", on[th],
                IF Get(FREELIST_REF) # Nil THEN Get(FREELIST_REF) ELSE 0)
        /\ UNCHANGED <<life, ref>>
  /\ UNCHANGED <<t, val, open, vm>>

\* (Mutant: the slot stays in the free list.)
RefPopKeeps(th) ==
  /\ pc[th] = "pop"
  /\ Goto(th, "store", on[th], head[th])
  /\ UNCHANGED <<t, life, val, ref, open, vm>>

\* t[FREELIST_REF] = t[ref]
RefPop(th) ==
  /\ pc[th] = "pop"
  /\ Set(FREELIST_REF, Get(head[th]))
  /\ Goto(th, "store", on[th], head[th])
  /\ UNCHANGED <<life, val, ref, open, vm>>

\* no free element: ref = lua_objlen + 1
RefGrow(th) ==
  /\ pc[th] = "grow"
  /\ \E n \in Borders : Goto(th, "store", on[th], n + 1)
  /\ UNCHANGED <<t, life, val, ref, open, vm>>

\* t[ref] = the value
RefStore(th) ==
  /\ pc[th] = "store"
  /\ Set(head[th], val[on[th]])
  /\ Registered(th, head[th])
  /\ UNCHANGED <<val, open, vm>>

\* The program drops its last reference to o.
Drop(o) ==
  /\ life[o] = "live"
  /\ life' = [life EXCEPT ![o] = "garbage"]
  /\ UNCHANGED <<t, val, ref, pc, on, head, open, vm>>
-----------------------------------------------------------------------------
(* LuaObject.finalize: unless the state was closed, luaL_unref, which does *)
(* nothing for the reference of nil.                                       *)

\* (Mutant: the reference of nil is released like any other.)
FinalizeNil(o) ==
  /\ Idle(Finalizer) /\ life[o] = "garbage" /\ Free(StateOf[o])
  /\ life' = [life EXCEPT ![o] = "gone"]
  /\ IF open[StateOf[o]] THEN Goto(Finalizer, "unref", o, 0) ELSE UNCHANGED <<pc, on, head>>
  /\ UNCHANGED <<t, val, ref, open, vm>>

Finalize(o) ==
  /\ Idle(Finalizer) /\ life[o] = "garbage" /\ Free(StateOf[o])
  /\ life' = [life EXCEPT ![o] = "gone"]
  /\ IF open[StateOf[o]] /\ ref[o] >= 0
     THEN Goto(Finalizer, "unref", o, 0)
     ELSE UNCHANGED <<pc, on, head>>
  /\ UNCHANGED <<t, val, ref, open, vm>>

\* lua_rawgeti(L, t, FREELIST_REF)
UnrefHead(th) ==
  /\ pc[th] = "unref"
  /\ Goto(th, "link", on[th], Get(FREELIST_REF))
  /\ UNCHANGED <<t, life, val, ref, open, vm>>

\* (Mutant: the rest of the free list is cut off.)
UnrefLinkNil(th) ==
  /\ pc[th] = "link"
  /\ Set(ref[on[th]], Nil)
  /\ Goto(th, "free", on[th], head[th])
  /\ UNCHANGED <<life, val, ref, open, vm>>

\* t[ref] = t[FREELIST_REF]
UnrefLink(th) ==
  /\ pc[th] = "link"
  /\ Set(ref[on[th]], head[th])
  /\ Goto(th, "free", on[th], head[th])
  /\ UNCHANGED <<life, val, ref, open, vm>>

\* t[FREELIST_REF] = ref
UnrefFree(th) ==
  /\ pc[th] = "free"
  /\ Set(FREELIST_REF, ref[on[th]])
  /\ Leave(th)
  /\ UNCHANGED <<life, val, ref, open, vm>>

\* (Mutant: close without the monitor.)
CloseAnyTime(s) ==
  /\ open[s] /\ open' = [open EXCEPT ![s] = FALSE]
  /\ vm' = "closed"
  /\ t' = [i \in {FREELIST_REF} |-> Nil]
  /\ UNCHANGED <<life, val, ref, pc, on, head>>

\* LuaState.close, under the monitor of s: lua_close ends the VM of every
\* LuaState that shares it; only the one closed forgets its pointer.
Close(s) ==
  /\ open[s] /\ Free(s)
  /\ open' = [open EXCEPT ![s] = FALSE]
  /\ vm' = "closed"
  /\ t' = [i \in {FREELIST_REF} |-> Nil]
  /\ UNCHANGED <<life, val, ref, pc, on, head>>
-----------------------------------------------------------------------------
Init ==
  /\ t = [i \in {FREELIST_REF} |-> Nil]
  /\ life = [o \in Object |-> "none"]
  /\ val = [o \in Object |-> Nil]
  /\ ref = [o \in Object |-> LUA_REFNIL]
  /\ pc = [th \in Thread |-> "idle"]
  /\ on \in [Thread -> Object] /\ \A th1, th2 \in Thread : on[th1] = on[th2]
  /\ head = [th \in Thread |-> 0]
  /\ open = [s \in State |-> TRUE]
  /\ vm = "open"

Lref(th) == RefHead(th) \/ RefPop(th) \/ RefGrow(th) \/ RefStore(th)
LunRef(th) == UnrefHead(th) \/ UnrefLink(th) \/ UnrefFree(th)

Next ==
  \/ \E th \in Thread : Lref(th) \/ LunRef(th)
  \/ \E th \in App, o \in Object, v \in Value \cup {Nil} : Construct(th, o, v)
  \/ \E o \in Object : Drop(o) \/ Finalize(o)
  \/ \E s \in State : Close(s)

Spec == Init /\ [][Next]_vars
-----------------------------------------------------------------------------
(* Properties.                                                             *)

\* The variables keep their types; references are natural numbers or REFNIL.
TypeOK ==
  /\ t \in [DOMAIN t -> Value \cup Nat \cup {Nil}] /\ DOMAIN t \subseteq Nat
  /\ life \in [Object -> {"none", "new", "live", "garbage", "gone"}]
  /\ val \in [Object -> Value \cup {Nil}]
  /\ ref \in [Object -> Nat \cup {LUA_REFNIL}]
  /\ pc \in [Thread -> {"idle", "ref", "pop", "grow", "store", "unref", "link", "free"}]
  /\ on \in [Thread -> Object]
  /\ head \in [Thread -> Nat \cup {Nil}]
  /\ open \in [State -> BOOLEAN]
  /\ vm \in {"open", "closed"}

Held == {o \in Object : life[o] \in {"live", "garbage"} /\ val[o] # Nil}

\* LuaObject.push pushes the value the object was constructed for, as long as
\* the object exists: no other reference is ever given the same slot.
PushesItsValue ==
  vm = "open" =>
    /\ \A o \in Held : Get(ref[o]) = val[o]
    /\ \A o \in Object : life[o] = "live" /\ val[o] = Nil => ref[o] = LUA_REFNIL

\* The slots that lead from t[0] to nil.
Chain == {r \in DOMAIN t \ {0} :
            \A X \in SUBSET DOMAIN t :
              (\A i \in X \cup {0} : Get(i) \in DOMAIN t => Get(i) \in X) => r \in X}

\* Between calls the free list holds every slot no LuaObject refers to, and
\* comes to an end: no reference is lost and none can be handed out twice.
FreeListWhole ==
  (vm = "open" /\ \A th \in Thread : Idle(th)) =>
    /\ Chain = DOMAIN t \ ({0} \cup {ref[o] : o \in Held})
    /\ \E r \in Chain \cup {0} : Get(r) = Nil

\* luaL_ref and luaL_unref never work on a VM that was closed meanwhile.
VMOutlivesCalls == \A th \in Thread : ~Idle(th) => vm = "open"
=============================================================================
