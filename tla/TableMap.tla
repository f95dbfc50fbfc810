------------------------------ MODULE TableMap ------------------------------
(***************************************************************************)
(* What a Lua table promises to the programs that use it: a finite map     *)
(* from keys to values, nil meaning absent, and a traversal (the loop that *)
(* calls next until it returns nil) which hands out every key of the table *)
(* exactly once, provided the loop body assigns only to fields that exist. *)
(* LuaTable, the table of ltable.c, implements it.                         *)
(***************************************************************************)
CONSTANTS Keys, Values, Nil

VARIABLES map,      \* the value of each key, or Nil
          seen,     \* the keys the traversal under way has handed out
          walking   \* a traversal is under way

mvars == <<map, seen, walking>>

Present == {k \in Keys : map[k] # Nil}

MInit == map = [k \in Keys |-> Nil] /\ seen = {} /\ walking = FALSE

Changed == {k \in Keys : map'[k] # map[k]}

\* One key gets another value; not a new key while a traversal is under way.
Assign == /\ UNCHANGED <<seen, walking>>
          /\ \E k \in Changed : /\ Changed = {k}
                                /\ map'[k] \in Values \cup {Nil}
                                /\ walking => map[k] # Nil

StartWalk == ~walking /\ walking' = TRUE /\ seen' = {} /\ Changed = {}

Visit(k) == /\ walking /\ k \notin seen /\ seen' = seen \cup {k}
            /\ k \in Present
            /\ Changed = {} /\ UNCHANGED walking

EndWalk == /\ walking /\ walking' = FALSE /\ seen' = {}
           /\ Present \subseteq seen
           /\ Changed = {}

MNext == \/ Assign
         \/ \E k \in Keys : Visit(k)
         \/ StartWalk \/ EndWalk

MSpec == MInit /\ [][MNext]_mvars
=============================================================================
