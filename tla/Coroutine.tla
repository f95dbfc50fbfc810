----------------------------- MODULE Coroutine -----------------------------
(***************************************************************************)
(* What coroutines promise a script and the application (LuaDo implements  *)
(* it): control passes like a stack of activations, the last one running.  *)
(* Java enters the main thread, also from a function that a coroutine      *)
(* called; a coroutine is suspended, active or dead, and active at most    *)
(* once.                                                                   *)
(***************************************************************************)
EXTENDS Naturals, Sequences

CONSTANTS Main,     \* the main thread, not one of Co
          Co        \* the coroutines

VARIABLES chain,    \* the threads that resumed, or were entered by, each other
          state     \* state[co]: "none", "suspended", "active", "dead"

vars == <<chain, state>>

Running == chain[Len(chain)]
Pop == chain' = SubSeq(chain, 1, Len(chain) - 1)

Init == chain = <<>> /\ state = [co \in Co |-> "none"]

\* Java runs a function in the main thread, and gets control back.
Enter == chain' = Append(chain, Main) /\ UNCHANGED state
Leave == chain # <<>> /\ Running = Main /\ Pop /\ UNCHANGED state

\* The steps of the running thread.
Create(co) ==
  /\ chain # <<>> /\ state[co] = "none"
  /\ state' = [state EXCEPT ![co] = "suspended"]
  /\ UNCHANGED chain

Resume(co) ==
  /\ chain # <<>> /\ state[co] = "suspended"
  /\ state' = [state EXCEPT ![co] = "active"]
  /\ chain' = Append(chain, co)

\* Too many nested C calls: a coroutine that has not started is lost.
Lose(co) ==
  /\ chain # <<>> /\ state[co] = "suspended"
  /\ state' = [state EXCEPT ![co] = "dead"]
  /\ UNCHANGED chain

\* The running coroutine gives control back to whoever resumed it.
Stop(co, how) ==
  /\ chain # <<>> /\ Running = co /\ co \in Co
  /\ state' = [state EXCEPT ![co] = how]
  /\ Pop

Next ==
  \/ Enter \/ Leave
  \/ \E co \in Co : \/ Create(co) \/ Resume(co) \/ Lose(co)
                    \/ \E how \in {"suspended", "dead"} : Stop(co, how)

Spec == Init /\ [][Next]_vars
=============================================================================
