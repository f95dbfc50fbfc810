---------------------------- MODULE StateFactory ----------------------------
(***************************************************************************)
(* LuaStateFactory.java's list of LuaStates, and how LuaState.java opens,  *)
(* wraps and closes the lua_States it lists.  The position of a LuaState   *)
(* is written into the registry of its VM (luajava_open); a call from Lua  *)
(* into Java reads it there and asks getExistingState for the LuaState to  *)
(* work on.                                                                *)
(*                                                                         *)
(* A lua_State is its address.  A freed address may be used again, by the  *)
(* next VM.  The methods of the factory run under its monitor, so each is  *)
(* one step.  The application does not use a VM that it closed, nor close  *)
(* one while another of its threads opens a LuaState on it.                *)
(***************************************************************************)
EXTENDS Integers, SequencesExt

CONSTANTS LuaState,   \* the LuaState objects
          VM,         \* the addresses of main lua_States; a VM is its address
          Coroutine,  \* the addresses of other lua_States
          VMOf,       \* VMOf[c]: the VM that may have a coroutine at c
          Null,       \* Java's null, and what is not there
          Together    \* how many VMs the application has open at a time

Address == VM \cup Coroutine
Home(p) == IF p \in VM THEN p ELSE VMOf[p]

ASSUME VMAssumption   == VM \cap Coroutine = {} /\ VMOf \in [Coroutine -> VM]
ASSUME NullAssumption == Null \notin LuaState \cup Address \cup Int

VARIABLES states,     \* LuaStateFactory.states; element i is states[i + 1]
          alive,      \* the VMs that exist
          index,      \* index[v]: "LuaJavaStateIndex" in the registry of v
          peer,       \* peer[s]: LuaState.luaState, Null once closed
          stateId,    \* stateId[s]: LuaState.stateId
          phase       \* phase[s]: "none", "insert" and "open" while it is
                      \* constructed, "failed", "ready", "closing", "closed";
                      \* "stale" when another LuaState closed its VM

vars == <<states, alive, index, peer, stateId, phase>>

At(i) == states[i + 1]
Set(i, s) == [states EXCEPT ![i + 1] = s]
\* (Mutant: List.add without the index.)
AddAtEnd(i, s) == Append(states, s)
Add(i, s) == InsertAt(states, i + 1, s)
Positions == 0 .. Len(states) - 1

\* (Mutant: always the first element.)
NextStateIndexZero == 0

\* getNextStateIndex: the first hole, or the end of the list.
NextStateIndex ==
  CHOOSE i \in 0 .. Len(states) : /\ i = Len(states) \/ At(i) = Null
                                  /\ \A j \in 0 .. i - 1 : At(j) # Null

GetCPtrPeer(s) == IF s = Null THEN Null ELSE peer[s]
-----------------------------------------------------------------------------
\* newLuaState, with the constructor LuaState(int) and luajava_open.
NewLuaState(s, v) ==
  /\ phase[s] = "none" /\ v \notin alive /\ Cardinality(alive) < Together
  /\ \E i \in {NextStateIndex} :
       /\ index' = [index EXCEPT ![v] = i]
       /\ stateId' = [stateId EXCEPT ![s] = i]
       /\ states' = Add(i, s)
  /\ alive' = alive \cup {v}
  /\ peer' = [peer EXCEPT ![s] = v]
  /\ phase' = [phase EXCEPT ![s] = "ready"]

\* The LuaStates p and s share a VM.
SameVM(p, s) == peer[p] # Null /\ peer[s] # Null /\ Home(peer[p]) = Home(peer[s])

Wrap(s, p) ==
  /\ phase[s] = "none"
  /\ peer' = [peer EXCEPT ![s] = p]
  /\ phase' = [phase EXCEPT ![s] = "insert"]
  /\ UNCHANGED <<states, alive, index, stateId>>

InUse(v) == /\ v \in alive
            /\ \A s \in LuaState : phase[s] = "closing" => Home(peer[s]) # v

Usable(parent) == phase[parent] = "ready" /\ InUse(Home(peer[parent]))

\* LuaState.newThread: _newthread returns the address of its own lua_State.
NewThread(s, parent) == Usable(parent) /\ Wrap(s, peer[parent])

\* LuaState.toThread: the address of a coroutine on the stack.
ToThread(s, parent) ==
  /\ Usable(parent)
  /\ \E c \in Coroutine : VMOf[c] = Home(peer[parent]) /\ Wrap(s, c)

\* insertLuaState, called by the constructor LuaState(CPtr): a LuaState with
\* the same address answers; List.set fails at the end of the list.
\* newThread's second call finds what this one found and changes nothing.
InsertLuaState(s) ==
  LET same == {i \in Positions : GetCPtrPeer(At(i)) = peer[s]}
      Listed(i) == i \in same /\ \A j \in same : i <= j
  IN  /\ phase[s] = "insert"
      /\ \/ \E i \in same :
              /\ Listed(i)
              /\ stateId' = [stateId EXCEPT ![s] = i]
              /\ phase' = [phase EXCEPT ![s] = "open"]
              /\ UNCHANGED states
         \/ /\ same = {} /\ NextStateIndex < Len(states)
            /\ states' = Set(NextStateIndex, s)
            /\ stateId' = [stateId EXCEPT ![s] = NextStateIndex]
            /\ phase' = [phase EXCEPT ![s] = "open"]
         \/ /\ same = {} /\ NextStateIndex = Len(states)
            /\ phase' = [phase EXCEPT ![s] = "failed"]
            /\ UNCHANGED <<states, stateId>>
      /\ UNCHANGED <<alive, index, peer>>

\* (Mutant: one less.)
LuajavaOpenLess(s) ==
  /\ phase[s] = "open"
  /\ index' = [index EXCEPT ![Home(peer[s])] = stateId[s] - 1]
  /\ phase' = [phase EXCEPT ![s] = "ready"]
  /\ UNCHANGED <<states, alive, peer, stateId>>

\* luajava_open, called by the constructor LuaState(CPtr).
LuajavaOpen(s) ==
  /\ phase[s] = "open"
  /\ index' = [index EXCEPT ![Home(peer[s])] = stateId[s]]
  /\ phase' = [phase EXCEPT ![s] = "ready"]
  /\ UNCHANGED <<states, alive, peer, stateId>>

\* LuaState.close begins with removeLuaState.
RemoveLuaState(s) ==
  /\ Usable(s)
  /\ \A o \in LuaState : SameVM(o, s) => phase[o] \notin {"insert", "open"}
  /\ states' = Add(stateId[s], Null)
  /\ phase' = [phase EXCEPT ![s] = "closing"]
  /\ UNCHANGED <<alive, index, peer, stateId>>

\* It goes on with lua_close, which ends the VM whichever of its lua_States
\* it is called with, and forgets the pointer.
CloseVM(s) ==
  /\ phase[s] = "closing"
  /\ alive' = alive \ {Home(peer[s])}
  /\ index' = [index EXCEPT ![Home(peer[s])] = Null]
  /\ peer' = [peer EXCEPT ![s] = Null]
  /\ phase' = [o \in LuaState |->
                 IF o = s THEN "closed"
                 ELSE IF phase[o] = "ready" /\ SameVM(o, s) THEN "stale" ELSE phase[o]]
  /\ UNCHANGED <<states, stateId>>
-----------------------------------------------------------------------------
Init ==
  /\ states = <<>> /\ alive = {}
  /\ index = [v \in VM |-> Null]
  /\ peer = [s \in LuaState |-> Null]
  /\ stateId = [s \in LuaState |-> Null]
  /\ phase = [s \in LuaState |-> "none"]

Next ==
  \E s \in LuaState :
    \/ \E v \in VM : NewLuaState(s, v)
    \/ \E parent \in LuaState : NewThread(s, parent) \/ ToThread(s, parent)
    \/ InsertLuaState(s) \/ LuajavaOpen(s) \/ RemoveLuaState(s) \/ CloseVM(s)

Spec == Init /\ [][Next]_vars
-----------------------------------------------------------------------------
(* Properties.                                                             *)

\* The variables keep their types.
TypeOK ==
  /\ states \in Seq(LuaState \cup {Null})
  /\ alive \subseteq VM
  /\ index \in [VM -> Nat \cup {Null}]
  /\ peer \in [LuaState -> Address \cup {Null}]
  /\ stateId \in [LuaState -> Nat \cup {Null}]
  /\ phase \in [LuaState -> {"none", "insert", "open", "failed", "ready",
                             "closing", "closed", "stale"}]

\* The index in the registry of a VM leads a call from Lua into Java to a
\* LuaState of that VM: the arguments are read from, and the result pushed
\* on, the stack of the VM that called.
FindsItsState ==
  \A v \in VM : InUse(v) =>
    /\ index[v] \in Positions /\ At(index[v]) # Null
    /\ peer[At(index[v])] # Null /\ Home(peer[At(index[v])]) = v

\* A LuaState that can be used is in the list, or an older one with its
\* address is: a lua_State is never lost from the list while it is in use.
NeverForgotten ==
  \A s \in LuaState : phase[s] = "ready" /\ InUse(Home(peer[s])) =>
    \E i \in Positions : GetCPtrPeer(At(i)) = peer[s]
=============================================================================
