------------------------------- MODULE LuaDo -------------------------------
(***************************************************************************)
(* Calls, protected calls, errors and coroutines of the Lua VM (ldo.c, the *)
(* coroutine library of lbaselib.c, lua_pcall of lapi.c), entered from     *)
(* Java by LuaState.pcall, also by Java functions that a script called.    *)
(*                                                                         *)
(* cstack is the C stack: an activation of luaV_execute with the C code    *)
(* that started it.  A longjmp of luaD_throw cuts it.  A C function that   *)
(* called back, or yielded, has a frame "C" in the CallInfos of its        *)
(* thread.  What a Lua function does next is any of the actions.  Values,  *)
(* hooks and the size of the stacks are left out: a status other than 0    *)
(* and LUA_YIELD is "error".                                               *)
(***************************************************************************)
EXTENDS Naturals, FiniteSets, SequencesExt

CONSTANTS Main,       \* the main thread
          Co,         \* the coroutines
          MAXCCALLS,  \* LUAI_MAXCCALLS
          Extra,      \* LUAI_MAXCCALLS >> 3, for the handling of errors
          MaxFrames   \* bounds the CallInfos of a thread (LUAI_MAXCALLS)

Thread == {Main} \cup Co
None == "none"

\* xpcall takes any value for its handler.
Handler == {None, "function", "value"}

ASSUME ThreadAssumption == Main \notin Co /\ None \notin Thread
ASSUME LimitAssumption  == /\ MAXCCALLS \in Nat \ {0, 1} /\ Extra \in Nat \ {0}
                           /\ MaxFrames \in Nat

VARIABLES status,     \* status[th]: L->status: "ok", "yield", "error"; "none": no thread yet
          fresh,      \* fresh[th]: the body of the coroutine waits on its stack
          ci,         \* ci[th]: the CallInfos above base_ci, "Lua" or "C"
          nCcalls,    \* nCcalls[th]
          baseCcalls, \* baseCcalls[th]
          errfunc,    \* errfunc[th]: what L->errfunc points to, "none" if it is 0
          cstack,     \* the C stack
          mode        \* "run"; "errormsg": in luaG_errormsg; "throw": in luaD_throw

vars == <<status, fresh, ci, nCcalls, baseCcalls, errfunc, cstack, mode>>

\* An activation: of luaV_execute in th over the frames above floor, for from,
\* with the L->nCcalls and L->errfunc of before.
Activation(kind, th, from, floor, wrap) ==
  [kind |-> kind, th |-> th, from |-> from, floor |-> floor, wrap |-> wrap,
   n |-> nCcalls[th], ef |-> errfunc[th]]

Top == cstack[Len(cstack)]
L == Top.th
Runs == cstack # <<>> /\ mode = "run"

\* (Mutant: LuaState.call instead of LuaState.pcall.)
ProtectsLua(r) == r.kind \in {"pcall", "resume"}
Protects(r) == r.kind \in {"pcall", "java", "resume"}

PushFrame(th, f) == [ci EXCEPT ![th] = Append(@, f)]
PopFrame(c, th) == [c EXCEPT ![th] = Front(@)]

\* What luaD_pcall saved: nCcalls comes back after an error, errfunc always.
\* (Mutant: nCcalls stays as the error left it.)
KeptCalls(r) == nCcalls
SavedCalls(r) == [nCcalls EXCEPT ![r.th] = r.n]
SavedErrfunc(r) == [errfunc EXCEPT ![r.th] = r.ef]

\* lua_setlevel.  (Mutant: a coroutine counts from its own nCcalls, 0.)
LevelZero == 0
Level == nCcalls[L]
-----------------------------------------------------------------------------
\* (Mutant: no second limit.)
LuaDCallOneLimit(r, frames) ==
  LET n == nCcalls[r.th] + 1
  IN  /\ nCcalls' = [nCcalls EXCEPT ![r.th] = n]
      /\ mode' = IF n = MAXCCALLS THEN "errormsg" ELSE "run"
      /\ cstack' = Append(cstack, r)
      /\ ci' = IF n = MAXCCALLS THEN frames ELSE [frames EXCEPT ![r.th] = Append(@, "Lua")]

\* luaD_call of a Lua function, in r: the check of the limit on nested C calls
\* is a part of r, and precedes the frame.
LuaDCall(r, frames) ==
  LET n == nCcalls[r.th] + 1
      fails == n = MAXCCALLS \/ n >= MAXCCALLS + Extra
  IN  /\ nCcalls' = [nCcalls EXCEPT ![r.th] = n]
      /\ mode' = IF n = MAXCCALLS THEN "errormsg" ELSE IF fails THEN "throw" ELSE "run"
      /\ cstack' = Append(cstack, r)
      /\ ci' = IF fails THEN frames ELSE [frames EXCEPT ![r.th] = Append(@, "Lua")]

\* OP_CALL of a Lua function: luaV_execute goes on with its frame.
CallLua ==
  /\ Runs /\ Len(ci[L]) < MaxFrames
  /\ ci' = PushFrame(L, "Lua")
  /\ UNCHANGED <<status, fresh, nCcalls, baseCcalls, errfunc, cstack, mode>>

\* A metamethod, called by the interpreter through luaD_call.
CallMeta ==
  /\ Runs /\ Len(ci[L]) < MaxFrames
  /\ LuaDCall(Activation("meta", L, None, Len(ci[L]), FALSE), ci)
  /\ UNCHANGED <<status, fresh, baseCcalls, errfunc>>

\* pcall, and xpcall, which sets a handler.
PCall(handler) ==
  /\ Runs /\ Len(ci[L]) < MaxFrames
  /\ LuaDCall(Activation("pcall", L, None, Len(ci[L]) + 1, FALSE), PushFrame(L, "C"))
  /\ errfunc' = [errfunc EXCEPT ![L] = handler]
  /\ UNCHANGED <<status, fresh, baseCcalls>>

\* LuaState.pcall(.., 0) on the main thread: from outside, or by a Java
\* function that the running thread called.
JavaPCall ==
  /\ mode = "run" /\ Len(ci[Main]) < MaxFrames
  /\ \/ /\ cstack = <<>>
        /\ LuaDCall(Activation("java", Main, None, Len(ci[Main]), FALSE), ci)
     \/ /\ cstack # <<>>
        /\ LET frames == PushFrame(L, "C")
           IN  LuaDCall(Activation("java", Main, L, Len(frames[Main]), FALSE), frames)
  /\ errfunc' = [errfunc EXCEPT ![Main] = None]
  /\ UNCHANGED <<status, fresh, baseCcalls>>

\* luaG_errormsg, by error, a runtime error or lua_error.
Error ==
  /\ Runs
  /\ mode' = "errormsg"
  /\ UNCHANGED <<status, fresh, ci, nCcalls, baseCcalls, errfunc, cstack>>

\* It calls the handler, if there is one, then luaD_throw: at once when the
\* handler is no function (LUA_ERRERR).
ErrorMsg ==
  /\ mode = "errormsg"
  /\ \/ /\ errfunc[L] = "function"
        /\ LuaDCall(Activation("handler", L, None, Len(ci[L]), FALSE), ci)
     \/ /\ errfunc[L] # "function" /\ mode' = "throw"
        /\ UNCHANGED <<ci, nCcalls, cstack>>
  /\ UNCHANGED <<status, fresh, baseCcalls, errfunc>>
-----------------------------------------------------------------------------
\* The Java function that made r returns to the thread it was called by, or
\* throws, which luaJavaFunctionCall makes an error of that thread.
JavaReturns(r, frames) ==
  \/ /\ r.from = None
     /\ ci' = frames /\ mode' = "run"
  \/ /\ r.from # None
     /\ \/ ci' = PopFrame(frames, r.from) /\ mode' = "run"
        \/ ci' = frames /\ mode' = "errormsg"

\* The coroutine of r stopped with an error: coroutine.resume returns it, the
\* function of coroutine.wrap raises it again.
ResumeFails(r, frames) ==
  IF r.wrap THEN ci' = frames /\ mode' = "errormsg"
  ELSE ci' = PopFrame(frames, r.from) /\ mode' = "run"

\* OP_RETURN of the last function of r, and what the C code of r does then.
Finish(r, frames) ==
  /\ nCcalls' = [nCcalls EXCEPT ![r.th] = @ - 1]
  /\ cstack' = Front(cstack)
  /\ errfunc' = IF r.kind \in {"pcall", "java"} THEN SavedErrfunc(r) ELSE errfunc
  /\ fresh' = fresh
  /\ \/ r.kind = "meta" /\ ci' = frames /\ mode' = "run"
     \/ r.kind = "handler" /\ ci' = frames /\ mode' = "throw"
     \/ r.kind = "pcall" /\ ci' = PopFrame(frames, r.th) /\ mode' = "run"
     \/ r.kind = "java" /\ JavaReturns(r, frames)
     \/ r.kind = "resume" /\ ci' = PopFrame(frames, r.from) /\ mode' = "run"

\* OP_RETURN: a frame of the same activation goes on, or that ends.
Return ==
  /\ Runs
  /\ \/ /\ Len(ci[L]) > Top.floor + 1
        /\ ci' = PopFrame(ci, L)
        /\ UNCHANGED <<fresh, nCcalls, errfunc, cstack, mode>>
     \/ Len(ci[L]) = Top.floor + 1 /\ Finish(Top, PopFrame(ci, L))
  /\ UNCHANGED <<status, baseCcalls>>

\* The activation whose jump buffer is L->errorJmp.
ErrorJmp(th) ==
  CHOOSE k \in DOMAIN cstack :
    /\ cstack[k].th = th /\ Protects(cstack[k])
    /\ \A j \in k + 1 .. Len(cstack) : cstack[j].th = th => ~Protects(cstack[j])

\* luaD_throw: luaD_pcall restores what it saved, lua_resume marks the thread.
Throw ==
  /\ mode = "throw"
  /\ \E k \in {ErrorJmp(L)} : \E r \in {cstack[k]} :
       LET frames == [ci EXCEPT ![r.th] = SubSeq(@, 1, r.floor)]
       IN  /\ cstack' = SubSeq(cstack, 1, k - 1)
           /\ \/ /\ r.kind # "resume"
                 /\ nCcalls' = SavedCalls(r)
                 /\ errfunc' = SavedErrfunc(r)
                 /\ \/ r.kind = "pcall" /\ ci' = PopFrame(frames, r.th) /\ mode' = "run"
                    \/ r.kind = "java" /\ JavaReturns(r, frames)
                 /\ UNCHANGED status
              \/ /\ r.kind = "resume"
                 /\ status' = [status EXCEPT ![r.th] = "error"]
                 /\ nCcalls' = [nCcalls EXCEPT ![r.th] = @ - 1]
                 /\ ResumeFails(r, ci)
                 /\ UNCHANGED errfunc
  /\ UNCHANGED <<fresh, baseCcalls>>
-----------------------------------------------------------------------------
\* (Mutant: it does not look for frames.)
CoStatusNoFrames(co) ==
  CASE status[co] = "none"  -> "none"
    [] status[co] = "yield" -> "suspended"
    [] status[co] = "error" -> "dead"
    [] OTHER -> IF fresh[co] THEN "suspended" ELSE "dead"

\* costatus, asked by another thread.
CoStatus(co) ==
  CASE status[co] = "none"  -> "none"
    [] status[co] = "yield" -> "suspended"
    [] status[co] = "error" -> "dead"
    [] OTHER -> IF ci[co] # <<>> THEN "active" ELSE IF fresh[co] THEN "suspended" ELSE "dead"

Create(co) ==
  /\ Runs /\ status[co] = "none"
  /\ status' = [status EXCEPT ![co] = "ok"]
  /\ fresh' = [fresh EXCEPT ![co] = TRUE]
  /\ UNCHANGED <<ci, nCcalls, baseCcalls, errfunc, cstack, mode>>

\* auxresume and lua_resume: resume goes on where the coroutine yielded, or
\* starts its body.  At the limit the message takes the place of a body that
\* waits on the stack.
Resume(co, wrap) ==
  LET frames == PushFrame(L, "C")
      r == Activation("resume", co, L, 0, wrap)
  IN  /\ Runs /\ Len(ci[L]) < MaxFrames /\ status[co] # "none"
      /\ \/ /\ co = L \/ CoStatus(co) # "suspended"
            /\ ResumeFails(r, frames)
            /\ UNCHANGED <<status, fresh, nCcalls, baseCcalls, cstack>>
         \/ /\ co # L /\ CoStatus(co) = "suspended" /\ Level >= MAXCCALLS
            /\ nCcalls' = [nCcalls EXCEPT ![co] = Level]
            /\ fresh' = [fresh EXCEPT ![co] = FALSE]
            /\ ResumeFails(r, frames)
            /\ UNCHANGED <<status, baseCcalls, cstack>>
         \/ /\ co # L /\ CoStatus(co) = "suspended" /\ Level < MAXCCALLS
            /\ nCcalls' = [nCcalls EXCEPT ![co] = Level + 1]
            /\ baseCcalls' = [baseCcalls EXCEPT ![co] = Level + 1]
            /\ status' = [status EXCEPT ![co] = "ok"]
            /\ fresh' = [fresh EXCEPT ![co] = FALSE]
            /\ ci' = [frames EXCEPT ![co] = IF @ = <<>> THEN <<"Lua">> ELSE Front(@)]
            /\ cstack' = Append(cstack, r)
            /\ UNCHANGED mode
      /\ UNCHANGED errfunc

\* The test of lua_yield.  (Mutant: one nested C call is let through.)
OneMayYield == nCcalls[L] <= baseCcalls[L] + 1
MayYield == nCcalls[L] <= baseCcalls[L]

\* coroutine.yield: luaV_execute returns to the C code below, which takes it
\* for a yield if that is lua_resume, and for a return if it is not.
Yield ==
  /\ Runs
  /\ \/ /\ ~MayYield
        /\ mode' = "errormsg"
        /\ UNCHANGED <<status, ci, nCcalls, cstack>>
     \/ /\ MayYield
        /\ status' = [status EXCEPT ![L] = "yield"]
        /\ nCcalls' = [nCcalls EXCEPT ![L] = @ - 1]
        /\ cstack' = Front(cstack)
        /\ LET frames == PushFrame(L, "C")
           IN  ci' = IF Top.kind = "resume" THEN PopFrame(frames, Top.from) ELSE frames
        /\ UNCHANGED mode
  /\ UNCHANGED <<fresh, baseCcalls, errfunc>>
-----------------------------------------------------------------------------
Init ==
  /\ status = [th \in Thread |-> IF th = Main THEN "ok" ELSE "none"]
  /\ fresh = [th \in Thread |-> FALSE]
  /\ ci = [th \in Thread |-> <<>>]
  /\ nCcalls = [th \in Thread |-> 0]
  /\ baseCcalls = [th \in Thread |-> 0]
  /\ errfunc = [th \in Thread |-> None]
  /\ cstack = <<>>
  /\ mode = "run"

Next ==
  \/ CallLua \/ CallMeta \/ JavaPCall \/ Error \/ ErrorMsg \/ Return \/ Throw \/ Yield
  \/ \E handler \in Handler : PCall(handler)
  \/ \E co \in Co : Create(co)
  \/ \E co \in Co, wrap \in BOOLEAN : Resume(co, wrap)

Spec == Init /\ [][Next]_vars
-----------------------------------------------------------------------------
\* The activations of th on the C stack.
Of(th) == {k \in DOMAIN cstack : cstack[k].th = th}

\* The types of the fields of a thread and of an activation.
TypeOK ==
  /\ status \in [Thread -> {"none", "ok", "yield", "error"}]
  /\ fresh \in [Thread -> BOOLEAN]
  /\ ci \in [Thread -> Seq({"Lua", "C"})]
  /\ nCcalls \in [Thread -> 0 .. MAXCCALLS + Extra]
  /\ baseCcalls \in [Thread -> 0 .. MAXCCALLS]
  /\ errfunc \in [Thread -> Handler]
  /\ cstack \in Seq([kind : {"meta", "pcall", "java", "handler", "resume"}, th : Thread,
                     from : Thread \cup {None}, floor : Nat, wrap : BOOLEAN,
                     n : 0 .. MAXCCALLS + Extra, ef : Handler])
  /\ mode \in {"run", "errormsg", "throw"}

\* Whatever errors and yields cut off, nCcalls is again the number of nested
\* C calls when a thread runs: in a coroutine above baseCcalls, which is what
\* lua_yield compares (the assertion of lua_resume, ldo.c:405).  A coroutine
\* that can be resumed has no error handler of an xpcall left (the assertion
\* at ldo.c:397): an error in it would call a value no longer on its stack.
ErrorsUndone ==
  /\ mode = "run" =>
       /\ nCcalls[Main] = Cardinality(Of(Main))
       /\ \A co \in Co : CoStatus(co) = "active" =>
            nCcalls[co] + 1 = baseCcalls[co] + Cardinality(Of(co))
  /\ \A co \in Co : CoStatus(co) = "suspended" => errfunc[co] = None

\* A longjmp ends C code of its own thread only: it does not cut the frames of
\* a coroutine that is active, or of Java, out of the stack.
ThrowStaysInThread ==
  mode = "throw" =>
    /\ \E k \in Of(L) : Protects(cstack[k])
    /\ \A k \in ErrorJmp(L) .. Len(cstack) : cstack[k].th = L

\* LUAI_MAXCCALLS bounds the depth of the C stack, as luaconf.h:431 says.
DepthBounded == Len(cstack) <= MAXCCALLS + Extra

\* It does, with coroutines that resume each other and Java functions that
\* call Lua, as long as no coroutine calls such a function.
DepthBoundedByLevel ==
  (\A k \in DOMAIN cstack : cstack[k].kind = "java" => cstack[k].from \notin Co) => DepthBounded

\* lua_yield gives control to the code that resumed the coroutine, never to
\* the C code of a metamethod, a pcall or a Java function under it.
YieldsToResumer ==
  [][\A co \in Co : (status[co] # "yield" /\ status'[co] = "yield") =>
       co = L /\ Top.kind = "resume"]_vars

\* The calls that change hands between Java and the threads, and the threads
\* that have had control, up to activation k.
Switches(r) == r.kind \in {"java", "resume"}
ChainTo[k \in 0 .. Len(cstack)] ==
  IF k = 0 THEN <<>>
  ELSE IF Switches(cstack[k]) THEN Append(ChainTo[k - 1], cstack[k].th)
  ELSE ChainTo[k - 1]
Chain == ChainTo[Len(cstack)]
States == [co \in Co |-> CoStatus(co)]

C == INSTANCE Coroutine WITH chain <- Chain, state <- States

\* The VM implements coroutines: control passes like a stack of activations,
\* whatever errors, protected calls, callbacks from Java and limits do.
ImplementsCoroutine == C!Spec
=============================================================================
