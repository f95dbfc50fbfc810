----------------------------- MODULE LuaBridge -----------------------------
(***************************************************************************)
(* Calls between Java and Lua over one LuaState: the metamethods of Java   *)
(* objects in luajava.c with the methods of LuaJavaAPI that they call,     *)
(* LuaObject.call, proxies (LuaInvocationHandler), JavaFunction.register   *)
(* and the methods of LuaEngine.                                           *)
(*                                                                         *)
(* Java code is a sequence of calls of natives of LuaState.  Each is       *)
(* synchronized on the LuaState, and so is all of LuaObject and of a       *)
(* proxy; LuaEngine is not.  The natives work on the top frame of the main *)
(* thread of the VM, where a C function called from Lua works on the frame *)
(* of the thread that called it.  ctl[t] has what Java thread t is in the  *)
(* middle of, the innermost last.                                          *)
(*                                                                         *)
(* Left out: metamethods other than those of luajava.c, errors outside a   *)
(* pcall, yields, the conversion of arguments, the order of getMethods,    *)
(* calls of a table or userdata, a global of LuaEngine that names a class. *)
(***************************************************************************)
EXTENDS Integers, SequencesExt

CONSTANTS Thread,    \* Java threads
          Engine,    \* those that use LuaEngine
          Userdata,  \* the Java objects that the script holds
          Classes,   \* those of them that are classes
          Argument,  \* values passed to functions and methods
          Result,    \* values that they return
          Names,     \* the names of methods and fields a script uses
          Methods,   \* the methods of the objects: [name, params, array]
          Fields,    \* the names of public fields
          ClassNames,\* globals that are not set and name a class
          OtherNames,\* globals that are not set and name no class
          Budget,    \* bound, per thread: calls, lookups and resumes
          MaxDepth   \* bound: activations of a thread

ASSUME ThreadAssumption == Engine \subseteq Thread /\ Classes \subseteq Userdata

None == "none"
Value(t, v) == [t |-> t, v |-> v]
Nil == Value("nil", "")
Str(s) == Value("string", s)
Table(s) == Value("table", s)
Function(s) == Value("function", s)
Object(u) == Value("object", u)
Coroutine == Value("thread", "co")
Message == Str("message")   \* of any error that C or Java code raises

VARIABLES stack,   \* stack[l]: the frames of C functions of Lua thread l
          called,  \* called[u]: __FunctionCalled in the metatable of u
          globals, \* globals[n]: a class name as a global: a value or nil
          env,     \* the JNI environment in the registry: a thread
          ctl,     \* ctl[t]: activations of Java thread t
          budget,  \* budget[t]: what thread t may still start
          answer   \* the last answer: what the caller got and was due

vars == <<stack, called, globals, env, ctl, budget, answer>>

LuaThread == {"main", "co"}
Frame(s, l) == Last(s[l])
SetFrame(s, l, f) == [s EXCEPT ![l] = Append(Front(@), f)]
Here == Frame(stack, "main")
PushFrame(s, l, f) == [s EXCEPT ![l] = Append(@, f)]
PopFrame(s, l) == [s EXCEPT ![l] = Front(@)]

Busy(t) == ctl[t] # <<>>
Top(t) == Last(ctl[t])
InJava(t) == Busy(t) /\ Top(t).k = "java"
InScript(t) == Busy(t) /\ Top(t).k = "script"
Spends(t) == budget[t] > 0 /\ budget' = [budget EXCEPT ![t] = @ - 1]
InMethod(t) == Busy(t) /\ Top(t).k = "method"
SetTop(t, a) == [ctl EXCEPT ![t] = Append(Front(@), a)]
Push(t, as) == [ctl EXCEPT ![t] = @ \o as]
Drop(t, n) == [ctl EXCEPT ![t] = SubSeq(@, 1, Len(@) - n)]
Deeper(t) == Len(ctl[t]) < MaxDepth

\* The monitor of the LuaState: a thread has it in a synchronized block and in
\* a native, and pcall is one.
Holds(t) == \E i \in DOMAIN ctl[t] : ctl[t][i].k # "java" \/ ctl[t][i].sync
CanEnter(t) == \A s \in Thread \ {t} : ~Holds(s)

(***************************************************************************)
(* Java code                                                               *)
(***************************************************************************)
Op(op, v, n) == [op |-> op, v |-> v, n |-> n]
PushOp(v) == Op("push", v, 1)
GetField(k) == Op("getField", Str(k), 1)
SetField(k) == Op("setField", Str(k), 1)
Pop(n) == Op("pop", Nil, n)
SetTopZero == Op("setTop", Nil, 0)
Remove2 == Op("remove", Nil, 1)
Concat2 == Op("concat", Nil, 1)
PCall(fn, args, nres) == [op |-> "pcall", fn |-> fn, args |-> args, n |-> nres]
Pushes(vs) == [i \in DOMAIN vs |-> PushOp(vs[i])]

\* What getGlobal pushes: what openLibs or a script set, or, with javaFindClass
\* as __index of _G, the name of a global that nothing set.
GlobalValues(name) ==
    CASE name \in {"package", "debug"} -> {Table(name)}
      [] name = "Mod" -> {Table(name), Str(name)}
      [] OTHER -> {Function(name), Str(name)}

\* A table, but for the empty one, has a function for every key, and the
\* metatable of strings none for those used here.
Field(v, k) == IF v.t = "table" /\ v.v # "empty" THEN Function(k) ELSE Nil

PushAndCall(f, args, nres) == <<PushOp(f)>> \o Pushes(args) \o <<PCall(f, args, nres)>>
ExecuteGlobalFunction(f, args) == PushAndCall(f, args, 0)
EvalLua(chunk) ==
    <<SetTopZero, Op("load", Function(chunk), 1), PCall(Function(chunk), <<>>, 0)>>
\* m: the module, which getGlobal pushes twice
ExecuteModuleFunction(m, f, args) ==
    EvalLua("require") \o <<PushOp(m), GetField(f), PushOp(m)>>
      \o Pushes(args) \o <<PCall(Field(m, f), <<m>> \o args, 0)>>
\* LdoFile is one native.  nres: the results of the file, which it leaves.
ExecuteScriptFile(nres) == <<SetTopZero, Op("doFile", Nil, nres)>>
PrintStackTrace ==
    <<PushOp(Table("debug")), GetField("traceback"), PCall(Function("traceback"), <<>>, 0), Pop(1)>>
AddSearchPath ==
    <<PushOp(Table("package")), GetField("path"), PushOp(Str(";path")), Concat2, SetField("path"), Pop(1)>>
AddLuaLoader ==
    <<PushOp(Table("package")), GetField("loaders"), PushOp(Object("loader")), Pop(1), Pop(2)>>

\* isNil, isFunction and isTable push a value and pop it, as registerValue does.
Check(v) == <<PushOp(v), Pop(1)>>
LuaObjectCall(fn, args, nres) == Check(fn) \o PushAndCall(fn, args, nres)
NewLuaObject(parent, name) ==
    Check(parent) \o <<PushOp(parent), PushOp(Str(name)), Op("getTable", Nil, 0), Remove2>>
      \o Check(Field(parent, name)) \o <<Pop(1)>>
Register(name) == <<PushOp(Object(name)), Pop(1)>>

\* What a native does to the top frame of the main thread
Apply(f, op) ==
    CASE op.op \in {"push", "load"} -> Append(f, op.v)
      [] op.op = "getField" -> Append(f, Field(Last(f), op.v.v))
      [] op.op = "setField" -> Front(f)
      [] op.op = "pop" -> SubSeq(f, 1, Len(f) - op.n)
      [] op.op = "setTop" -> <<>>
      [] op.op = "remove" -> RemoveAt(f, Len(f) - 1)
      [] op.op = "concat" -> Append(Front(Front(f)), Last(f))
      [] op.op = "getTable" -> Append(Front(f), Field(f[Len(f) - 1], Last(f).v))

\* Code of thread t that runs on a frame of height Len(Here).  nres: the results
\* the call returns to Java; top: the height the stack had when it started.
Java(who, sync, code, nres) ==
    [k |-> "java", who |-> who, sync |-> sync, code |-> code, nres |-> nres,
     top |-> Len(Here), did |-> <<>>, meant |-> <<>>, spilt |-> FALSE,
     failed |-> FALSE, ret |-> Nil]

GlobalCall(f) == {Java("global", FALSE, ExecuteGlobalFunction(f, <<a>>), 0) : a \in Argument}
ModuleCall(m) == {Java("module", FALSE, ExecuteModuleFunction(m, "onStart", <<a>>), 0) : a \in Argument}
EngineCalls ==
    (UNION {GlobalCall(f) : f \in GlobalValues("go")})
      \cup (UNION {ModuleCall(m) : m \in GlobalValues("Mod")})
      \cup {Java("eval", FALSE, EvalLua("chunk"), 0),
            Java("trace", FALSE, PrintStackTrace, 0),
            Java("path", FALSE, AddSearchPath, 0),
            Java("loader", FALSE, AddLuaLoader, 0)}
      \cup {Java("file", FALSE, ExecuteScriptFile(nres), nres) : nres \in {0, 1}}

CallOf(nres) ==
    {Java("call", TRUE, LuaObjectCall(Function("callback"), <<a>>, nres), nres) : a \in Argument}

\* A proxy of a table calls the field named as the method, for a result or for
\* none if the method is void; it returns null if the table has no such field.
\* (Mutant: it does not take the monitor for the whole call.)
InvokeFor(sync, nres) ==
    {Java("call", sync, NewLuaObject(Table("proxied"), "callback") \o Check(Function("callback"))
            \o LuaObjectCall(Function("callback"), <<a>>, nres), nres) : a \in Argument}
InvokeOn(sync) ==
    InvokeFor(sync, 0) \cup InvokeFor(sync, 1)
      \cup {Java("call", sync, NewLuaObject(Table("empty"), "callback") \o Check(Nil), 0)}
InvokeUnsynchronized == InvokeOn(FALSE)
Invoke == InvokeOn(TRUE)

\* Every native stores the environment of its thread first: getStateFromCPtr.
\* (Mutant: it is stored once, when there is none yet.)
PushJNIEnvOnce(t) == env
PushJNIEnv(t) == t

\* What a call got and was due, on which Lua thread, and the height of the
\* stack it leaves and should leave.
Answer(got, due, l) == [got |-> got, due |-> due, l |-> l, h |-> 0, left |-> 0, spilt |-> FALSE]
Ended(a, got, h, left) ==
    [got |-> got, due |-> a.ret, l |-> "main", h |-> h, left |-> left, spilt |-> a.spilt]

\* No answer in this step
Quiet == answer' = Answer(Nil, Nil, "main")

StartsCall(t) ==
    /\ ~Busy(t) /\ CanEnter(t) /\ Spends(t)
    /\ \E a \in (IF t \in Engine THEN EngineCalls ELSE {}) \cup Invoke
                  \cup {Java("register", TRUE, Register("print"), 0)} :
         ctl' = Push(t, <<a>>)
    /\ Quiet /\ UNCHANGED <<stack, called, globals, env>>

\* A native other than those that run Lua code
Native(t) ==
    /\ InJava(t) /\ CanEnter(t)
    /\ LET a == Top(t)
           op == Head(a.code)
       IN /\ ~a.failed /\ a.code # <<>> /\ op.op \notin {"pcall", "doFile"}
          /\ stack' = SetFrame(stack, "main", Apply(Here, op))
          /\ ctl' = SetTop(t, [a EXCEPT !.code = Tail(@)])
    /\ env' = PushJNIEnv(t)
    /\ Quiet /\ UNCHANGED <<called, globals, budget>>

\* The chunk does not compile, or there is no such file.
LoadFails(t) ==
    /\ InJava(t) /\ CanEnter(t)
    /\ LET a == Top(t)
       IN /\ ~a.failed /\ a.code # <<>> /\ Head(a.code).op \in {"load", "doFile"}
          /\ stack' = SetFrame(stack, "main", Append(Here, Message))
          /\ ctl' = SetTop(t, [a EXCEPT !.failed = TRUE])
    /\ env' = PushJNIEnv(t)
    /\ Quiet /\ UNCHANGED <<called, globals, budget>>

\* A script that luaV_execute runs on Lua thread l, with the functions it has
\* got from __index and not called yet.
Script(l) == [k |-> "script", l |-> l, pend |-> <<>>]

NativePCall(t) ==
    /\ InJava(t) /\ CanEnter(t) /\ Deeper(t)
    /\ LET a == Top(t)
           op == Head(a.code)
           k == Len(Here) - Len(op.args)
           fn == IF k >= 1 THEN Here[k] ELSE Nil
           b == [a EXCEPT !.code = Tail(@), !.meant = <<op.fn>> \o op.args,
                          !.did = IF k >= 1 THEN SubSeq(Here, k, Len(Here)) ELSE <<>>]
           below == SubSeq(Here, 1, IF k >= 1 THEN k - 1 ELSE 0)
       IN /\ ~a.failed /\ a.code # <<>> /\ op.op = "pcall"
          /\ IF fn.t = "function"
             THEN /\ ctl' = [ctl EXCEPT ![t] = Append(Front(@), b) \o
                        <<[k |-> "pcall", frames |-> Len(stack["main"]), nres |-> op.n], Script("main")>>]
                  /\ stack' = SetFrame(stack, "main", below)
             ELSE /\ ctl' = SetTop(t, [b EXCEPT !.failed = TRUE])
                  /\ stack' = SetFrame(stack, "main", Append(below, Message))
    /\ env' = PushJNIEnv(t)
    /\ Quiet /\ UNCHANGED <<called, globals, budget>>

\* LdoFile: no other thread comes between the load and the pcall.
NativeDoFile(t) ==
    /\ InJava(t) /\ CanEnter(t) /\ Deeper(t)
    /\ LET a == Top(t)
       IN /\ ~a.failed /\ a.code # <<>> /\ Head(a.code).op = "doFile"
          /\ ctl' = [ctl EXCEPT ![t] = Append(Front(@), [a EXCEPT !.code = Tail(@)]) \o
                <<[k |-> "pcall", frames |-> Len(stack["main"]), nres |-> Head(a.code).n], Script("main")>>]
    /\ env' = PushJNIEnv(t)
    /\ Quiet /\ UNCHANGED <<stack, called, globals, budget>>

\* The end of Java code: LuaObject.call takes its result from the stack.
Taken(a) == IF a.who = "call" THEN a.nres ELSE 0
JavaEnds(t) ==
    /\ InJava(t) /\ CanEnter(t)
    /\ LET a == Top(t)
           f == SubSeq(Here, 1, Len(Here) - Taken(a))
           left == CASE a.who = "eval" -> 0 [] a.who = "module" -> 1 [] a.who = "file" -> a.nres
                     [] OTHER -> a.top
       IN /\ ~a.failed /\ a.code = <<>>
          /\ answer' = Ended(a, IF Taken(a) = 1 THEN Last(Here) ELSE a.ret, Len(f), left)
          /\ stack' = SetFrame(stack, "main", f)
    /\ ctl' = Drop(t, 1)
    /\ UNCHANGED <<called, globals, env, budget>>

\* A pcall returned an error.  LuaObject.call removes it if it is a string,
\* and leaves it under whatever others were pushing if it is not;  LuaEngine
\* leaves the message.  Both throw a LuaException, but printStackTrace, which
\* looks at no error: its pop takes the message and leaves the table debug.
\* (Mutant: LuaObject.call leaves a message, too.)
RemovesNoError(a) == FALSE
RemovesError(a) == a.who = "trace" \/ (a.who = "call" /\ Last(Here).t = "string")
JavaFails(t) ==
    /\ InJava(t) /\ Top(t).failed /\ CanEnter(t)
    /\ LET a == Top(t)
           f == IF RemovesError(a) THEN Front(Here) ELSE Here
           leaks == a.who = "call" /\ Last(Here).t # "string"
           b == IF leaks THEN [a EXCEPT !.spilt = TRUE] ELSE a
           left == CASE a.who \in {"eval", "module", "file"} ->
                          IF a.code = <<>> /\ a.who = "module" THEN 2 ELSE 1
                     [] a.who \in {"global", "trace"} -> a.top + 1
                     [] OTHER -> a.top
       IN /\ stack' = SetFrame(stack, "main", f)
          /\ answer' = Ended(b, a.ret, Len(f), left)
          /\ ctl' = [s \in Thread |->
                IF s = t THEN Front(ctl[t])
                ELSE IF leaks /\ Len(ctl[t]) = 1 /\ InJava(s)
                     THEN Append(Front(ctl[s]), [Top(s) EXCEPT !.spilt = TRUE])
                ELSE ctl[s]]
    /\ UNCHANGED <<called, globals, env, budget>>

(***************************************************************************)
(* Scripts                                                                 *)
(***************************************************************************)
\* An error value e ends a script: the pcall or resume under it catches it.
\* c: the activations up to the script; s: the stacks.
Fail(t, c, s, e) ==
    LET catch == c[Len(c) - 1]
        below == SubSeq(c, 1, Len(c) - 2)
    IN IF catch.k = "pcall"
       THEN /\ ctl' = [ctl EXCEPT ![t] = Append(Front(below), [Last(below) EXCEPT !.failed = TRUE])]
            /\ stack' = [s EXCEPT !["main"] =
                            Append(SubSeq(@, 1, catch.frames - 1), Append(@[catch.frames], e))]
       ELSE /\ ctl' = [ctl EXCEPT ![t] = below]
            /\ stack' = [s EXCEPT !["main"] = Front(@), !["co"] = <<>>]

ScriptFails(t) ==
    /\ InScript(t)
    /\ \E e \in {Message, Table("error")} : Fail(t, ctl[t], stack, e)
    /\ Quiet /\ UNCHANGED <<called, globals, env, budget>>

ScriptReturns(t) ==
    /\ InScript(t)
    /\ LET c == ctl[t]
           catch == c[Len(c) - 1]
           below == SubSeq(c, 1, Len(c) - 2)
       IN \E v \in Result :
            IF catch.k = "pcall"
            THEN /\ ctl' = [ctl EXCEPT ![t] = Append(Front(below), [Last(below) EXCEPT !.ret = v])]
                 /\ stack' = IF catch.nres = 0 THEN stack ELSE SetFrame(stack, "main", Append(Here, v))
            ELSE /\ ctl' = [ctl EXCEPT ![t] = below]
                 /\ stack' = PopFrame(stack, "main")
    /\ Quiet /\ UNCHANGED <<called, globals, env, budget>>

ScriptResumes(t) ==
    /\ InScript(t) /\ Spends(t) /\ Deeper(t) /\ Top(t).l = "main"
    /\ \A i \in DOMAIN ctl[t] : ctl[t][i].k # "resume"
    /\ ctl' = [ctl EXCEPT ![t] = Append(Front(@), Top(t)) \o <<[k |-> "resume"], Script("co")>>]
    /\ stack' = PushFrame(stack, "main", <<Coroutine>>)
    /\ Quiet /\ UNCHANGED <<called, globals, env>>

\* LuaJavaAPI pushes v on the main thread; the C function, called on l with
\* the frame f, returns what is on top of its own.
Pushed(l, f, v) ==
    LET s == PushFrame(stack, l, f)
    IN SetFrame(s, "main", Append(Frame(s, "main"), v))

\* (Mutant: one metatable for all objects.)
RememberForAll(u, key) == [x \in Userdata |-> key]
Remember(u, key) == [called EXCEPT ![u] = key]

\* u.key is looked up by the script on top of thread t: the value of a field
\* at once, or the function objectIndexReturn, for a method called key.
ObjectIndex(t, u, key) ==
    LET a == Top(t)
        l == a.l
        s == Pushed(l, <<Object(u), Str(key)>>, Value("field", key))
        fresh == Append(a.pend, [u |-> u, key |-> key, stale |-> FALSE])
        c == [ctl[t] EXCEPT ![Len(ctl[t])] = [a EXCEPT !.pend = fresh]]
        stale(p) == [p EXCEPT !.stale = @ \/ (p.u = u /\ p.key # key)]
    IN IF key \in Fields
       THEN /\ answer' = Answer(Last(Frame(s, l)), Value("field", key), l)
            /\ stack' = PopFrame(s, l)
            /\ UNCHANGED <<called, ctl>>
       ELSE /\ called' = Remember(u, key)
            /\ ctl' = [ctl EXCEPT ![t] = [i \in DOMAIN c |->
                          IF c[i].k = "script"
                          THEN [c[i] EXCEPT !.pend = [x \in DOMAIN @ |-> stale(@[x])]] ELSE c[i]]]
            /\ Quiet /\ UNCHANGED stack

\* The same for a class, which must have a static field or method key.
ClassIndex(t, u, key) ==
    IF key \in Fields \/ \E m \in Methods : m.name = key THEN ObjectIndex(t, u, key)
    ELSE /\ Fail(t, ctl[t], stack, Message)
         /\ Quiet /\ UNCHANGED called

ScriptLooks(t) ==
    /\ InScript(t) /\ Spends(t) /\ Len(Top(t).pend) < 2
    /\ \E u \in Userdata, key \in Names :
         IF u \in Classes THEN ClassIndex(t, u, key) ELSE ObjectIndex(t, u, key)
    /\ UNCHANGED <<globals, env>>

\* A global that is not set: javaFindClass stores the class as a global.  Java
\* pushes nothing for a name of no class, and C returns the key it finds.
ScriptFindsClass(t) ==
    /\ InScript(t) /\ Spends(t)
    /\ LET l == Top(t).l
       IN \/ \E n \in ClassNames :
               LET s == Pushed(l, <<Table("_G"), Str(n)>>, Object(n))
                   got == Last(Frame(s, l))
               IN /\ globals[n] = Nil
                  /\ globals' = [globals EXCEPT ![n] = got]
                  /\ answer' = Answer(got, Object(n), l)
                  /\ stack' = PopFrame(s, l)
          \/ \E n \in OtherNames :
               LET s == PushFrame(stack, l, <<Table("_G"), Str(n)>>)
               IN /\ answer' = Answer(Last(Frame(s, l)), Nil, l)
                  /\ stack' = PopFrame(s, l)
                  /\ UNCHANGED globals
    /\ ctl' = SetTop(t, Top(t))
    /\ UNCHANGED <<called, env>>

\* Whether a method, or constructor, takes n arguments
Takes(m, n) == IF m.array THEN 0 < m.params /\ m.params < n ELSE m.params = n

\* A method that runs: what the script asked for and gave, and what Java
\* was told and found on the stack.
Method(l, asked, given, stale, name, args) ==
    [k |-> "method", l |-> l, asked |-> asked, given |-> given, stale |-> stale,
     name |-> name, args |-> args]

\* A call of C function f with first and given as its arguments: on the main
\* thread it reads what Java finds on top of the stack of the main thread.
\* asked: the method a script means, name: the one that Java is told.
CallsJava(t, a, first, asked, stale, name, given) ==
    LET s == PushFrame(stack, a.l, <<first>> \o given)
        read == Frame(s, "main")
        found == CASE name \in {"execute", "loadLib"} -> TRUE
                   [] name = "createProxy" -> Len(read) > 1 /\ read[2].t = "table"
                   [] OTHER -> \E m \in Methods : m.name = name /\ Takes(m, Len(read) - 1)
    IN IF found
       THEN /\ stack' = s
            /\ ctl' = [ctl EXCEPT ![t] = Front(@) \o <<a,
                          Method(a.l, asked, given, stale, name, IF read = <<>> THEN read ELSE Tail(read))>>]
       ELSE Fail(t, ctl[t], stack, Message)

\* u:key(args) once the arguments are evaluated: objectIndexReturn
ScriptCalls(t) ==
    /\ InScript(t) /\ Deeper(t) /\ Top(t).pend # <<>>
    /\ \E given \in {<<>>} \cup {<<v>> : v \in Argument} :
         LET p == Last(Top(t).pend)
         IN CallsJava(t, [Top(t) EXCEPT !.pend = Front(@)], Object(p.u), p.key, p.stale, called[p.u], given)
    /\ Quiet /\ UNCHANGED <<called, globals, env, budget>>

\* class(args) and luajava.new, luajava.newInstance, createProxy and loadLib,
\* and the call of a JavaFunction
Entries ==
    {[name |-> "new", first |-> Object(u), given |-> <<v>>] : u \in Classes, v \in Argument}
      \cup {[name |-> "execute", first |-> Object("print"), given |-> <<v>>] : v \in Argument}
      \cup {[name |-> "new", first |-> Str("C"), given |-> <<v>>] : v \in Argument}
      \cup {[name |-> "createProxy", first |-> Str("I"), given |-> <<Table("t")>>],
            [name |-> "loadLib", first |-> Str("C"), given |-> <<Str("open")>>]}

ScriptEnters(t) ==
    /\ InScript(t) /\ Spends(t) /\ Deeper(t)
    /\ \E e \in Entries : CallsJava(t, Top(t), e.first, e.name, FALSE, e.name, e.given)
    /\ Quiet /\ UNCHANGED <<called, globals, env>>

(***************************************************************************)
(* Java methods that a script called                                       *)
(***************************************************************************)

\* A method that is void, or returns null, gives no result.
\* (Mutant: it gives one, whatever is on top.)
ResultsOne(v) == 1
Results(v) == IF v = Nil THEN 0 ELSE 1

MethodReturns(t) ==
    /\ InMethod(t)
    /\ \E v \in Result \cup {Nil} :
         LET l == Top(t).l
             s == IF v = Nil THEN stack ELSE SetFrame(stack, "main", Append(Here, v))
             got == IF Results(v) = 0 \/ Frame(s, l) = <<>> THEN Nil ELSE Last(Frame(s, l))
         IN /\ Top(t).name \in {"new", "createProxy"} => v # Nil
            /\ answer' = Answer(got, v, l)
            /\ stack' = PopFrame(s, l)
    /\ ctl' = Drop(t, 1)
    /\ UNCHANGED <<called, globals, env, budget>>

MethodThrows(t) ==
    /\ InMethod(t)
    /\ Fail(t, Front(ctl[t]), PopFrame(stack, Top(t).l), Message)
    /\ Quiet /\ UNCHANGED <<called, globals, env, budget>>

MethodCalls(t) ==
    /\ InMethod(t) /\ Spends(t) /\ Deeper(t)
    /\ \E a \in CallOf(0) \cup CallOf(1) \cup Invoke \cup (IF t \in Engine THEN EngineCalls ELSE {}) :
         ctl' = Push(t, <<a>>)
    /\ Quiet /\ UNCHANGED <<stack, called, globals, env>>

Init ==
    /\ stack = [l \in LuaThread |-> IF l = "main" THEN << <<>> >> ELSE <<>>]
    /\ called = [u \in Userdata |-> None]
    /\ globals = [n \in ClassNames |-> Nil]
    /\ env \in Thread
    /\ ctl = [t \in Thread |-> <<>>]
    /\ budget = Budget
    /\ answer = Answer(Nil, Nil, "main")

Next == \E t \in Thread :
    \/ StartsCall(t) \/ Native(t) \/ LoadFails(t) \/ NativePCall(t) \/ NativeDoFile(t)
    \/ JavaEnds(t) \/ JavaFails(t) \/ ScriptFails(t) \/ ScriptReturns(t) \/ ScriptResumes(t) \/ ScriptLooks(t)
    \/ ScriptFindsClass(t) \/ ScriptCalls(t) \/ ScriptEnters(t)
    \/ MethodReturns(t) \/ MethodThrows(t) \/ MethodCalls(t)

Spec == Init /\ [][Next]_vars

(***************************************************************************)
(* Properties                                                              *)
(***************************************************************************)

\* A pcall from Java calls the function it pushed with the arguments it
\* pushed, whatever other threads and callbacks did between these natives,
\* unless a LuaObject.call left an error that is not a string in between.
CallsWhatItPushed ==
  \A t \in Thread : \A i \in DOMAIN ctl[t] :
    LET a == ctl[t][i] IN a.k = "java" => a.did = a.meant \/ a.spilt

\* o:m(args) in a script runs method m with exactly args, also when the
\* arguments called methods and callbacks themselves, unless another method
\* of o was looked up in between, or a coroutine runs.
RunsTheMethodNamed ==
  \A t \in Thread : \A i \in DOMAIN ctl[t] :
    LET m == ctl[t][i]
    IN m.k = "method" /\ m.l = "main" /\ ~m.stale => m.name = m.asked /\ m.args = m.given

\* What a method, a field or a class is reaches the script, and what a Lua
\* function returns reaches Java, except on a coroutine.  One answer is not what
\* Java gave: a global that is not set and names no class is its own name.
AnswerArrives ==
  answer.l = "main" =>
    \/ answer.got = answer.due
    \/ answer.due = Nil /\ \E n \in OtherNames : answer.got = Str(n)

\* C code that calls into Java does so with the JNI environment of the thread
\* it runs on.
EnvOfCaller ==
  \A t \in Thread : Busy(t) /\ Top(t).k \in {"script", "method"} => env = t

\* Java code leaves the stack as high as it found it; executeModuleFunction
\* leaves the module on an empty stack, and a failing call its message.
StackLeftAsFound == answer.h = answer.left \/ answer.spilt
=============================================================================
