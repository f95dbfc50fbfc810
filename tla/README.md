# AndroidLuaUI in TLA+

AndroidLuaUI lets an Android application run Lua scripts. It consists of the Lua 5.1.5
virtual machine in C (`jni/lua`), the LuaJava bridge in C (`jni/luajava/luajava.c`), the
LuaJava classes (`src/org/keplerproject/luajava`), and a small engine, activity and HTTP
helper on top (`src/com/android`). This directory holds TLA+ modules that model parts of it,
TLC configurations that check them on small instances, and theorems about them that the TLAPS
proof system checks. `PROJECT.json` lists the components, runs, findings and hazards, and maps
every definition that models code to its lines. Paths below are relative to the root of the
repository.

## Inventory

| Component | State | Operations | What makes it correct | Modules |
|---|---|---|---|---|
| Garbage collector: `lgc.c`, `lfunc.c`, `lstring.c`, `lstate.c` | mark bits, current white, gray lists, sweep positions, pending userdata, open upvalues | steps of mark, atomic, sweep and finalize; full collection; barriers; allocation; interning; closures; `lua_close` | nothing in use is freed; finalizers first and once per death; garbage is freed | `LuaGC` |
| References: `luaL_ref`, `luaL_unref`, `LuaObject.java` | registry slots, free list, `LuaObject.ref` | construct, push, finalize, close | a LuaObject pushes its own value; no slot is lost or given twice | `LuaRef` |
| List of LuaStates: `LuaStateFactory.java`, `LuaState.java` | the list, the index in each registry, the pointers | newLuaState, newThread, toThread, insert, remove, close, getExistingState | a call from Lua finds a LuaState of its VM | `StateFactory` |
| Calls and coroutines: `ldo.c`, `lbaselib.c` | CallInfo chain, stack, status, nCcalls, error handlers | call, pcall, error, resume, yield | an error or yield restores exactly what the catcher expects | `LuaDo`, `Coroutine` |
| Tables: `ltable.c` | array and hash part, free pointer, dead keys | set, get, rehash, next, getn | a table is a map; `next` visits each key once | `LuaTable`, `TableMap` |
| Compiler: `llex.c`, `lparser.c`, `lcode.c` | FuncState, jump lists, registers, blocks | tokens, statements, expressions, code generation | the code computes what the language defines; ill-formed text is rejected | `LuaLex`, `LuaParser`, `LuaCode` |
| Interpreter: `lvm.c`, `ldebug.c`, `ltm.c` | registers, frames, open upvalues, metatables and their flags | every instruction, metamethods, the checker of code | with the compiler: the right results; no metamethod hidden by a cache | `LuaValues`, `LuaVM`, `LuaRun`, `LuaCompiler` |
| Binary chunks: `ldump.c`, `lundump.c` | | dump, load | load undoes dump; nothing is loaded from a part | `BinaryChunk` |
| String library: `lstrlib.c` | captures, recursion, the loops of gmatch and gsub | find, match, gmatch, gsub | the match found is the one the pattern means | `LuaStrMatch`, `PatternMeaning` |
| Table library: `ltablib.c` | the ranges of quicksort | sort | sorts; loses nothing whatever the order function does | `LuaSort` |
| Package library: `loadlib.c`, `AssetLoaderFunc.java` | `package.loaded`, sentinel | require, module | a loop is detected, a module is loaded once | `LuaRequire` |
| LuaJava bridge and reflection: `luajava.c`, `LuaJavaAPI.java`, `JavaFunction.java`, `LuaInvocationHandler.java`, `LuaObject.java` | method name in a metatable, JNI environment in the registry, the stack that is shared, monitors | index, call, new, proxies, `LuaObject.call` | the method named is the one called; answers reach the caller | `LuaBridge` |
| Engine: `LuaEngine.java` and its `extend` functions | the Lua stack | execute functions, modules and scripts | what it pushed is what it calls; the stack is left as found | `LuaBridge` |
| Activity, HTTP helper, `HttpRequest.java`, `Demo/`, other libraries | | | | see Not modelled |

How the components interact. Java calls C through `private synchronized native` methods of a
`LuaState`; C calls Java back through `LuaJavaAPI`, which looks the `LuaState` up by the index
that `luajava_open` stored in the registry of the VM. Values of either side are kept alive for
the other: a Lua value by a slot of the registry that a `LuaObject` names (`LuaRef`), a Java
object by a global reference in a userdata whose `__gc` deletes it (`LuaGC`). The collector
runs a step at almost every allocation of the interpreter; finalizers of Java objects run on a
thread of their own. Scripts reach the VM as text through the compiler or as binary chunks, and
as modules through `require`.

What is hard here: the interleaving of collector and program; two Java threads in one VM; the
finalizer thread racing `close`; list positions used as identities; re-entry from Lua to Java to
Lua on one stack; code generation in one pass; algorithms that call back into Lua code. The
hazards are listed with their lines in `PROJECT.json`.

## Modules

### LuaGC

State. `marked[o]` folds the mark byte of a cell into `free`, `white` (the current white),
`dead` (the other white), `gray` and `black`. `gray`, `grayagain` and `weak` are the collector's
lists, `unswept` what lies beyond `sweepgc` and `sweepstrgc`, `tmudata` the userdata waiting for
their finalizers, `finalized` the FINALIZEDBIT, `finalizing` the calls of `__gc` under way.
`slot[o][i]` is a reference of an object, for a thread a cell of its stack; `openat[u]` the cell
an open upvalue points to; `L` the running thread.

Actions. One for each thing the program does (`New`, `Intern`, `Store`, `Capture`, `CloseUpval`,
`Switch`, `FinalizerReturns`), each with the barrier or the revival that the code performs, and
one for each unit of `singlestep` (`MarkRoot`, `Propagate`, `Atomic`, `Sweep`, `SweepEnds`,
`GCTM`, `CycleEnds`), `FullGC` for `luaC_fullgc`, `Close` and `FreeAll` for `lua_close`. A full
collection starts in pause, in a mark phase or in finalize, there also with userdata that wait for
their call; begun in a sweep it finishes that first, and is the same action afterwards. Any
collector step may come at any time, which covers every value of the debt arithmetic of
`luaC_step`. The program stores anything it can reach anywhere it can reach, through weak
references as well; that is more than a given script does and never more than some script can.

Abstractions. Lists are sets: a step takes any member. The size of objects, the size of the
stack and the string buckets are left out, and a collection that a `__gc` called by `lua_close`
asks for. A weak table keeps its weak half only, and
`EndMark` chooses for each whether that is its keys or its values.

Runs. `MCLuaGC` gives three heaps of four or five cells with one slot each, chosen so that an
object can die, be revived, and its cell be used again. `LuaGCTables` has a weak table, a userdata
with `__gc` and a string, `LuaGCClosures` a closure, an upvalue and a coroutine, `LuaGCProgress`
two userdata with `__gc`, so that a full collection meets one that waits for its call while the
other's runs or has just died. All are complete searches, of some 740,000, 890,000 and 140,000
states. A second object of a kind would add sharing between equals, which the proofs cover.

Fairness (`LuaGCProgress`). Weak fairness of the collector: `luaC_checkGC` runs a step whenever
`totalbytes` passes the threshold, so a program that keeps allocating keeps running steps; weak
fairness of `FinalizerReturns`: a `__gc` of LuaJava deletes a global reference and returns. Strong
fairness of `GCTM` for each userdata: `luaC_fullgc` does not return before it has called every
finalizer that waits, and `tmudata` is a queue, so a program that repeats full collections keeps
none waiting for ever. The property allows for a program that gets an object back, or closes the
state.

### LuaRef

`luaL_ref` and `luaL_unref` with each read of the head of the free list and each write as a step
of its own (`RefHead`, `RefPop`, `RefGrow`, `RefStore`; `UnrefHead`, `UnrefLink`, `UnrefFree`),
run by application threads in the constructors of `LuaObject` and by the finalizer thread in
`finalize`. `Free(s)` is the monitor of the LuaState that the natives are synchronized on.
`lua_objlen` may return any border. The values a thread has pushed are kept with its LuaObject.

`LuaRefOneState` (two application threads, the finalizer, four objects, two values that are not
nil, one of which is the number 2, which looks like a reference) shows that with one LuaState
the table is right at every step and the free list whole between calls. `LuaRefTwoStates` shows
that it breaks once `newThread` gives the VM a second LuaState, whose monitor is another.

### StateFactory

The list of `LuaStateFactory` as a sequence, the index in each VM's registry, and the pointer,
the `stateId` and the phase of each LuaState. The factory's methods are static synchronized, so
each is one step; the constructor `LuaState(CPtr)` and `close` are two or three. Addresses
of closed VMs may be used again. `newThread` returns a LuaState with its parent's address:
`luajava.c` line 2144 stores `L` where it made `newThread`.

`StateFactoryOneVM` (five LuaStates, two addresses, at most one VM at a time) shows that the
lookup is right for an application that works like `LuaEngine`, through any number of `close`
and reopen. Five LuaStates allow two generations with a `newThread` or a `toThread` each, and a
third VM. `StateFactoryTwoVMs` is a finding.

### LuaDo and Coroutine

`Coroutine` says what a coroutine is: activations form a chain, the last one runs, a coroutine
is suspended, active or dead, and in the chain at most once. `LuaDo` is how `ldo.c` and
`lbaselib.c` do it. `cstack` is the C stack, with a record for each activation of
`luaV_execute` and the C code that called it: a metamethod, `pcall` or `xpcall`, an error
handler, `LuaState.pcall` from Java, `lua_resume`. Each record has what that C code keeps in
local variables, the saved `nCcalls` and `errfunc` among them. `ci` is the CallInfo chain of each
thread, with the frames of C functions that have called back or yielded. `status`, `nCcalls`,
`baseCcalls` and `errfunc` are the fields of `lua_State`; `fresh` says that the body of a
coroutine is on its stack, which is how `costatus` tells a new coroutine from one that ended.

Actions. What a Lua function may do next: call (`CallLua`; a tail call replaces the frame and
changes nothing here), run a metamethod (`CallMeta`), `PCall`, `Create`, `Resume`, `Yield`,
`Error`, call a Java function that calls Lua (`JavaPCall`), `Return`. `ErrorMsg` is
`luaG_errormsg`, `Throw` is `luaD_throw` with what follows the longjmp at its target. A handler is
a function or another value, which `xpcall` accepts and `luaG_errormsg` answers with
`LUA_ERRERR`. `mode`
separates the two, because a handler runs in between and may fail itself. The chain of jump
buffers is not a variable: `L->errorJmp` is the innermost record of the thread that protects, as
`luaD_rawrunprotected` sets and restores it. Hooks, stack sizes and error values are left out.

`LuaDoCalls` has two coroutines, `LUAI_MAXCCALLS` 3 with a margin of 2 and four frames in each
thread: enough for a coroutine that resumes another at the limit, for a handler that fails
until the second limit, and for a callback from Java inside a coroutine that resumes the other.
It is a complete search of 1.2 million states. `ErrorsUndone` holds the assertions of `lua_resume`, which a release
build does not evaluate; `lua_yield` decides by the count. `DepthBoundedByLevel` is limited to
coroutines that do not call back through Java (see Findings).

### LuaTable and TableMap

`TableMap` is what a program relies on: a map, and a traversal that hands out each key once if
the loop assigns only to fields that exist. `LuaTable` has the table of `ltable.c`: a sequence for
the array part, a function from 0 for the nodes, with `lastfree` and the links of the chains. The
functions of `ltable.c` are operators on that record, in the order of the code: `newkey` with its
move of a colliding node, `rehash`, `computesizes`, `resize`, `findindex`, `luaH_getn`. The actions
are an assignment, `next`, and a collection, which marks the keys of cleared fields dead
(`traversetable` through `removeentry`), also in the middle of a traversal.

`LuaTableMap` has the numbers 1, 2 and 4 with the hashes of their doubles, a string and an object
whose hashes collide, and initial sizes 0 and 3 of either part. With five keys both parts grow
and shrink, chains reach three nodes, and a node moves out of another's main position. `MAX_INT`
is 4, so that `unbound_search` gives up doubling and searches one by one, and `MAXBITS` is 2, so
that an array part of any size up to 4 is possible. The program asks for no array longer than
2^`MAXBITS`, which `ltable.c` calls the largest size (line 37): it is 2^26, and only constructors
ask for large arrays. (`luaH_new` does not check, so `LuaState.createTable` could ask for more from
Java; nothing calls it.) The refinement mapping reads a key's value with `luaH_get`.

### LuaLex, LuaParser, LuaCode, LuaValues, LuaVM, LuaRun, BinaryChunk and LuaCompiler

`LuaLex` turns a text into tokens. `LuaParser` and `LuaCode` are `lparser.c` and `lcode.c`,
function by function, on a state `s` with the tokens left, the function under construction `fs`
and those around it; jump lists live in the offsets of the instructions, as in the code.
`LuaVM` executes one instruction in each step on a machine with frames, registers, open
upvalues, tables with metatables and their cached `flags` (a concatenation takes a step for each
pass of the loop of `luaV_concat`, as a metamethod may run in between). `LuaValues` has the values
and limits that the compiler and the interpreter share. `LuaRun` is the interpreter on its own:
any function is called with any arguments, and an instruction is a step. `BinaryChunk` writes
and reads functions, and has `luaG_checkcode`, which `close_func` asserts and `luaU_undump` relies
on. `LuaCompiler` composes them: a program is compiled one statement per step, may be dumped (with
or without names) and loaded, possibly from a file that ends early, and is run with each of four
argument lists.

`MCLuaCompiler` makes the programs: every logical expression over two arguments up to a size, in
each place where an expression can stand, with the value that an evaluator independent of the
compiler gives it; and some hundred programs for closures, loops, assignments, constructors,
calls, methods, metatables, limits and syntax errors, each with its result by the reference
manual. `SameResult` compares the two. The limits are small so that programs reach them:
MAXINDEXRK 1 (the second constant already needs a register), MAXSTACK 12, LFIELDS_PER_FLUSH 2
and MAXARG_C 1 (a constructor of five items needs the extra word of SETLIST), LUAI_MAXVARS 6,
LUAI_MAXUPVALUES 2, LUAI_MAXCCALLS 12, MAXTAGLOOP 3, MAXARG_Bx 12 (constants and functions of a
function) and MAXARG_sBx 30 (instructions a jump skips). For each limit on registers, locals,
upvalues, constants, functions, jumps and nesting there are programs just within and just beyond. A
token has the line it is on, for "ambiguous syntax", a call whose `(` is on a new line. Lost is the number of items missing at the
end of a chunk.

Left out: only tables have metatables; strings are not ordered and not converted to numbers;
numbers are integers; no hooks, no line numbers or names of locals in functions (nor the check of
their number in `precheck`); the standard library is four
functions that the programs use.

### LuaBridge

Java threads and the Lua threads of one VM. `stack[l]` has the frames of C functions of Lua
thread `l`, with what is on them; `ctl[t]` what Java thread `t` is in the middle of: a sequence of
natives of Java code (`java`), a script, a method called from it. `called` is the field
`__FunctionCalled` in the metatables, `env` the JNI environment in the registry. A native is one
step, taken when no other thread is in the monitor of the LuaState. `LuaObject.call` and proxies
hold it from beginning to end, a method of `LuaEngine` does not: what it does is taken from a list
of steps (push, pcall, remove, settop), and other threads run in between. That covers functions,
modules, chunks, files (`LdoFile` is one native, so nothing comes between its load and its pcall),
`printStackTrace`, the search path and the loader. A global that `LuaEngine` or a script reads and
nothing has set goes through the `__index` of `_G`, `javaFindClass`: it is a class, or, if it names
none, the name itself. A proxy returns null if the table has no such field, and asks for no result
if the method is void. Scripts look up
methods and fields, call them at any later time, create objects, register functions, run in a
coroutine, and Java methods call back through any of this.

`LuaBridge` (the run) has an engine thread with a budget of four calls, lookups and resumes, a
second thread with one, which calls through a proxy or a LuaObject, an object and a class, and
activations up to eight deep, a class and another name as globals that are not set. Four are enough for a method whose argument calls another method
that runs a script. It is a complete search of 3.5 million states. The properties leave out what the code does not provide (see Findings): a
method name looked up again in between (`stale`), coroutines, error values that are not
strings (`spilt`), and, in `AnswerArrives`, a global that names no class. Only one thread uses LuaEngine, as the activity of the framework does.

### LuaStrMatch, PatternMeaning, LuaSort, LuaRequire and LuaLibraries

`LuaStrMatch` is the backtracking matcher of `lstrlib.c` on the characters of a pattern, with its
captures, and the loops of `find`, `match`, `gmatch` and `gsub` around it. `PatternMeaning` defines
matching without backtracking: a way to match is a sequence of positions, and the best way is
the one in which the first item takes the most (or the least, for `-`), then the second, and so
on. `MatchesBest` says they agree in position, captures, and what gmatch and gsub do with them.

`LuaSort` is `auxsort`, with one step per call of the order function. With the order `rank` the
function compares; with `any` it answers anything, or raises an error. `LuaRequire` is
`ll_require`; the modules are Lua code that requires other modules in any order, fails, catches
errors, and assigns to `package.loaded`. `LuaLibraries` composes the three as a program that uses
one of them. `SortSpec` is `auxsort` alone, on an array of any length; `Sorts` bounds how deep its
calls nest (`TwoTo`: by the logarithm of the length). That it ends is not claimed: after an answer
that makes no sense the pivot may go to `u + 1`, and then the range that is left is `l..u` again.

`LuaLibraries` (the run): subjects of up to four characters, patterns of up to seven items (sets,
all repetitions, nested captures, positions, back references, `%b`, `%f`, anchors), two captures;
sorting six elements of three ranks, and four or five elements in any order; two modules, four
calls deep, with three runs and one removal each. gmatch ends before gsub begins, as they share
nothing.

## What is proved

All proofs are by TLAPS, for every value of the constants under the named assumptions.

`LuaGCProofs`: `TypeOK`, `LiveKept`, `TriColour`, `GrayListed`, `WhiteBetweenCycles`,
`FinalizedBeforeFree` and `WeakClearedIfDead`, for every heap. They follow from one inductive invariant `IInv`, because
`LiveKept` alone is not inductive: that nothing reachable is dead holds only because of what
the marks say about the rest of the heap. Its parts are

- the type invariant, and what the slots of each kind of object may hold;
- no live object refers to a free or dead cell, from which `LiveKept` follows by
  `AccessibleInND`: the set of live cells is closed under references and holds the roots;
- in the mark phase nothing is dead, a black object has no white child, and every gray object
  that must be visited is on one list;
- in a sweep, what is of the other white or coloured has not been swept;
- an upvalue is open on an existing thread, and pending userdata are marked.

The steps that need an argument are `Atomic` (what is not reached from the roots and the lists
is referred to by nothing that is reached, `FinishMarkInv`), `CloseUpval` and the `Sweep` of a
thread, where an upvalue becomes an object of its own with a value nobody has visited. That a
mark phase ends with all that is strongly reachable, but for what only waiting userdata lead to,
marked before userdata are separated
(`AtomicSuffices`, `FullGCSuffices`, `ReachLeast`) gives `WeakClearedIfDead`, too.

`LuaRefProofs`: `TypeOK`, `PushesItsValue`, `VMOutlivesCalls` and `FreeListWhole`, under
`OneLuaState`: there is one LuaState per VM. Its invariant says what the thread inside a call has
in hand (a slot that nobody holds, the head of the list) and that the slots of distinct
LuaObjects differ. That the free list reaches every free slot and ends is stated without
recursion: `Reaches` says that a set of free slots which the list does not leave holds all of
them, `Ends` that one of them points to nil; with free slots pointing to distinct free slots,
that is the whole list.

`StateFactoryProofs`: `TypeOK` for every application; `FindsItsState` and `NeverForgotten` under
`OneVM`: the application opens the next VM after it closed the last, as `LuaEngine` does (the
finding of `StateFactoryTwoVMs` is what happens otherwise). `FindsItsState` is not inductive
alone: that closing a LuaState moves no other away from its index needs that all LuaStates at
work are of one VM and that one at most is closing (`Working`), and where in the list a LuaState
under construction will be (`Listing`). The other lemmas are about `NextStateIndex`, a minimum
over the list.

`LuaDoProofs`: `TypeOK`, `ErrorsUndone`, `ThrowStaysInThread`, `DepthBoundedByLevel`,
the action property `YieldsToResumer` and the refinement `ImplementsCoroutine`, without an
assumption beyond those of `LuaDo` on its constants, so for any number of coroutines and any
limits. The counters are right where a
coroutine is resumed only because every longjmp restores what the record of its target saved, so
`IInv` speaks of all records of the C stack at once:

- `Shape`: which record may stand on which, and that a switch of threads is a resume or a call
  from Java;
- `JumpBuffers`: below every activation there is a jump buffer of its thread, with no other
  thread in between;
- `Frames`: a thread keeps the CallInfos that the activations below still need;
- `Counts`, `Depths`, `Limits`: what `nCcalls` counts, now and where it was saved, what that is
  against the depth of the C stack, and how far a failing thread may pass the limit;
- `Handlers`, `Statuses`: which handler a pcall saved, and which coroutines are active.

A throw is the hard step: it cuts any number of records, and `CutStack` and the lemmas on
`Cardinality` say what is left of the counts.

`ImplementsCoroutine` is proved from it, step by step: every action is a step of `Coroutine` or
changes nothing there (`NextStep`). The chain of the abstract specification is computed from the
C stack by a recursive function (`ChainTo`); that it has a solution, and that equal stacks have
equal chains, is shown with the least index at which they would not (`UpTo`). `CoStatusIs` says
what `costatus` answers without the CallInfos, for which the invariant is needed, and `Started`
that the body of a coroutine on the C stack does not wait to be started.

`LuaBridgeProofs`: `EnvOfCaller` and `RunsTheMethodNamed`, without any assumption but that
`Engine` is a subset of the threads and `Classes` of the userdata. The invariant `Calls` says that
the activations of a thread nest as calls do (`Control`), that one thread at most has the
monitor of the LuaState (`Exclusive`), that the environment in the registry is that of every
thread which is in Lua (`EnvInv`), and that a lookup not marked stale is what the metatable
remembers (`Honest`).

The rest of `LuaBridgeProofs`: `CallsWhatItPushed`, `AnswerArrives` and `StackLeftAsFound`, under `OneEngine`: one thread uses LuaEngine, as the activity does from the
main thread of the application. LuaEngine takes the monitor for each native and not for a call,
so that with two such threads the properties are false (see Findings); proxies and `LuaObject.call`
may be used by any number of threads. All three are about one stack that every activation
of every thread works on. The first part of the module takes what Java code has left to do as a
`Path`: from what it has on its base now, the remaining natives lead to its pcalls and its
end, each finding the operands it needs (`Turns`); every piece of code that `LuaBridge` starts
with is shown to be one, from an empty part of the frame. The second has the invariant
`Stacked`: each activation is at the frame that the calls below it make (`Levels`), Java code
that runs has on it what its `Path` starts from (`Sits`), Java code in a pcall has that without
the function and its arguments (`Waits`), and what a thread without the monitor left between two
natives is under all that the thread with the monitor does. Code that found an error value left by
another is not followed (`Tracked`, `spilt`), as in the properties.

`LuaLibraryProofs`: `Sorts`, for an array of any length and whatever the order function answers. That
`auxsort` sorts is seen from the ranges that are left, its own and those of the callers
(`Left`), so `SortInv` says of them

- `Inside`, `Apart`: they are parts of the array and do not overlap;
- `Nested`: each is at least as large as all that its recursive call has left, from which the bound
  on the depth follows (`Powers`);
- `InOrder`: two elements are in order, or in one range that is left. This is the core of the proof;
  with nothing left, the array is sorted;
- `Cursors`, `Compared`: where i and j are in each step of the partition, also when the order
  function makes no sense, and, when it does, what has been compared with the pivot;
- `Kept`: every element is there as often as at the start.

When the pivot is put at its place, `Compared` gives that its left is not above and its right not
below it, so splitting the range there (`Replaces`) keeps `InOrder`. With `any`, only
`Kept`, `Cursors` and the first three hold, and they are proved from the checks of `i` against `u`
and of `j` against `l` alone. A swap keeps the counts by a bijection of positions.

The rest of `LuaLibraryProofs`: `RequiresOnce`, for any modules, nesting and number of runs. Its invariant
says that a body that runs twice, or while the entry of its module is falsy, had its entry taken
away (`MarkStays`), and counts the runs against the entries taken away (`Counted`). The only
assumption is that no module is called `none`, the name in an answer that is not there.

`LuaTableProofs`: `SizesAreBest`, `ReinsertionFits`, `BorderFound` and the refinement
`ImplementsMap`, for any keys, any hash function, any `MAX_INT` and any bound of the array part,
under `TableAssumption` (the numbers are positive integers up to `MAX_INT`, and a constructor asks
for no array above the bound). `Sound` says what every table satisfies, with as many nodes as it
has:

- `Linked`: chains end and no two of them join, and a node that never had a key is in none;
- `Homed`: every key is reached from its main position, where a key of that main position is. This
  is what moving the colliding node out of a main position is for; without its second half the
  three cases of `newkey` would not preserve the first;
- `Single`: a key has one node that is not dead, and no dead node of the same key comes before it,
  which is why `findindex` may take the first one, dead or not;
- `FreeBelow`: at and above `lastfree` no node is free;
- `ArrayOK`, `Typed`: the array part is within its bound, and of integer keys.

That a search of a chain finds its key rests on `Linked` (`SearchIs`, `GetIs`); `Chain`, `Bisect`,
`Filled` and the loop of `computesizes` are recursive functions whose values are shown by induction
on an interval (`UpTo`, from the well-founded order of the naturals). `Placed` is shown for each
case of `newkey` (`PlacedInMain`, `PlacedByMove`, `PlacedInChain`). `ReinsertionFits` needs a
counting argument: as long as fewer keys are in the new hash part than it has nodes, one of the
nodes was never taken, and `FreeBelow` says that it is below `lastfree` (`During`, `NextFits`).
`WalkOK` adds the traversal: the keys handed out are those up to the place of the current one. The
refinement takes `WalkOK` for the steps of `next`, and `Sound` for all others (`StepMaps`).

`LuaRunProofs`: `FlagsHonest`, for any function whatever its code, any arguments and any global
variables, so also for binary chunks that no compiler made. The invariant says that the tables of
the machine are a sequence and that the cache of each is honest: for an event in
`flags`, the table has nothing. It is kept because every way to write a field ends in `SetField`,
which clears the cache, or adds fields at numbers only (`SetList`, `WithFieldsGood`), because
`fasttm` notes only what it has just found absent, and because all other operators leave the tables
alone or add one with an empty cache. The hard part is `luaV_settable`, where the lookup of `__newindex`
in the metatable may fill the cache of a table that is written in the same step: the loop over
metatables (`Access`) is a recursive function whose every pass keeps the invariant (`FollowedGood`),
and the write at its end clears the cache again.

Only model-checked:

- `GarbageCollected`: liveness under fairness, which TLAPS does not reason about.
- `SameResult`, `Judged`, `AssertionsHold`, `CodeChecks` and `LoadInvertsDump` of `LuaCompiler`, and
  `MatchesBest` of `LuaStrMatch`: they say what the compiler, `dump` and `load`, and the matcher
  compute, which are recursive definitions over programs, functions and patterns. To prove
  them for every input takes an induction over data.

## Findings

Checked by a run that finds the violation:

- Two LuaStates of one VM do not exclude each other (`LuaRefTwoStates`).
- `removeLuaState` inserts a null instead of removing, which moves the other LuaStates away from
  the index that their registries hold (`StateFactoryTwoVMs`).

Met while modelling, and part of the modules, without a run of their own:

- `insertLuaState` sets a position of the list that need not exist yet, and then throws, so a
  LuaState over a `lua_State` that the list does not know cannot always be made.
- A Java function called by a coroutine calls Lua on the main thread, whose `nCcalls` leaves out
  the C calls of the coroutine, so the C stack may be deeper than `LUAI_MAXCCALLS` allows.
- A coroutine resumed one call below the limit passes it unnoticed and ends in `LUA_ERRERR`.
- `o:f(o:g())` calls `g` twice: `__index` keeps one method name for each object.
- In a coroutine, what a Java method or field answers goes to the stack of the main thread.
- A global that is neither set nor a class evaluates to its own name, because `javaFindClass`
  leaves the key on top; a class first named in a coroutine sets its global to a string.
  `executeGlobalFunction` of a function that is not there then fails as a call of a string.
- `printStackTrace` returns null: its pcall asks for no result, so that `toString` reads the table
  `debug`. It does not look at the result of the pcall; when that fails, `debug` stays on the stack.
- A userdata that waits for its `__gc` stays black, so a full collection that starts meanwhile does
  not mark past it before it separates the userdata and clears weak values. A userdata that is
  reached only by way of the waiting one, which another finalizer may have stored in a global, is
  then queued and taken out of weak tables though it is in use. `WeakClearedIfDead` has this
  exception; it needs six cells, so the runs do not meet it and the proof does.
- Two threads that use LuaEngine take each other's values off the stack.
- `LuaObject.call` leaves an error that is not a string on the stack; LUA_YIELD and LUA_ERRRUN of
  `LuaState.java` are swapped against `lua.h`, which changes the message of such an error.
- A LuaObject whose LuaState was closed through the LuaState of newThread is finalized in a VM
  that is gone (`LuaObject.java:200` asks only its own).
- `find` with a pattern whose only special character is `)` searches it as plain text.
- `table.sort` with an order function that makes no sense can move the nil beyond the end in.
- A module in the assets with a syntax error counts as not found: `AssetLoaderFunc` ignores the
  result of `LloadBuffer`.

## Not modelled

- `HttpHelper`, `LuaHttpGet`, `LuaHttpPost`: straight-line calls of an HTTP client that is not in
  this repository. `LuaActivity`: each method forwards one call to the engine, which is modelled.
  `HttpRequest.java` is a vendored class nothing uses. `Demo/` is an example.
- `lmathlib.c`, `loslib.c`, `liolib.c`, `ldblib.c`: wrappers of C functions; `string.format`, `rep`,
  `byte`, `table.insert`, `remove`, `concat`: no state of their own.
- In modelled components: stack reallocation and hooks (`ldo.c`, `ldebug.c`), the arithmetic of
  the debt and the buckets of the string table (`lgc.c`, `lstring.c`), line numbers and names for
  debugging, conversions between strings and numbers, the conversion of Java arguments
  (`compareTypes`), the search for files and the dynamic libraries of `loadlib.c`.

## Plan

1. Proofs: that with an order that makes sense `auxsort` ends; what `AddSearchPath` and the other
   code of LuaEngine push, for two threads that do not overlap.
2. Models: the buckets of the string table and `luaS_resize` during a sweep, the reallocation of
   the stack with open upvalues, `gsub` with a function that calls gsub, the conversion of
   arguments in `LuaJavaAPI`.
