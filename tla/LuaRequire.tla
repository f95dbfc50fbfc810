----------------------------- MODULE LuaRequire -----------------------------
(***************************************************************************)
(* require of loadlib.c, with the loaders it calls: preload, files and the *)
(* AssetLoaderFunc that LuaEngine adds.  Modules are Lua code and call     *)
(* require themselves, in any order, fail, catch errors with pcall, and    *)
(* assign to package.loaded, as the function module does.                  *)
(*                                                                         *)
(* calls has the bodies and pcalls that run, the innermost last.  Left out *)
(* are loaders that call require, and the search of the file loaders.      *)
(***************************************************************************)
EXTENDS Integers, SequencesExt

CONSTANTS Module,    \* names of modules
          MaxCalls,  \* bound: bodies and pcalls that run at once
          MaxRuns,   \* bound: bodies of a module that have begun
          MaxClears  \* bound: assignments of nil or false to loaded[m]

ASSUME ModuleAssumption == "none" \notin Module

VARIABLES loaded,  \* package.loaded
          calls,
          runs,    \* runs[m]: how often the body of m has begun
          clears,  \* clears[m]: how often loaded[m] was set to nil or false
          answer   \* the module of the last require, and what it returned

requireVars == <<loaded, calls, runs, clears, answer>>

Falsy == {"nil", "false"}
Answer(m, v) == [m |-> m, v |-> v]
NoAnswer == Answer("none", "nil")

Body(m) == [k |-> "body", m |-> m]
ProtectedCall == [k |-> "pcall", m |-> "none"]
Deeper == Len(calls) < MaxCalls

\* An error ends the calls from the innermost pcall on, or all of them.
Raise ==
    /\ LET pcalls == {i \in DOMAIN calls : calls[i].k = "pcall"}
       IN \/ pcalls = {} /\ calls' = <<>>
          \/ \E i \in pcalls : (\A j \in pcalls : j <= i) /\ calls' = SubSeq(calls, 1, i - 1)
    /\ answer' = NoAnswer

Assign(m, v) ==
    /\ v \in Falsy => clears[m] < MaxClears
    /\ loaded' = [loaded EXCEPT ![m] = v]
    /\ clears' = IF v \in Falsy THEN [clears EXCEPT ![m] = @ + 1] ELSE clears

\* require(m) when m is loaded, or is being loaded, or failed before
RequireLoaded(m) ==
    /\ loaded[m] \notin Falsy
    /\ IF loaded[m] = "sentinel" THEN Raise /\ UNCHANGED <<loaded, runs, clears>>
       ELSE /\ answer' = Answer(m, loaded[m])
            /\ UNCHANGED <<loaded, calls, runs, clears>>

\* No loader finds m; a source that AssetLoaderFunc cannot compile counts as
\* not found, one that a file loader cannot raises its own error.
RequireMissing(m) ==
    /\ loaded[m] \in Falsy
    /\ Raise /\ UNCHANGED <<loaded, runs, clears>>

\* (Mutant: the sentinel is stored after the body has run.)
MarkLater(m) == loaded
MarkLoading(m) == [loaded EXCEPT ![m] = "sentinel"]

\* A loader finds m: its body starts.
RequireLoads(m) ==
    /\ loaded[m] \in Falsy
    /\ Deeper /\ runs[m] < MaxRuns
    /\ loaded' = MarkLoading(m)
    /\ calls' = Append(calls, Body(m))
    /\ runs' = [runs EXCEPT ![m] = @ + 1]
    /\ answer' = NoAnswer /\ UNCHANGED clears

\* The body of m returns v: require ends.
BodyReturns ==
    /\ calls # <<>> /\ Last(calls).k = "body"
    /\ LET m == Last(calls).m
       IN \E v \in {"nil", "false", "value"} :
            LET now == IF v = "nil" THEN loaded[m] ELSE v
                end == IF now = "sentinel" THEN "true" ELSE now
            IN /\ IF v = "false" THEN Assign(m, v)
                  ELSE loaded' = [loaded EXCEPT ![m] = end] /\ UNCHANGED clears
               /\ answer' = Answer(m, end)
    /\ calls' = Front(calls)
    /\ UNCHANGED runs

PCallBegins ==
    /\ Deeper
    /\ calls' = Append(calls, ProtectedCall)
    /\ answer' = NoAnswer /\ UNCHANGED <<loaded, runs, clears>>

PCallReturns ==
    /\ calls # <<>> /\ Last(calls).k = "pcall"
    /\ calls' = Front(calls)
    /\ answer' = NoAnswer /\ UNCHANGED <<loaded, runs, clears>>

CodeFails == Raise /\ UNCHANGED <<loaded, runs, clears>>

\* module(m) makes a table and stores it, unless there is one.
ModuleCalled ==
    /\ \E m \in Module : loaded[m] # "table" /\ Assign(m, "table")
    /\ answer' = NoAnswer /\ UNCHANGED <<calls, runs>>

\* package.loaded[m] = nil, to load it again
Unload ==
    /\ \E m \in Module : loaded[m] # "nil" /\ Assign(m, "nil")
    /\ answer' = NoAnswer /\ UNCHANGED <<calls, runs>>

RequireInit ==
    /\ loaded = [m \in Module |-> "nil"]
    /\ calls = <<>>
    /\ runs = [m \in Module |-> 0]
    /\ clears = [m \in Module |-> 0]
    /\ answer = NoAnswer

RequireNext ==
    \/ \E m \in Module : RequireLoaded(m) \/ RequireMissing(m) \/ RequireLoads(m)
    \/ BodyReturns \/ PCallBegins \/ PCallReturns \/ CodeFails \/ ModuleCalled \/ Unload

RequireSpec == RequireInit /\ [][RequireNext]_requireVars

(***************************************************************************)
(* Properties                                                              *)
(***************************************************************************)

\* The body of a module runs again only after its entry in package.loaded was
\* taken away, whatever modules require each other and fail.
RunsOnce == \A m \in Module : runs[m] <= 1 + clears[m]

\* A require that returns gives the module, not the mark of one that is being
\* loaded, and nothing before the body of the module has returned, unless it
\* called module or the entry was taken away.
GivesModule ==
    LET m == answer.m
    IN /\ answer.v # "sentinel"
       /\ m \in Module /\ clears[m] = 0 =>
            /\ answer.v \notin Falsy
            /\ answer.v \in {"true", "value"} => Body(m) \notin Range(calls)

RequiresOnce == RunsOnce /\ GivesModule
=============================================================================
