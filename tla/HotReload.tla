------------------------------- MODULE HotReload -------------------------------
(***************************************************************************)
(* What a reload of a module does to the functions that frames hold:       *)
(* perform_reload in the debuggee, and HotReloadService for a program in   *)
(* the adapter's own process.  One thread reloads, a step at a time, and   *)
(* threads that are not stopped go on.  A reload is asked for, answered    *)
(* and followed by breakpoints in AdapterBreakpoints.  Not modelled: the   *)
(* assignment of frame.f_code, which raises in every CPython, so that a    *)
(* frame goes on with the code it has.                                     *)
(***************************************************************************)
EXTENDS Naturals

CONSTANTS
    LiveFrames,  \* frames of the program's threads, each with one local that counts
    LastName,    \* the names 1..LastName of the module, in the order of its dict
    FunctionKinds, \* what the module's statements may make of a name: see Functions
    ReloadLimit  \* bound on the reloads

ASSUME ReloadAssumption == LastName \in Nat /\ ReloadLimit \in Nat
ASSUME KindsAssumption == FunctionKinds \subseteq {"plain", "closure", "wrapper"}

Names == 1..LastName

VARIABLES
    service,     \* who reloads: the "debuggee", or the "adapter" in its own process
    dict,        \* the module's functions: name -> function, or NoFunction
    local,       \* what the local of each frame holds
    stage,       \* of the reload: "idle", "running" the module, "walking" the frames
    version,     \* how often the module has been run
    todo,        \* names the module's code has not come to yet
    old,         \* old_functions, collected before the module runs again
    ahead,       \* the frames the walk has still to come to
    f_locals,    \* what the walk has read of the frame it is at, or NoFrame
    warned,      \* the closures this reload has warned of
    reported,    \* the closures the last reload that succeeded reported
    missed       \* history: the frames whose local a reload could not follow

walk == <<ahead, f_locals, warned>>
reloadVars ==
    <<service, dict, local, stage, version, todo, old, walk, reported, missed>>

-----------------------------------------------------------------------------
(* Functions.  A def statement makes a plain function and a decorator of   *)
(* the module a closure; a wrapper is what a decorator of another module   *)
(* makes, and a copy is a second function over the code of a plain one.    *)

Function(name, number, kind) == [name |-> name, version |-> number, kind |-> kind]
NoFunction == Function(0, 0, "none")
NoFunctions == [n \in Names |-> NoFunction]
Copy(f) == Function(f.name, f.version, "copy")

\* What a decorator that the module uses has made for another module.
Foreign == Function(0, 0, "wrapper")

\* fn.__code__: one for a def statement each time it runs, one for the closures
\* of a decorator of the module, and one for a decorator that is not reloaded.
Code(f) == CASE f.kind \in {"plain", "copy"} -> Function(f.name, f.version, "code")
             [] f.kind = "closure" -> Function(0, f.version, "code")
             [] OTHER -> Function(0, 0, "code")

_is_closure(f) == f.kind \in {"closure", "wrapper"}

\* fn.__module__ is the module that is reloaded.
OfModule(f) == f.kind \in {"plain", "copy", "closure"}

\* What one run of the module can define for a name.
Defined(n, number) == {Function(n, number, kind) : kind \in FunctionKinds}

\* What a statement of the program may put in a local; a bound method counts as
\* the function it binds, which a replacement binds again.
Assignable == {NoFunction, Foreign} \union {dict[n] : n \in Names}
    \union {Copy(dict[n]) : n \in {m \in Names : dict[m].kind = "plain"}}

\* A local that holds nothing of the module, a function it has in d, or a copy.
Current(f, d) ==
    \/ f \in {NoFunction, Foreign}
    \/ \E n \in Names : d[n] # NoFunction
                        /\ (f = d[n] \/ (f.kind = "copy" /\ Code(f) = Code(d[n])))

NoFrame == [frame |-> "none"]

ReloadInit ==
    /\ service \in {"debuggee", "adapter"}
    /\ dict \in [Names -> {NoFunction} \union UNION {Defined(n, 1) : n \in Names}]
    /\ local \in [LiveFrames -> Assignable]
    /\ stage = "idle" /\ version = 1
    /\ todo = {} /\ old = NoFunctions
    /\ ahead = {} /\ f_locals = NoFrame /\ warned = {} /\ reported = {}
    /\ missed = {}

\* A thread that runs assigns its local.  What it takes while a reload is under
\* way may be old already, and its frame may have been walked.
Assign(frame) ==
    /\ \E f \in Assignable : local' = [local EXCEPT ![frame] = f]
    /\ missed' = IF stage = "idle" THEN missed \ {frame} ELSE missed \union {frame}
    /\ UNCHANGED <<service, dict, stage, version, todo, old, walk, reported>>

-----------------------------------------------------------------------------
(* The module runs again.                                                  *)

\* Every module-level function, before the module runs again.
collect_module_functions == dict

StartReloading ==
    /\ stage = "idle" /\ version <= ReloadLimit
    /\ stage' = "running" /\ version' = version + 1
    /\ todo' = Names
    /\ old' = collect_module_functions
    /\ UNCHANGED <<service, dict, local, walk, reported, missed>>

perform_reload == service = "debuggee" /\ StartReloading

\* HotReloadService's own sequence collects and reloads in the same order.
_perform_reload == service = "adapter" /\ StartReloading

\* importlib.reload runs the module in the dict it has: a name becomes a new
\* function, another name's, or no function, and keeps what it had when the
\* source no longer defines it.
RunStatement(n) ==
    /\ stage = "running" /\ n \in todo
    /\ \E f \in {NoFunction} \union Defined(n, version) \union {dict[m] : m \in Names} :
          dict' = [dict EXCEPT ![n] = f]
    /\ todo' = todo \ {n}
    /\ UNCHANGED <<service, local, stage, version, old, walk, reported, missed>>

\* The module raises, or nothing of it could be reloaded: the names it has come to
\* are new, and no frame is walked.
ModuleRaises ==
    /\ stage = "running"
    /\ stage' = "idle" /\ todo' = {} /\ old' = NoFunctions
    /\ missed' = missed \union {frame \in LiveFrames : ~Current(local[frame], dict)}
    /\ UNCHANGED <<service, dict, local, version, walk, reported>>

-----------------------------------------------------------------------------
(* The successors of the old functions.                                    *)

LastOf(S) == CHOOSE n \in S : \A m \in S : m <= n

\* The names under which the module had the function, or one with its code, and
\* has a function now.
Keyed(key, before, after) ==
    {n \in Names : /\ before[n] # NoFunction /\ after[n] # NoFunction
                   /\ key \in {before[n], Code(before[n])}}

\* id(old function) and id(its code) -> the new function of the name; of several
\* names the last one's.
build_rebind_map(before, after) ==
    [key \in {k \in {before[n] : n \in Names} \union {Code(before[n]) : n \in Names} :
                 Keyed(k, before, after) # {}}
        |-> after[LastOf(Keyed(key, before, after))]]

\* (the mutant looks for the function only)
M_replacement_for_value(f, map) == IF f \in DOMAIN map THEN map[f] ELSE NoFunction

\* By the function, then by its code; anything else has no replacement.
_replacement_for_value(f, map) ==
    CASE f \in DOMAIN map -> map[f]
      [] f \notin DOMAIN map /\ f # NoFunction /\ Code(f) \in DOMAIN map -> map[Code(f)]
      [] OTHER -> NoFunction

-----------------------------------------------------------------------------
(* The walk.                                                               *)

\* With nothing to put in place of anything, no frame is looked at.
Walked(listed) == IF DOMAIN build_rebind_map(old, dict) = {} THEN {} ELSE listed

StartWalk(listed) ==
    /\ stage = "running" /\ todo = {}
    /\ stage' = "walking"
    /\ ahead' = Walked(listed)
    /\ missed' = missed \union
                    {frame \in LiveFrames \ Walked(listed) : ~Current(local[frame], dict)}
    /\ UNCHANGED <<service, dict, local, version, todo, old, f_locals, warned, reported>>

\* Every frame of every thread of the process.
_get_all_frames == service = "debuggee" /\ StartWalk(LiveFrames)

\* The frames that stack traces have registered, and the current one.
_iter_live_frames ==
    service = "adapter" /\ \E listed \in SUBSET LiveFrames : StartWalk(listed)

\* The walk reads f_locals of a frame, whether its thread is stopped or not.
ReadLocals(frame) ==
    /\ stage = "walking" /\ f_locals = NoFrame /\ frame \in ahead
    /\ ahead' = ahead \ {frame}
    /\ f_locals' = [frame |-> frame, value |-> local[frame]]
    /\ UNCHANGED <<service, dict, local, stage, version, todo, old, warned, reported, missed>>

\* A closure of the module is skipped, whatever its successor is.
Skipped(f) == _is_closure(f) /\ OfModule(f)

Replacement(f) ==
    IF Skipped(f) THEN NoFunction
    ELSE _replacement_for_value(f, build_rebind_map(old, dict))

\* Neither followed nor warned of: the module has no function any more under the
\* names it had this one under.
Unfollowed(f) ==
    /\ ~Current(f, dict) /\ ~Skipped(f)
    /\ Keyed(f, old, dict) = {} /\ Keyed(Code(f), old, dict) = {}

\* The locals that were read are written with the replacement and flushed, over
\* what the thread has assigned since.
rebind_stack_frames ==
    /\ f_locals # NoFrame
    /\ LET frame == f_locals.frame
           f == f_locals.value
       IN /\ local' = IF Replacement(f) = NoFunction THEN local
                      ELSE [local EXCEPT ![frame] = Replacement(f)]
          /\ warned' = IF Skipped(f) THEN warned \union {f.name} ELSE warned
          /\ missed' = IF Unfollowed(f) THEN missed \union {frame} ELSE missed
    /\ f_locals' = NoFrame
    /\ UNCHANGED <<service, dict, stage, version, todo, old, ahead, reported>>

\* The result is sent with its warnings.
FinishReload ==
    /\ stage = "walking" /\ ahead = {} /\ f_locals = NoFrame
    /\ stage' = "idle" /\ old' = NoFunctions
    /\ reported' = warned /\ warned' = {}
    /\ UNCHANGED <<service, dict, local, version, todo, ahead, f_locals, missed>>

ReloadNext ==
    \/ \E frame \in LiveFrames : Assign(frame) \/ ReadLocals(frame)
    \/ perform_reload \/ _perform_reload
    \/ \E n \in Names : RunStatement(n)
    \/ ModuleRaises
    \/ _get_all_frames \/ _iter_live_frames
    \/ rebind_stack_frames \/ FinishReload

ReloadSpec == ReloadInit /\ [][ReloadNext]_reloadVars

-----------------------------------------------------------------------------
\* After any number of reloads a frame's local holds no function that the module
\* has replaced, but for a closure that the last report warned of, whether its
\* thread is stopped or goes on while the module is reloaded.  Missed are the
\* locals that a thread assigned during a reload, that a reload found no function
\* of the name for, or that one which stopped half-way, had nothing to put in
\* their place or did not know the frame left behind: an old function is known by
\* identity, so none is found again.
FramesFollow ==
    stage = "idle" => \A frame \in LiveFrames \ missed :
        \/ Current(local[frame], dict)
        \/ local[frame].kind = "closure" /\ local[frame].name \in reported

\* "Replaces any local variable that holds an old function/method with the
\* reloaded version": no other local, so that one keeps what a decorator that the
\* module shares with others has made for another module.
OnlyOldReplaced ==
    [][rebind_stack_frames /\ f_locals.value = Foreign => UNCHANGED local]_reloadVars
=============================================================================
