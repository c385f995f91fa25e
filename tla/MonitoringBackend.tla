-------------------------- MODULE MonitoringBackend --------------------------
(***************************************************************************)
(* The sys.monitoring tracing back end                                     *)
(* (dapper/_frame_eval/monitoring_backend.py) together with the part of    *)
(* the interpreter it programs: which events are switched on globally and  *)
(* per code object, which locations a callback has disabled, and when the  *)
(* interpreter offers them again.                                          *)
(*                                                                         *)
(* The threads of the program walk through their code.  A location whose   *)
(* event is on and not disabled calls the back end; the answer of the      *)
(* callback is computed at one moment and applied by the interpreter at a  *)
(* later one, and a control thread may replace breakpoints, watches and    *)
(* the stepping mode in between.                                           *)
(***************************************************************************)
EXTENDS Naturals, Sequences, FiniteSets

CONSTANTS
    Threads,    \* threads of the program
    Codes,      \* code objects
    Files,      \* source files
    FileOf,     \* the file each code object was compiled from
    Lines,      \* line numbers of a file
    Names,      \* variable names a code object reads
    NoCode,     \* no code object
    MaxDepth,   \* bound on the depth of a stack
    MaxOps      \* bound on the operations of the control thread

ASSUME FileAssumption == FileOf \in [Codes -> Files]
ASSUME NoCodeAssumption == NoCode \notin Codes
ASSUME BoundAssumption == MaxDepth \in Nat /\ MaxOps \in Nat

Events == {"LINE", "CALL", "PY_START", "PY_RETURN", "INSTRUCTION"}
Modes == {"CONTINUE", "STEP_IN", "STEP_OVER", "STEP_OUT"}

\* The places at which a code object raises an event.
LineAt(c, l) == <<"LINE", c, l>>
CallOf(c, d) == <<"CALL", c, d>>
ReadOf(c, n) == <<"INSTRUCTION", c, n>>
StartOf(c) == <<"PY_START", c, c>>
ReturnOf(c) == <<"PY_RETURN", c, c>>

Locations ==
    {LineAt(c, l) : c \in Codes, l \in Lines} \cup {CallOf(c, d) : c, d \in Codes}
        \cup {ReadOf(c, n) : c \in Codes, n \in Names}
        \cup {StartOf(c) : c \in Codes} \cup {ReturnOf(c) : c \in Codes}

Idle == [at |-> <<>>, answer |-> "none", old |-> FALSE]
Answers == {"disable", "keep", "told", "switch", "orphan"}
Callbacks == [at : Locations, answer : Answers, old : BOOLEAN] \cup {Idle}

VARIABLES
    installed,      \* the back end holds DEBUGGER_ID
    breakpoints,    \* _breakpoints
    conditions,     \* _conditions: the lines that have one
    functions,      \* _function_breakpoints
    watched,        \* _read_watch_names
    registry,       \* _code_registry
    mode,           \* _step_mode
    stepCode,       \* _step_code
    vm,             \* the interpreter's instrumentation
    stack,          \* the code objects each thread is in
    entering,       \* threads at the entry of their topmost code object
    callback,       \* the callback a thread is in
    control,        \* what the control thread still has to do
    ops             \* operations of the control thread so far

vars == <<installed, breakpoints, conditions, functions, watched, registry, mode,
          stepCode, vm, stack, entering, callback, control, ops>>
tables == <<breakpoints, conditions, functions, watched>>
program == <<stack, entering>>

-----------------------------------------------------------------------------
(* The interpreter.  `active' is what a code object is instrumented for: it *)
(* follows the events that are on at once when the code object runs, and    *)
(* when it is entered otherwise.  A disabled location is offered again when *)
(* its event was off in between or after restart_events.  `late' is a       *)
(* history: the locations that were disabled by an answer computed before   *)
(* the last restart; `strayed', that a callback of an earlier back end has  *)
(* changed the events of this one.                                          *)

Running(s) == {c \in Codes : \E t \in Threads : \E i \in DOMAIN s[t] : s[t][i] = c}

Instrument(v, S) ==
    LET now(c) == v.global \cup v.local[c]
        off == {d \in v.disabled : d[2] \in S => d[1] \in v.active[d[2]] \cap now(d[2])}
    IN  [v EXCEPT !.active = [c \in Codes |-> IF c \in S THEN now(c) ELSE v.active[c]],
                  !.disabled = off,
                  !.late = v.late \cap off]

SetEvents(v, es) == Instrument([v EXCEPT !.global = es], Running(stack))

SetLocalEvents(v, S, es) ==
    Instrument([v EXCEPT !.local = [c \in Codes |-> IF c \in S THEN es ELSE v.local[c]]], S)

RestartEvents(v) ==
    [v EXCEPT !.active = [c \in Codes |-> v.global \cup v.local[c]],
              !.disabled = {}, !.late = {}]

Disable(v, at, old) ==
    [v EXCEPT !.disabled = @ \cup {at}, !.late = IF old THEN @ \cup {at} ELSE @]

\* Callbacks that have answered but not returned are older than the restart.
Outdated == [t \in Threads |-> IF callback[t] = Idle THEN Idle
                               ELSE [callback[t] EXCEPT !.old = TRUE]]

Init ==
    /\ installed = FALSE
    /\ breakpoints = [f \in Files |-> {}]
    /\ conditions = {}
    /\ functions = {}
    /\ watched = {}
    /\ registry = {}
    /\ mode = "CONTINUE"
    /\ stepCode = NoCode
    /\ vm = [global |-> {}, local |-> [c \in Codes |-> {}], active |-> [c \in Codes |-> {}],
             disabled |-> {}, late |-> {}, strayed |-> FALSE]
    /\ stack = [t \in Threads |-> <<>>]
    /\ entering = {}
    /\ callback = [t \in Threads |-> Idle]
    /\ control = "idle"
    /\ ops = 0

-----------------------------------------------------------------------------
(* Operations of the control thread. *)

Operation == /\ control = "idle" /\ ops < MaxOps
             /\ ops' = ops + 1

\* install of a fresh instance: claims the tool and enables PY_START; the
\* watch names are taken over by the sync that follows it.
install ==
    /\ Operation /\ ~installed
    /\ installed' = TRUE
    /\ vm' = SetEvents(vm, {"PY_START"})
    /\ UNCHANGED <<tables, registry, mode, stepCode, program, callback, control>>

\* shutdown: switches the global events off and forgets everything; what
\* set_local_events has switched on stays with the code objects.  A return
\* callback that is still to switch the mode now does so for a back end that
\* is gone.
shutdown ==
    /\ Operation /\ installed
    /\ installed' = FALSE
    /\ vm' = SetEvents(vm, {})
    /\ breakpoints' = [f \in Files |-> {}]
    /\ conditions' = {} /\ functions' = {} /\ watched' = {} /\ registry' = {}
    /\ mode' = "CONTINUE" /\ stepCode' = NoCode
    /\ callback' = [t \in Threads |-> IF callback[t].answer = "switch"
                                     THEN [callback[t] EXCEPT !.answer = "orphan"]
                                     ELSE callback[t]]
    /\ UNCHANGED <<program, control>>

\* _apply_local_events: LINE on every known code object of the file, or none.
ApplyLocalEvents(v, f, bps) ==
    SetLocalEvents(v, {c \in registry : FileOf[c] = f}, IF bps[f] # {} THEN {"LINE"} ELSE {})

\* (the mutant leaves restart_events out)
M_UpdateWithoutRestart(f, ls) ==
    /\ Operation /\ installed
    /\ breakpoints' = [breakpoints EXCEPT ![f] = ls]
    /\ conditions' = IF ls = {} THEN {k \in conditions : k[1] # f} ELSE conditions
    /\ vm' = ApplyLocalEvents(vm, f, breakpoints')
    /\ UNCHANGED <<installed, functions, watched, registry, mode, stepCode, program, callback,
                   control>>

\* update_breakpoints: the part under the lock; restart_events comes after it.
update_breakpoints(f, ls) ==
    /\ Operation /\ installed
    /\ breakpoints' = [breakpoints EXCEPT ![f] = ls]
    /\ conditions' = IF ls = {} THEN {k \in conditions : k[1] # f} ELSE conditions
    /\ vm' = ApplyLocalEvents(vm, f, breakpoints')
    /\ control' = "restart"
    /\ UNCHANGED <<installed, functions, watched, registry, mode, stepCode, program, callback>>

restart_events ==
    /\ control = "restart"
    /\ vm' = RestartEvents(vm)
    /\ callback' = Outdated
    /\ control' = "idle"
    /\ UNCHANGED <<installed, tables, registry, mode, stepCode, program, ops>>

set_conditions(f, l, given) ==
    /\ Operation /\ installed
    /\ conditions' = IF given THEN conditions \cup {<<f, l>>} ELSE conditions \ {<<f, l>>}
    /\ UNCHANGED <<installed, breakpoints, functions, watched, registry, mode, stepCode, vm,
                   program, callback, control>>

sync_read_watchpoints(ns) ==
    /\ Operation /\ installed /\ ns # watched
    /\ watched' = ns
    /\ vm' = SetEvents(vm, IF ns # {} THEN vm.global \cup {"INSTRUCTION"}
                           ELSE vm.global \ {"INSTRUCTION"})
    /\ control' = "restart"
    /\ UNCHANGED <<installed, breakpoints, conditions, functions, registry, mode, stepCode,
                   program, callback>>

update_function_breakpoints(cs) ==
    /\ Operation /\ installed
    /\ functions' = cs
    /\ vm' = IF cs # {} THEN SetEvents(vm, vm.global \cup {"CALL"})
             ELSE IF mode = "CONTINUE" THEN SetEvents(vm, vm.global \ {"CALL"}) ELSE vm
    /\ UNCHANGED <<installed, breakpoints, conditions, watched, registry, mode, stepCode,
                   program, callback, control>>

capture_step_context(c) ==
    /\ Operation /\ installed
    /\ stepCode' = c
    /\ UNCHANGED <<installed, tables, registry, mode, vm, program, callback, control>>

\* set_stepping writes the mode first.  It holds the lock until it has set
\* the events, but the line and return callbacks read the mode without it.
set_stepping(m) ==
    /\ Operation /\ installed
    /\ mode' = m
    /\ control' = "events"
    /\ UNCHANGED <<installed, tables, registry, stepCode, vm, program, callback>>

StepEvents == {"PY_START", "PY_RETURN"}

\* (the mutant forgets the returns when it steps over)
M_StepOverLocalOnly(v) ==
    IF mode = "STEP_IN" THEN SetEvents(v, StepEvents \cup {"LINE"})
    ELSE IF stepCode = NoCode THEN SetEvents(v, StepEvents)
    ELSE SetLocalEvents(SetEvents(v, {"PY_START"}), {stepCode},
                        IF mode = "STEP_OVER" THEN {"LINE"} ELSE {})

\* The events of each mode; a step over or out goes by the captured code.
SteppingEvents(v) ==
    LET base == SetEvents(v, StepEvents)
    IN  IF mode = "STEP_IN" THEN SetEvents(v, StepEvents \cup {"LINE"})
        ELSE IF stepCode = NoCode THEN base
        ELSE SetLocalEvents(base, {stepCode}, IF mode = "STEP_OVER" THEN {"LINE"} ELSE {})

set_stepping_events ==
    /\ control = "events" /\ mode # "CONTINUE"
    /\ vm' = SteppingEvents(vm)
    /\ control' = "idle"
    /\ UNCHANGED <<installed, tables, registry, mode, stepCode, program, callback, ops>>

\* CONTINUE: PY_START only, LINE for the files with breakpoints, and a restart.
ContinueEvents(v) ==
    SetLocalEvents(SetEvents(v, {"PY_START"}),
                   {c \in registry : breakpoints[FileOf[c]] # {}}, {"LINE"})

set_stepping_continue ==
    /\ control = "events" /\ mode = "CONTINUE"
    /\ stepCode' = NoCode
    /\ vm' = [RestartEvents(ContinueEvents(vm)) EXCEPT !.strayed = FALSE]
    /\ callback' = Outdated
    /\ control' = "idle"
    /\ UNCHANGED <<installed, tables, registry, mode, program, ops>>

-----------------------------------------------------------------------------
(* The program.  Begin starts a thread, or calls into it again. *)

Top(t) == stack[t][Len(stack[t])]

Enter(t, c, v) ==
    /\ stack' = [stack EXCEPT ![t] = Append(@, c)]
    /\ entering' = entering \cup {t}
    /\ vm' = Instrument(v, {c})

\* What the program does once a location is behind it.
Proceed(t, at, v) ==
    \/ at[1] = "CALL" /\ Enter(t, at[3], v)
    \/ at[1] = "PY_START" /\ entering' = entering \ {t} /\ vm' = v /\ UNCHANGED stack
    \/ /\ at[1] = "PY_RETURN"
       /\ stack' = [stack EXCEPT ![t] = SubSeq(@, 1, Len(@) - 1)]
       /\ vm' = v /\ UNCHANGED entering
    \/ at[1] \in {"LINE", "INSTRUCTION"} /\ vm' = v /\ UNCHANGED program

Begin(t, c) ==
    /\ stack[t] = <<>> /\ callback[t] = Idle /\ MaxDepth > 0
    /\ Enter(t, c, vm)
    /\ UNCHANGED <<installed, tables, registry, mode, stepCode, callback, control, ops>>

\* Thread t stands at the location.
At(t, at) ==
    /\ callback[t] = Idle /\ stack[t] # <<>> /\ at \in Locations /\ at[2] = Top(t)
    /\ IF t \in entering THEN at[1] = "PY_START" ELSE at[1] # "PY_START"
    /\ at[1] = "CALL" => Len(stack[t]) < MaxDepth

Fires(at) == installed /\ at[1] \in vm.active[at[2]] /\ at \notin vm.disabled

Pass(t, at) ==
    /\ At(t, at) /\ ~Fires(at)
    /\ Proceed(t, at, vm)
    /\ UNCHANGED <<installed, tables, registry, mode, stepCode, callback, control, ops>>

Answer(t, at, a) == callback' = [callback EXCEPT ![t] = [at |-> at, answer |-> a, old |-> FALSE]]

\* What evaluating a condition may give: it is passed with a fallback when
\* it does not compile or raises.
Outcomes == [passed : {TRUE}, fallback : BOOLEAN] \cup {[passed |-> FALSE, fallback |-> FALSE]}

\* _on_line: what it may answer.
LineAnswers(c, l) ==
    IF l \in breakpoints[FileOf[c]]
    THEN IF <<FileOf[c], l>> \in conditions
         THEN {IF o.passed \/ o.fallback THEN "told" ELSE "keep" : o \in Outcomes}
         ELSE {"told"}
    ELSE {IF mode # "CONTINUE" THEN "told" ELSE "disable"}

on_line(t, at, a) ==
    /\ At(t, at) /\ Fires(at) /\ at[1] = "LINE"
    /\ a \in LineAnswers(at[2], at[3])
    /\ Answer(t, at, a)
    /\ UNCHANGED <<installed, tables, registry, mode, stepCode, vm, program, control, ops>>

CallAnswer(d) == IF d \in functions THEN "told" ELSE "disable"

on_call(t, at) ==
    /\ At(t, at) /\ Fires(at) /\ at[1] = "CALL"
    /\ Answer(t, at, CallAnswer(at[3]))
    /\ UNCHANGED <<installed, tables, registry, mode, stepCode, vm, program, control, ops>>

ReadAnswer(n) == IF n \in watched THEN "told" ELSE "disable"

on_instruction(t, at) ==
    /\ At(t, at) /\ Fires(at) /\ at[1] = "INSTRUCTION"
    /\ Answer(t, at, ReadAnswer(at[3]))
    /\ UNCHANGED <<installed, tables, registry, mode, stepCode, vm, program, control, ops>>

\* _on_py_start: registers the code object, under the lock, and is always
\* disabled afterwards.
on_py_start(t, at) ==
    /\ At(t, at) /\ Fires(at) /\ at[1] = "PY_START" /\ control # "events"
    /\ registry' = registry \cup {at[2]}
    /\ vm' = IF breakpoints[FileOf[at[2]]] # {} THEN SetLocalEvents(vm, {at[2]}, {"LINE"}) ELSE vm
    /\ Answer(t, at, "disable")
    /\ UNCHANGED <<installed, tables, mode, stepCode, program, control, ops>>

ReturnAnswer == CASE mode = "CONTINUE" -> "disable"
                  [] mode = "STEP_IN" -> "keep"
                  [] OTHER -> "switch"

\* _on_py_return reads the mode; a step over or out goes on under the lock.
on_py_return(t, at) ==
    /\ At(t, at) /\ Fires(at) /\ at[1] = "PY_RETURN"
    /\ Answer(t, at, ReturnAnswer)
    /\ UNCHANGED <<installed, tables, registry, mode, stepCode, vm, program, control, ops>>

\* The step has left its frame: from here on every line stops.
on_py_return_switch(t) ==
    /\ callback[t].answer = "switch" /\ control # "events"
    /\ mode' = "STEP_IN" /\ stepCode' = NoCode
    /\ vm' = SetEvents(vm, StepEvents \cup {"LINE"})
    /\ callback' = [callback EXCEPT ![t].answer = "keep"]
    /\ UNCHANGED <<installed, tables, registry, program, control, ops>>

\* The same after a shutdown: set_events is refused while nobody holds the
\* tool, and reaches the next back end's events otherwise.
on_py_return_orphan(t) ==
    /\ callback[t].answer = "orphan"
    /\ vm' = IF installed
             THEN [SetEvents(vm, StepEvents \cup {"LINE"}) EXCEPT !.strayed = TRUE] ELSE vm
    /\ callback' = [callback EXCEPT ![t].answer = "keep"]
    /\ UNCHANGED <<installed, tables, registry, mode, stepCode, program, control, ops>>

\* user_line, user_call or handle_read_watch_access comes back.
Resume(t) ==
    /\ callback[t].answer = "told"
    /\ callback' = [callback EXCEPT ![t].answer = "keep"]
    /\ UNCHANGED <<installed, tables, registry, mode, stepCode, vm, program, control, ops>>

\* The callback returns and the interpreter applies its answer.
Land(t) ==
    /\ callback[t].answer \in {"disable", "keep"}
    /\ LET at == callback[t].at
       IN  Proceed(t, at, IF callback[t].answer = "disable"
                          THEN Disable(vm, at, callback[t].old) ELSE vm)
    /\ callback' = [callback EXCEPT ![t] = Idle]
    /\ UNCHANGED <<installed, tables, registry, mode, stepCode, control, ops>>

ControlStep ==
    \/ install \/ shutdown \/ restart_events \/ set_stepping_events \/ set_stepping_continue
    \/ \E f \in Files, ls \in SUBSET Lines : update_breakpoints(f, ls)
    \/ \E f \in Files, l \in Lines, given \in BOOLEAN : set_conditions(f, l, given)
    \/ \E ns \in SUBSET Names : sync_read_watchpoints(ns)
    \/ \E cs \in SUBSET Codes : update_function_breakpoints(cs)
    \/ \E c \in Codes : capture_step_context(c)
    \/ \E m \in Modes : set_stepping(m)

ThreadStep(t) ==
    \/ \E c \in Codes : Begin(t, c)
    \/ \E at \in Locations :
          \/ Pass(t, at) \/ on_call(t, at) \/ on_instruction(t, at)
          \/ on_py_start(t, at) \/ on_py_return(t, at)
          \/ \E a \in Answers : on_line(t, at, a)
    \/ on_py_return_switch(t) \/ on_py_return_orphan(t) \/ Resume(t) \/ Land(t)

Next == ControlStep \/ \E t \in Threads : ThreadStep(t)

Spec == Init /\ [][Next]_vars

-----------------------------------------------------------------------------
(* Properties *)

\* A location the interpreter will not offer, for another reason than an
\* answer that a restart has overtaken.
Silenced(at) == at \in vm.disabled \ vm.late

\* While the program runs free, a breakpoint is never lost to an answer
\* given before it was set: every known code object of its file raises line
\* events and has the line enabled, and a code object that is not known yet
\* is still going to be discovered when it is entered.  The exception, which
\* the interpreter's interface leaves open, is an answer that was on its way
\* while restart_events ran (update_breakpoints, _on_line, _on_py_start).
BreakpointsArmed ==
    installed /\ control = "idle" /\ mode = "CONTINUE" =>
        \A c \in Codes : \A l \in breakpoints[FileOf[c]] :
            IF c \in registry
            THEN "LINE" \in vm.local[c] /\ ~Silenced(LineAt(c, l))
            ELSE "PY_START" \in vm.global /\ ~Silenced(StartOf(c))

\* A step can see where it ends: in step over and step out every running
\* code object reports its return, and in step in every running code object
\* raises line events (set_stepping, _on_py_return).  A return callback of a
\* back end that has been shut down can spoil this for its successor, until
\* the program continues.
SteppingArmed ==
    installed /\ control = "idle" /\ ~vm.strayed =>
        \A c \in Running(stack) :
            /\ mode \in {"STEP_OVER", "STEP_OUT"} =>
                 "PY_RETURN" \in vm.active[c] /\ ~Silenced(ReturnOf(c))
            /\ mode = "STEP_IN" => "LINE" \in vm.active[c]

\* No event is missing that a breakpoint or a step waits for.
EventsAreOn == BreakpointsArmed /\ SteppingArmed

=============================================================================
