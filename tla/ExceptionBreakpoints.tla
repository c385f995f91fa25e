-------------------------- MODULE ExceptionBreakpoints --------------------------
(***************************************************************************)
(* Exception breakpoints in the debuggee: the filters, which the receiver  *)
(* writes field by field while the program's thread reads them, the trace  *)
(* function that has to be there for an exception to be seen, the frames   *)
(* an exception passes on its way out, the decision to stop in each, and   *)
(* what is kept about the exception for the client.                        *)
(*                                                                         *)
(* Abstractions.  One traced thread; a stop is its announcement and the    *)
(* wait, which LauncherSession takes apart.  Line breakpoints are there or *)
(* not, and a line may hit one; function breakpoints are not set.  A step  *)
(* is stepIn.  A condition is the set of exceptions it holds for.  The     *)
(* StopIteration that ends a generator, which is never shown, is not       *)
(* raised here.                                                            *)
(***************************************************************************)
EXTENDS Naturals, Sequences, SequencesExt

CONSTANTS
    Types,          \* the types of exceptions
    Conditions,     \* the conditions a filter may have
    Covers,         \* the types a condition holds for
    NoCondition, NoType,
    FilterRequests, \* the filters and options a client may ask for at once
    MaxDepth,       \* bound on the frames of the program
    MaxRaised,      \* bound on the exceptions raised
    MaxFilterSets   \* bound on the requests that set the filters

FilterNames == {"raised", "uncaught"}
SomeOptions == UNION {[S -> Conditions \union {NoCondition}] : S \in SUBSET FilterNames}

ASSUME CoversAssumption == Covers \in [Conditions -> SUBSET Types]
ASSUME NothingAssumption == NoCondition \notin Conditions /\ NoType \notin Types
ASSUME FilterRequestsAssumption ==
    FilterRequests \subseteq [filters : SUBSET FilterNames, options : SomeOptions]
ASSUME ExceptionBounds == MaxDepth \in Nat \ {0} /\ MaxRaised \in Nat /\ MaxFilterSets \in Nat

VARIABLES
    filterClient,   \* who sends the filters: the editor extension, or the adapter for its client
    config,         \* ExceptionBreakpointConfig
    writing,        \* the request the receiver is writing, and the field it writes next
    inForce,        \* history: the filters of the last request it was through with
    flags,          \* the adapter's own copy of the two flags
    lineBreaks,     \* bdb's breaks is not empty
    tracing,        \* the program's thread has a trace function
    bdbMode,        \* where bdb stops: at every line, or at breakpoints only
    steps,          \* stepping_controller: a step, or the stop on entry, is due
    calls,          \* the program's frames, the innermost last
    raised,         \* how many exceptions there have been
    flying,         \* the type of the one under way
    phase,          \* what the thread is doing
    judged,         \* frame_may_handle_exception for the frame the exception is in
    info,           \* exception_info_by_thread of the thread
    shownHere,      \* history: the thread stopped for the exception in this frame
    due,            \* history: what the filters in force ask for in this frame
    quiet,          \* history: nothing has come between the filters and the trace function
                    \* since the program was last resumed
    filterSets      \* requests so far

filterVars == <<filterClient, config, writing, inForce, flags, filterSets>>
traceVars == <<lineBreaks, tracing, bdbMode, steps>>
exceptionVars ==
    <<filterVars, traceVars, calls, raised, flying, phase, judged, info, shownHere, due, quiet>>

NoFilters == [raised |-> FALSE, uncaught |-> FALSE,
              raisedCondition |-> NoCondition, uncaughtCondition |-> NoCondition]
NoInfo == [number |-> 0]
Open == [known |-> FALSE]      \* the filters were being changed: nothing is asked for

\* A frame: bdb traces it, it is user code, and it was called when the filters in force asked
\* for it.
Frame(traced, user, covered) == [traced |-> traced, user |-> user, covered |-> covered]
Inner == Last(calls)

ExceptionInit ==
    /\ filterClient \in {"extension", "adapter"}
    /\ config = NoFilters /\ inForce = NoFilters
    /\ writing = [field |-> 0, to |-> NoFilters]
    /\ flags = [raised |-> FALSE, uncaught |-> FALSE]
    /\ lineBreaks = FALSE /\ tracing = TRUE /\ bdbMode = "step" /\ steps \in BOOLEAN
    /\ \E user \in BOOLEAN : calls = <<Frame(TRUE, user, TRUE)>>
    /\ raised = 0 /\ flying = NoType /\ phase = "configuring" /\ judged = "unknown"
    /\ info = NoInfo /\ shownHere = FALSE /\ due = Open
    /\ quiet = FALSE /\ filterSets = 0

-----------------------------------------------------------------------------
(* ExceptionHandler.                                                       *)

is_enabled(c) == c.raised \/ c.uncaught

_matches_condition(condition, type) ==
    condition = NoCondition \/ type \in Covers[condition]

get_break_mode(c) == IF c.raised THEN "always" ELSE "unhandled"

build_exception_info ==
    [number |-> raised, depth |-> Len(calls), mode |-> get_break_mode(config)]

\* What the exception table says of the line's first instruction: any entry counts, a
\* finally's or a with's too; without a table it is silent.
\* What the source says: a try statement with handlers around the line, wherever it stands.
Sites == [table : {"covers", "clear", "silent"}, text : {"covers", "clear", "silent"}]

frame_has_ast_handler(site) ==
    CASE site.text = "covers" -> "handles" [] site.text = "clear" -> "leaves" [] OTHER -> "unknown"

frame_may_handle_exception(site) ==
    CASE site.table = "covers" -> "handles"
      [] site.table = "clear" -> "leaves"
      [] OTHER -> frame_has_ast_handler(site)

\* What the filters c ask for when an exception is in a frame.
Wants(c, type, opinion) ==
    \/ c.raised /\ _matches_condition(c.raisedCondition, type)
    \/ c.uncaught /\ opinion = "leaves" /\ _matches_condition(c.uncaughtCondition, type)

-----------------------------------------------------------------------------
(* Requests, which the receiver carries out one at a time.                 *)

ReceiverIdle == writing.field = 0
Fields == <<"raised", "uncaught", "raisedCondition", "uncaughtCondition">>

\* An option sets its filter, too.
Asked(r) ==
    LET named == r.filters \union DOMAIN r.options
        condition(f) == IF f \in DOMAIN r.options THEN r.options[f] ELSE NoCondition
    IN [raised |-> "raised" \in named, uncaught |-> "uncaught" \in named,
        raisedCondition |-> condition("raised"), uncaughtCondition |-> condition("uncaught")]

AskedFor == {Asked(r) : r \in FilterRequests}

\* The receiver has read a request and goes on to write what it asks for.
handle_set_exception_breakpoints_impl(c) ==
    /\ filterClient = "extension"
    /\ ReceiverIdle /\ filterSets < MaxFilterSets
    /\ filterSets' = filterSets + 1
    /\ writing' = [field |-> 1, to |-> c]
    /\ UNCHANGED <<filterClient, config, inForce, flags, traceVars, calls, raised, flying, phase,
                   judged, info, shownHere, due, quiet>>

\* The adapter's breakpoint controller: the flags are noted, the names forwarded.
set_exception_breakpoints(names) ==
    /\ filterClient = "adapter"
    /\ ReceiverIdle /\ filterSets < MaxFilterSets
    /\ filterSets' = filterSets + 1
    /\ flags' = [f \in FilterNames |-> f \in names]
    /\ writing' = [field |-> 1, to |-> Asked([filters |-> names, options |-> <<>>])]
    /\ UNCHANGED <<filterClient, config, inForce, traceVars, calls, raised, flying, phase, judged,
                   info, shownHere, due, quiet>>

\* The adapter's own request notes the flags too, then asks its handler's configuration
\* for the condition, which asks itself without end: the request fails and nothing is sent.
_handle_set_exception_breakpoints(c) ==
    /\ filterClient = "adapter" /\ filterSets < MaxFilterSets
    /\ filterSets' = filterSets + 1
    /\ flags' = [f \in FilterNames |-> c[f]]
    /\ UNCHANGED <<filterClient, config, writing, inForce, traceVars, calls, raised, flying,
                   phase, judged, info, shownHere, due, quiet>>

\* The thread is waiting, and looks at no filter.
Waiting == phase \in {"configuring", "stopped", "stoppedAtException"}

WriteField ==
    /\ ~ReceiverIdle
    /\ LET f == Fields[writing.field] IN config' = [config EXCEPT ![f] = writing.to[f]]
    /\ IF writing.field < Len(Fields)
       THEN writing' = [writing EXCEPT !.field = @ + 1] /\ UNCHANGED inForce
       ELSE writing' = [writing EXCEPT !.field = 0] /\ inForce' = writing.to
    /\ quiet' = (quiet /\ Waiting)
    /\ due' = IF phase \in {"stoppedAtException", "passed"} THEN due ELSE Open
    /\ UNCHANGED <<filterClient, flags, filterSets, traceVars, calls, raised, flying, phase,
                   judged, info, shownHere>>

\* setBreakpoints leaves line breakpoints behind, or none.
SetLineBreaks ==
    /\ ReceiverIdle
    /\ lineBreaks' = ~lineBreaks
    /\ quiet' = (quiet /\ phase # "clearing")
    /\ UNCHANGED <<filterVars, tracing, bdbMode, steps, calls, raised, flying, phase, judged,
                   info, shownHere, due>>

\* After an exception the thread goes back into bdb's dispatch, else into the program.
GoOn ==
    /\ ReceiverIdle
    /\ phase \in {"stopped", "stoppedAtException"}
    /\ phase' = IF phase = "stopped" THEN "running" ELSE "passed"
    /\ quiet' = TRUE

handle_continue_impl ==
    /\ GoOn
    /\ bdbMode' = "continue"
    /\ UNCHANGED <<filterVars, lineBreaks, tracing, steps, calls, raised, flying, judged, info,
                   shownHere, due>>

handle_step_in_impl ==
    /\ GoOn
    /\ bdbMode' = "step"
    /\ steps' = TRUE
    /\ UNCHANGED <<filterVars, lineBreaks, tracing, calls, raised, flying, judged, info,
                   shownHere, due>>

configurationDone ==
    /\ ReceiverIdle /\ phase = "configuring"
    /\ phase' = "running"
    /\ quiet' = TRUE
    /\ UNCHANGED <<filterVars, traceVars, calls, raised, flying, judged, info, shownHere, due>>

\* What exceptionInfo answers: the information is never cleared, so that it may be an error,
\* the exception of the stop, or one long handled.
cmd_exception_info == info

-----------------------------------------------------------------------------
(* The program's thread: calls, returns and lines.                         *)

\* (the mutant forgets the filters of exceptions that leave the program)
M_needs_tracing_active == config.raised

_needs_tracing_active == is_enabled(config)

\* Without function breakpoints the filters or a breakpoint in the frame's file keep it traced.
break_anywhere(inFile) == _needs_tracing_active \/ inFile

dispatch_call ==
    /\ phase = "running" /\ Len(calls) < MaxDepth
    /\ \E user \in BOOLEAN, inFile \in {FALSE, lineBreaks} :
          LET traced == tracing /\ (bdbMode = "step" \/ break_anywhere(inFile))
          IN calls' = Append(calls, Frame(traced, user, quiet /\ is_enabled(inForce)))
    /\ UNCHANGED <<filterVars, traceVars, raised, flying, phase, judged, info, shownHere, due,
                   quiet>>

Leave ==
    /\ phase = "running" /\ Len(calls) > 1
    /\ calls' = Front(calls)
    /\ UNCHANGED <<filterVars, traceVars, raised, flying, phase, judged, info, shownHere, due,
                   quiet>>

\* A line that hits a breakpoint, or that bdb stops at to step: the thread stops, or goes on
\* if neither a breakpoint's condition nor a step holds it.  Lines of libraries are stepped over.
LineEvent(hit) ==
    /\ phase = "running" /\ tracing /\ Inner.traced
    /\ hit => lineBreaks
    /\ hit \/ (bdbMode = "step" /\ Inner.user)
    /\ \/ hit /\ phase' = "stopped" /\ UNCHANGED steps
       \/ steps /\ phase' = "stopped" /\ steps' = FALSE
       \/ ~steps /\ phase' = "continuing" /\ UNCHANGED steps
    /\ UNCHANGED <<filterVars, lineBreaks, tracing, bdbMode, calls, raised, flying, judged, info,
                   shownHere, due, quiet>>

\* set_continue: what needs the trace function is asked for first, ...
set_continue ==
    /\ phase = "continuing"
    /\ bdbMode' = "continue"
    /\ phase' = IF _needs_tracing_active /\ ~lineBreaks THEN "running" ELSE "clearing"
    /\ UNCHANGED <<filterVars, lineBreaks, tracing, steps, calls, raised, flying, judged, info,
                   shownHere, due, quiet>>

\* ... and without line breakpoints, which bdb asks for once more, it is removed.
bdb_set_continue ==
    /\ phase = "clearing"
    /\ tracing' = lineBreaks
    /\ phase' = "running"
    /\ UNCHANGED <<filterVars, lineBreaks, bdbMode, steps, calls, raised, flying, judged, info,
                   shownHere, due, quiet>>

-----------------------------------------------------------------------------
(* The program's thread: exceptions.                                       *)

Raise(type) ==
    /\ phase = "running" /\ raised < MaxRaised
    /\ raised' = raised + 1
    /\ flying' = type
    /\ phase' = "raising"
    /\ UNCHANGED <<filterVars, traceVars, calls, judged, info, shownHere, due, quiet>>

\* The exception has come to a frame.  bdb hands it on while any filter is set or it
\* stops everywhere, and just-my-code drops it in a library's frame.
dispatch_exception(site) ==
    /\ phase = "raising"
    /\ judged' = frame_may_handle_exception(site)
    /\ shownHere' = FALSE
    /\ due' = IF quiet /\ Inner.covered
              THEN [known |-> TRUE, mode |-> get_break_mode(inForce),
                    stop |-> Inner.user /\ Wants(inForce, flying, judged')]
              ELSE Open
    /\ phase' = IF /\ tracing /\ Inner.traced
                   /\ is_enabled(config) \/ bdbMode = "step"
                   /\ Inner.user
                THEN "enabled?" ELSE "passed"
    /\ UNCHANGED <<filterVars, traceVars, calls, raised, flying, info, quiet>>

\* A step of should_break, which reads the filters one after the other.
Check(here, next) ==
    /\ phase = here
    /\ phase' = next
    /\ UNCHANGED <<filterVars, traceVars, calls, raised, flying, judged, info, shownHere, due,
                   quiet>>

should_break ==
    \/ Check("enabled?", IF is_enabled(config) THEN "raised?" ELSE "passed")
    \/ Check("raised?", IF config.raised THEN "raised condition?" ELSE "uncaught?")
    \/ Check("raised condition?",
             IF _matches_condition(config.raisedCondition, flying) THEN "stop" ELSE "uncaught?")
    \/ Check("uncaught?",
             IF config.uncaught /\ judged = "leaves" THEN "uncaught condition?" ELSE "passed")
    \/ Check("uncaught condition?",
             IF _matches_condition(config.uncaughtCondition, flying) THEN "stop" ELSE "passed")

\* (the mutant keeps what it has for the thread)
M_store_exception_info ==
    /\ phase = "stop"
    /\ info' = IF info = NoInfo THEN build_exception_info ELSE info
    /\ phase' = "announcing"
    /\ UNCHANGED <<filterVars, traceVars, calls, raised, flying, judged, shownHere, due, quiet>>

store_exception_info ==
    /\ phase = "stop"
    /\ info' = build_exception_info
    /\ phase' = "announcing"
    /\ UNCHANGED <<filterVars, traceVars, calls, raised, flying, judged, shownHere, due, quiet>>

user_exception ==
    /\ phase = "announcing"
    /\ shownHere' = TRUE
    /\ phase' = "stoppedAtException"
    /\ UNCHANGED <<filterVars, traceVars, calls, raised, flying, judged, info, due, quiet>>

\* The frame handles the exception, whatever was thought of it, or lets it go on; from the
\* last one it ends the program.
Caught ==
    /\ phase = "passed"
    /\ phase' = "running"
    /\ flying' = NoType /\ judged' = "unknown" /\ shownHere' = FALSE /\ due' = Open
    /\ UNCHANGED <<filterVars, traceVars, calls, raised, info, quiet>>

Unwind ==
    /\ phase = "passed"
    /\ IF Len(calls) = 1
       THEN phase' = "ended" /\ UNCHANGED calls
       ELSE phase' = "raising" /\ calls' = Front(calls)
    /\ UNCHANGED <<filterVars, traceVars, raised, flying, judged, info, shownHere, due, quiet>>

-----------------------------------------------------------------------------

SetFilters ==
    \/ \E c \in AskedFor :
          handle_set_exception_breakpoints_impl(c) \/ _handle_set_exception_breakpoints(c)
    \/ \E names \in SUBSET FilterNames : set_exception_breakpoints(names)
    \/ WriteField

Control == SetLineBreaks \/ handle_continue_impl \/ handle_step_in_impl \/ configurationDone

Execute ==
    \/ dispatch_call \/ Leave
    \/ \E hit \in BOOLEAN : LineEvent(hit)
    \/ set_continue \/ bdb_set_continue

Except ==
    \/ \E type \in Types : Raise(type)
    \/ \E site \in Sites : dispatch_exception(site)
    \/ should_break \/ store_exception_info \/ user_exception
    \/ Caught \/ Unwind

ExceptionNext == SetFilters \/ Control \/ Execute \/ Except

ExceptionSpec == ExceptionInit /\ [][ExceptionNext]_exceptionVars

-----------------------------------------------------------------------------

\* In every frame called while filters were set, an exception stops the program exactly when the
\* filters in force ask for it, their conditions included: no exception that they want slips
\* through because the trace function has gone or the frame is not traced, and none stops that they
\* do not want, as long as no filter was written and no line breakpoint went between set_continue's
\* two questions since the program was last resumed.
FiltersDecide ==
    phase \in {"stoppedAtException", "passed"} /\ due.known => (shownHere <=> due.stop)

\* While the program stands at an exception, exceptionInfo answers with this exception, in this
\* frame, however many the thread has stopped at before, and with the mode of the filters that
\* stopped it.
ExceptionIsExplained ==
    phase = "stoppedAtException" =>
        /\ cmd_exception_info.number = raised
        /\ cmd_exception_info.depth = Len(calls)
        /\ due.known => cmd_exception_info.mode = due.mode

=============================================================================
