----------------------------- MODULE EvalFrameHook -----------------------------
(***************************************************************************)
(* The eval-frame hook (_frame_evaluator.pyx) on the program's thread: it  *)
(* is called for every frame, lets the frame run, or runs it under a trace *)
(* function that sees this one code object only.  The state of a thread is *)
(* a ThreadInfo in a context variable; EvalFrameBackend sets it up and     *)
(* replaces it at shutdown, frames that are being evaluated keep theirs.   *)
(*                                                                         *)
(* CPython calls the trace function of the thread for a new frame, and the *)
(* frame's own one (f_trace) afterwards.  Any callback may switch tracing  *)
(* off (bdb.set_continue) or raise (BdbQuit); if it raises, CPython drops  *)
(* the trace functions and the exception goes on in the frame.             *)
(***************************************************************************)
EXTENDS Naturals, Sequences

CONSTANTS
    EvalCodes,      \* code objects
    Breakpointed,   \* those whose entry is worth a stop
    MaxFrames,      \* bound on the depth of the stack
    MaxInstalls,    \* bound on the installations of the back end
    MaxCalls        \* bound on the calls

ASSUME EvalFrameAssumption == /\ Breakpointed \subseteq EvalCodes
                              /\ MaxFrames \in Nat /\ MaxInstalls \in Nat /\ MaxCalls \in Nat

\* tracer tells the scoped trace function of a code object from the others.
ASSUME TracerAssumption == EvalCodes \cap {"none", "debugger", "-"} = {}

VARIABLES
    evalFrames, \* frames of the program
    tracer,     \* sys.gettrace(): "none", "debugger", or the scoped one of a code object
    hook_installed, \* the eval-frame hook is installed
    threadInfos, \* every ThreadInfo the thread has had; the last one is current
    returnEvents, \* return events counted, by all scoped trace functions
    installs, calls

evalFrameVars == <<evalFrames, tracer, hook_installed, threadInfos, returnEvents, installs, calls>>

ThreadInfo == [inside_frame_eval |-> 0, thread_trace_func |-> FALSE]

EvalFrameInit ==
    /\ evalFrames = <<>>
    /\ tracer \in {"none", "debugger"}
    /\ hook_installed = FALSE
    /\ threadInfos = <<ThreadInfo>>
    /\ returnEvents = 0
    /\ installs = 0 /\ calls = 0

Current == Len(threadInfos)
Info == threadInfos[Current]
TopFrame == evalFrames[Len(evalFrames)]
TopRuns == evalFrames # <<>> => TopFrame.phase = "running"
WithTop(f) == [evalFrames EXCEPT ![Len(evalFrames)] = f]

-----------------------------------------------------------------------------
(* EvalFrameBackend.                                                       *)

\* On the program's thread, or on another one, whose ThreadInfo is its own:
\* the hook is there for every thread, the trace function for one.
install_hook(here) ==
    /\ TopRuns /\ installs < MaxInstalls
    /\ installs' = installs + 1
    /\ hook_installed' = TRUE
    /\ threadInfos' = [threadInfos EXCEPT ![Current].thread_trace_func = @ \/ here]
    /\ UNCHANGED <<evalFrames, tracer, returnEvents, calls>>

shutdown_hook(here) ==
    /\ TopRuns /\ hook_installed
    /\ hook_installed' = FALSE
    /\ threadInfos' = IF here THEN Append(threadInfos, ThreadInfo) ELSE threadInfos
    /\ UNCHANGED <<evalFrames, tracer, returnEvents, installs, calls>>

-----------------------------------------------------------------------------
(* A call.  The hook looks at the code object, then CPython calls the      *)
(* trace function, whose answer is the frame's own one.                    *)

Frame(c, mode) == [code |-> c, mode |-> mode, info |-> Current, phase |-> "running",
                   local |-> FALSE, saved |-> "-", before |-> 0, returns |-> 0]

\* The tracer finds a breakpoint on the line the code object starts at.
ShouldTrace(c) == c \in Breakpointed

\* What get_bytecode_while_frame_eval makes of the frame: nothing inside
\* another evaluation of the hook, whatever became of that frame.
Route(c) ==
    IF ~hook_installed \/ Info.inside_frame_eval > 0 THEN Frame(c, "plain")
    ELSE IF ~ShouldTrace(c) \/ ~Info.thread_trace_func THEN Frame(c, "hooked")
    ELSE [Frame(c, "hooked") EXCEPT !.saved = tracer, !.before = returnEvents]

Call(c) ==
    /\ TopRuns /\ calls < MaxCalls /\ Len(evalFrames) < MaxFrames
    /\ calls' = calls + 1
    /\ LET f == Route(c)
           t == IF f.saved # "-" THEN c ELSE tracer
       IN  /\ tracer' = t
           /\ threadInfos' = IF f.mode = "plain" THEN threadInfos
                             ELSE [threadInfos EXCEPT ![Current].inside_frame_eval = @ + 1]
           /\ \E local \in BOOLEAN :
                  /\ local => t \in {"debugger", c}
                  /\ evalFrames' = Append(evalFrames, [f EXCEPT !.local = local])
    /\ UNCHANGED <<hook_installed, returnEvents, installs>>

\* A line: the frame's trace function is called, and the debugger switches
\* tracing off or no longer wants the frame.
Line(off) ==
    /\ evalFrames # <<>> /\ TopFrame.phase = "running" /\ TopFrame.local /\ tracer # "none"
    /\ IF off THEN tracer' = "none" ELSE UNCHANGED tracer
    /\ \E local \in BOOLEAN : evalFrames' = WithTop([TopFrame EXCEPT !.local = local])
    /\ UNCHANGED <<hook_installed, threadInfos, returnEvents, installs, calls>>

\* The callback raises.
LineRaises ==
    /\ evalFrames # <<>> /\ TopFrame.phase = "running" /\ TopFrame.local /\ tracer # "none"
    /\ tracer' = "none"
    /\ evalFrames' = WithTop([TopFrame EXCEPT !.local = FALSE, !.phase = "raised"])
    /\ UNCHANGED <<hook_installed, threadInfos, returnEvents, installs, calls>>

\* The frame ends.  A return event goes to the frame's trace function if there
\* is one and the thread is traced; the wrapper of a scoped one counts it.
Traced == TopFrame.local /\ tracer # "none"
Wrapped == tracer # "debugger"

PyEval_EvalFrameDefault(outcome) ==
    /\ evalFrames # <<>> /\ TopFrame.phase = "running"
    /\ evalFrames' = WithTop([TopFrame EXCEPT !.phase = outcome,
                                              !.returns = IF Traced THEN 1 ELSE 0])
    /\ returnEvents' = IF Traced /\ Wrapped THEN returnEvents + 1 ELSE returnEvents
    /\ UNCHANGED <<tracer, hook_installed, threadInfos, installs, calls>>

-----------------------------------------------------------------------------
(* Back in the hook.                                                       *)

\* (the mutant does not look whether CPython has told the debugger already)
M_SyntheticReturn == TopFrame.saved # "-" /\ TopFrame.phase = "returned" /\ TopFrame.local

\* A return nobody was told of: no scoped return was counted since.  Without
\* the scoped trace function the hook holds no frame object of a new frame.
SyntheticReturn ==
    /\ TopFrame.saved # "-" /\ TopFrame.phase = "returned" /\ TopFrame.local
    /\ returnEvents = TopFrame.before

\* The return or, for a frame with a trace function, the exception once more;
\* if the callback raises now, the finished frame is evaluated again, which is
\* undefined: here it ends at once.
Dispatch ==
    /\ evalFrames # <<>> /\ TopFrame.phase \in {"returned", "raised"}
    /\ IF SyntheticReturn
       THEN /\ evalFrames' = WithTop([TopFrame EXCEPT !.phase = "left", !.returns = @ + 1])
            /\ returnEvents' = returnEvents + 1
       ELSE /\ evalFrames' = WithTop([TopFrame EXCEPT !.phase = "left"])
            /\ UNCHANGED returnEvents
    /\ IF TopFrame.saved # "-" /\ TopFrame.local /\ (SyntheticReturn \/ TopFrame.phase = "raised")
       THEN \/ UNCHANGED tracer
            \/ tracer' = "none"
       ELSE UNCHANGED tracer
    /\ UNCHANGED <<hook_installed, threadInfos, installs, calls>>

\* The finally block.
exit_frame_eval ==
    /\ evalFrames # <<>> /\ TopFrame.phase = "left"
    /\ tracer' = IF TopFrame.saved # "-" THEN TopFrame.saved ELSE tracer
    /\ threadInfos' = IF TopFrame.mode = "plain" THEN threadInfos
                      ELSE [threadInfos EXCEPT ![TopFrame.info].inside_frame_eval = @ - 1]
    /\ evalFrames' = SubSeq(evalFrames, 1, Len(evalFrames) - 1)
    /\ UNCHANGED <<hook_installed, returnEvents, installs, calls>>

-----------------------------------------------------------------------------
EvalFrameNext ==
    \/ \E here \in BOOLEAN : install_hook(here) \/ shutdown_hook(here)
    \/ \E c \in EvalCodes : Call(c)
    \/ \E off \in BOOLEAN : Line(off)
    \/ LineRaises
    \/ \E outcome \in {"returned", "raised"} : PyEval_EvalFrameDefault(outcome)
    \/ Dispatch \/ exit_frame_eval

EvalFrameSpec == EvalFrameInit /\ [][EvalFrameNext]_evalFrameVars

-----------------------------------------------------------------------------
\* No frame is reported to the debugger as returned twice, by CPython and by
\* the hook: however frames recurse, tracing is switched off, or the back end
\* is shut down and installed again inside a hooked frame.
ReturnedOnce == \A i \in DOMAIN evalFrames : evalFrames[i].returns <= 1
=============================================================================
