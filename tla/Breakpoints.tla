---------------------------- MODULE Breakpoints ----------------------------
(***************************************************************************)
(* The breakpoints of one file in the debuggee, replaced by the receiver   *)
(* thread while the main thread runs through the file.                     *)
(*                                                                         *)
(* A breakpoint lives in two tables that no lock protects: bdb's own       *)
(* (breaks), which decides whether a line is looked at, and the            *)
(* BreakpointManager's line_meta, which decides what happens there.        *)
(* setBreakpoints empties both and fills them again line by line.  The     *)
(* main thread reads one after the other.                                  *)
(*                                                                         *)
(* Abstractions.  The program runs lines of one frame and calls functions. *)
(* A condition has some value at each pass.  Function and exception        *)
(* breakpoints are the Boolean "others", since only their presence matters *)
(* to tracing.  Every requested line exists, is requested once and is      *)
(* named by one path.                                                      *)
(* Stopping itself is LauncherSession's business.                          *)
(***************************************************************************)
EXTENDS Naturals, Functions

CONSTANTS
    Lines,            \* lines of the file
    Requests,         \* the contents setBreakpoints may have: [line -> kind]
    StopOnEntry,      \* --stop-on-entry: the values it may have
    MaxPasses,        \* bound: lines and calls the program runs
    MaxReplacements   \* bound: requests that replace breakpoints

\* hitCondition, condition and logMessage of a breakpoint.
HitCondition == [op : {"none", "==", ">=", "%"}, n : Nat]
Kind == [cond : BOOLEAN, hit : HitCondition, log : BOOLEAN]

NoKind == [cond |-> FALSE, hit |-> [op |-> "none", n |-> 0], log |-> FALSE]

IsBreakpoints(f) == DOMAIN f \subseteq Lines /\ f \in [DOMAIN f -> Kind]

ASSUME LinesAssumption    == 0 \notin Lines
ASSUME RequestsAssumption == \A f \in Requests : IsBreakpoints(f)
ASSUME EntryAssumption    == StopOnEntry \subseteq BOOLEAN
ASSUME BoundsAssumption   == MaxPasses \in Nat /\ MaxReplacements \in Nat

\* A dictionary of line_meta: what it says, the hits it has counted, and the
\* replacement that made it.
Meta   == [kind : Kind, hits : Nat, made : Nat]
NoMeta == [kind |-> NoKind, hits |-> 0, made |-> 0]

VARIABLES
    \* the receiver thread
    phase,          \* where its handler is
    wanted,         \* the breakpoints of the latest request
    remaining,      \* lines of it that are still to be set
    setting,        \* the line that is set and not yet recorded
    replacements,   \* requests so far
    \* DebuggerBDB
    breaks,         \* bdb's breakpoints: does the one at a line have a condition?
    meta,           \* bp_manager.line_meta
    others,         \* function or exception breakpoints exist
    othersWanted,   \* the latest request wants some
    tracing,        \* the main thread has a trace function
    mode,           \* bdb's stop information
    entry,          \* stepping_controller.stop_on_entry
    stepping,       \* stepping_controller.stepping
    \* the main thread
    main,
    line,           \* the line it is at
    holds,          \* the value of a condition at this pass
    held,           \* the meta it has looked up
    passes,         \* lines and calls so far
    \* history, read by the properties only
    asked,          \* the last resume command was a step
    clean,          \* no replacement has overlapped this pass
    visits          \* passes over a line since its breakpoint was recorded

receiverVars == <<phase, wanted, remaining, setting, replacements, othersWanted>>
tableVars    == <<breaks, meta, others>>
stepVars     == <<tracing, mode, entry, stepping>>
mainVars     == <<main, line, holds, held, passes>>
historyVars  == <<asked, clean, visits>>
vars == <<receiverVars, tableVars, stepVars, mainVars, historyVars>>

NoBreakpoints == [l \in {} |-> NoKind]

\* Every variable has its type, and the receiver knows what it is setting.
ReceiverTypeOK ==
    /\ phase \in {"idle", "clearing", "filling", "recording", "others"}
    /\ IsBreakpoints(wanted)
    /\ remaining \subseteq DOMAIN wanted
    /\ setting \in Lines \cup {0}
    /\ phase = "recording" => setting \in remaining
    /\ replacements \in 0..MaxReplacements
    /\ othersWanted \in BOOLEAN

TablesTypeOK ==
    /\ DOMAIN breaks \subseteq Lines /\ breaks \in [DOMAIN breaks -> BOOLEAN]
    /\ DOMAIN meta \subseteq Lines /\ meta \in [DOMAIN meta -> Meta]
    /\ others \in BOOLEAN

MainTypeOK ==
    /\ tracing \in BOOLEAN /\ entry \in BOOLEAN /\ stepping \in BOOLEAN
    /\ mode \in {"step", "continue"}
    /\ main \in {"running", "entered", "matched", "held", "missed", "stopped"}
    /\ line \in Lines \cup {0}
    /\ main \notin {"running", "stopped"} => line \in Lines
    /\ holds \in BOOLEAN
    /\ held \in Meta
    /\ passes \in 0..MaxPasses
    /\ asked \in BOOLEAN /\ clean \in BOOLEAN
    /\ visits \in [Lines -> Nat]

TypeOK == ReceiverTypeOK /\ TablesTypeOK /\ MainTypeOK

Init ==
    /\ phase = "idle" /\ wanted = NoBreakpoints /\ remaining = {} /\ setting = 0
    /\ replacements = 0
    /\ breaks = [l \in {} |-> FALSE] /\ meta = [l \in {} |-> NoMeta]
    /\ others = FALSE /\ othersWanted = FALSE
    /\ tracing = TRUE /\ mode = "step"
    /\ entry \in StopOnEntry /\ stepping = FALSE
    /\ main = "running" /\ line = 0 /\ holds = FALSE /\ held = NoMeta
    /\ passes = 0
    /\ asked = entry /\ clean = TRUE
    /\ visits = [l \in Lines |-> 0]

-----------------------------------------------------------------------------
(***************************************************************************)
(* The receiver thread: one command at a time.                             *)
(***************************************************************************)
BeginRequest ==
    /\ phase = "idle" /\ replacements < MaxReplacements
    /\ replacements' = replacements + 1
    /\ clean' = FALSE
    /\ UNCHANGED <<stepVars, mainVars, asked, visits>>

BeginSetBreakpoints ==
    /\ BeginRequest
    /\ phase' = "clearing"
    /\ wanted' \in Requests
    /\ remaining' = DOMAIN wanted'
    /\ UNCHANGED <<setting, othersWanted, tableVars>>

\* clear_breaks_for_file, one line of bdb's table at a time.
ClearBreak ==
    /\ phase = "clearing"
    /\ \E l \in DOMAIN breaks : breaks' = Restrict(breaks, DOMAIN breaks \ {l})
    /\ UNCHANGED <<receiverVars, meta, others, stepVars, mainVars, historyVars>>

\* (the mutant keeps the metadata of the lines it clears)
M_ClearKeepsMeta ==
    /\ phase = "clearing" /\ DOMAIN breaks = {}
    /\ phase' = "filling"
    /\ UNCHANGED <<wanted, remaining, setting, replacements, othersWanted,
                   tableVars, stepVars, mainVars, historyVars>>

\* clear_break_meta_for_file, at the end of clear_breaks_for_file and again
\* after it.
ClearMeta ==
    /\ phase = "clearing" /\ DOMAIN breaks = {}
    /\ phase' = "filling"
    /\ meta' = [l \in {} |-> NoMeta]
    /\ UNCHANGED <<wanted, remaining, setting, replacements, othersWanted, breaks,
                   others, stepVars, mainVars, historyVars>>

\* _try_set_break
SetBreak ==
    /\ phase = "filling"
    /\ \E l \in remaining :
          /\ setting' = l
          /\ breaks' = [k \in DOMAIN breaks \cup {l} |->
                          IF k = l THEN wanted[l].cond ELSE breaks[k]]
    /\ phase' = "recording"
    /\ UNCHANGED <<wanted, remaining, replacements, othersWanted, meta, others,
                   stepVars, mainVars, historyVars>>

\* (the mutant forgets that a breakpoint is a logpoint)
M_RecordConditionOnly(l) ==
    [kind |-> [wanted[l] EXCEPT !.log = FALSE], hits |-> 0, made |-> replacements]

\* What record_line_breakpoint leaves for a line: a dictionary that is already
\* there keeps its hits.
Recorded(l) ==
    IF l \in DOMAIN meta THEN [meta[l] EXCEPT !.kind = wanted[l]]
    ELSE [kind |-> wanted[l], hits |-> 0, made |-> replacements]

Record ==
    /\ phase = "recording"
    /\ meta' = [k \in DOMAIN meta \cup {setting} |->
                  IF k = setting THEN Recorded(setting) ELSE meta[k]]
    /\ remaining' = remaining \ {setting}
    /\ setting' = 0
    /\ phase' = "filling"
    /\ visits' = [visits EXCEPT ![setting] =
                    IF main \notin {"running", "stopped"} /\ line = setting THEN 1 ELSE 0]
    /\ UNCHANGED <<wanted, replacements, othersWanted, breaks, others, stepVars,
                   mainVars, asked, clean>>

\* The response to setBreakpoints.
FinishSetBreakpoints ==
    /\ phase = "filling" /\ remaining = {}
    /\ phase' = "idle"
    /\ UNCHANGED <<wanted, remaining, setting, replacements, othersWanted, tableVars,
                   stepVars, mainVars, historyVars>>

\* setFunctionBreakpoints and setExceptionBreakpoints: what there is goes
\* first, what is wanted comes after.
BeginSetOthers ==
    /\ BeginRequest
    /\ phase' = "others"
    /\ others' = FALSE
    /\ othersWanted' \in BOOLEAN
    /\ UNCHANGED <<wanted, remaining, setting, breaks, meta>>

FinishSetOthers ==
    /\ phase = "others"
    /\ phase' = "idle"
    /\ others' = othersWanted
    /\ UNCHANGED <<wanted, remaining, setting, replacements, othersWanted, breaks,
                   meta, stepVars, mainVars, historyVars>>

\* continue, or next or stepIn, for a program that is stopped: within the frame
\* the two steps are the same.  set_continue on this thread takes the trace
\* function from this thread, not from the main one.
Resume ==
    /\ phase = "idle" /\ main = "stopped"
    /\ main' = "running"
    /\ asked' \in BOOLEAN
    /\ mode' = IF asked' THEN "step" ELSE "continue"
    /\ stepping' = (asked' \/ stepping)
    /\ UNCHANGED <<receiverVars, tableVars, tracing, entry, line, holds, held,
                   passes, clean, visits>>

Receiver ==
    \/ BeginSetBreakpoints \/ ClearBreak \/ ClearMeta \/ SetBreak \/ Record
    \/ FinishSetBreakpoints
    \/ BeginSetOthers \/ FinishSetOthers
    \/ Resume

-----------------------------------------------------------------------------
(***************************************************************************)
(* The main thread.                                                        *)
(***************************************************************************)

\* bdb's break_here: a breakpoint whose condition fails does not count.
BreakHere(l, c) == l \in DOMAIN breaks /\ (breaks[l] => c)

Pass ==
    /\ main = "running" /\ passes < MaxPasses
    /\ passes' = passes + 1
    /\ clean' = (phase = "idle")

\* The program runs a line.  bdb calls user_line if it is stepping or there is
\* a breakpoint.
RunLine ==
    /\ Pass
    /\ line' \in Lines
    /\ holds' \in BOOLEAN
    /\ main' = IF tracing /\ (mode = "step" \/ BreakHere(line', holds'))
               THEN "entered" ELSE "running"
    /\ visits' = [visits EXCEPT ![line'] = @ + 1]
    /\ UNCHANGED <<receiverVars, tableVars, stepVars, held, asked>>

\* _handle_regular_breakpoint looks into bdb's table ...
Match ==
    /\ main = "entered"
    /\ main' = IF line \in DOMAIN breaks THEN "matched" ELSE "missed"
    /\ UNCHANGED <<receiverVars, tableVars, stepVars, line, holds, held,
                   passes, historyVars>>

\* ... and then into line_meta.
LookUp ==
    /\ main = "matched"
    /\ main' = "held"
    /\ held' = IF line \in DOMAIN meta THEN meta[line] ELSE NoMeta
    /\ UNCHANGED <<receiverVars, tableVars, stepVars, line, holds, passes,
                   historyVars>>

\* evaluate_hit_condition.  A plain number means ==.
HitConditionMet(h, hits) ==
    \/ h.op = "none"
    \/ h.op = "==" /\ hits = h.n
    \/ h.op = ">=" /\ hits >= h.n
    \/ h.op = "%"  /\ h.n > 0 /\ hits % h.n = 0

\* (the mutant counts hits from zero)
M_HitAfterCount(k, c, hits) ==
    hits > 0 /\ HitConditionMet(k.hit, hits - 1) /\ (k.cond => c) /\ ~k.log

\* BreakpointResolver.resolve with the hit already counted.
Stops(k, c, hits) ==
    HitConditionMet(k.hit, hits) /\ (k.cond => c) /\ ~k.log

\* DebuggerBDB.set_continue on the main thread: without breakpoints of any kind
\* the trace function goes.
SetContinue ==
    /\ main' = "running"
    /\ mode' = "continue"
    /\ tracing' = (tracing /\ (others \/ DOMAIN breaks # {}))

\* The hit goes into the dictionary that was looked up, which may have left the
\* table.  Without one the breakpoint has no conditions.
Resolve ==
    /\ main = "held"
    /\ meta' = IF line \in DOMAIN meta /\ meta[line].made = held.made
               THEN [meta EXCEPT ![line].hits = held.hits + 1] ELSE meta
    /\ IF held = NoMeta \/ Stops(held.kind, holds, held.hits + 1)
       THEN main' = "stopped" /\ UNCHANGED <<mode, tracing>>
       ELSE SetContinue
    /\ UNCHANGED <<receiverVars, breaks, others, entry, stepping, line, holds, held, passes,
                   historyVars>>

\* user_line where there is no breakpoint: the end of a step, or bdb's initial
\* step mode, which nobody asked for.  A stop uses up one of the two flags.
EndOfStep ==
    /\ main = "missed"
    /\ entry' = FALSE
    /\ stepping' = (entry /\ stepping)
    /\ IF entry \/ stepping
       THEN main' = "stopped" /\ UNCHANGED <<mode, tracing>>
       ELSE SetContinue
    /\ UNCHANGED <<receiverVars, tableVars, line, holds, held, passes, historyVars>>

\* The program calls a function, or raises: user_call and user_exception stop
\* or leave everything as it was.
CallFunction ==
    /\ Pass
    /\ \/ tracing /\ others /\ main' = "stopped"
       \/ UNCHANGED main
    /\ UNCHANGED <<receiverVars, tableVars, stepVars, line, holds, held, asked, visits>>

MainThread ==
    RunLine \/ Match \/ LookUp \/ Resolve \/ EndOfStep \/ CallFunction

-----------------------------------------------------------------------------
Next == Receiver \/ MainThread

Spec == Init /\ [][Next]_vars

-----------------------------------------------------------------------------
(***************************************************************************)
(* Properties.                                                             *)
(***************************************************************************)

\* Between requests the two tables hold the breakpoints of the latest request
\* and nothing else, whatever the main thread has written meanwhile.
TablesSettle ==
    phase = "idle" =>
       /\ DOMAIN breaks = DOMAIN wanted /\ DOMAIN meta = DOMAIN wanted
       /\ \A l \in DOMAIN wanted :
             breaks[l] = wanted[l].cond /\ meta[l].kind = wanted[l]

\* The hits of a breakpoint are those since it was set: a replacement starts
\* them again, and a pass that began before it does not count twice.
HitsAreFresh ==
    \A l \in DOMAIN meta : meta[l].hits <= visits[l]

\* What a pass looks up and counts in is what the latest request set, never
\* what is left of an earlier one.
TablesAreCurrent == TablesSettle /\ HitsAreFresh

\* What should happen to a pass that no replacement overlaps: a breakpoint
\* decides if there is one, otherwise the command that resumed the program.
Expected ==
    IF line \in DOMAIN wanted
    THEN LET k == wanted[line] IN
            /\ k.cond => holds
            /\ HitConditionMet(k.hit, meta[line].hits + 1)
            /\ ~k.log
    ELSE asked

\* Such a pass stops exactly when it should, however many replacements, stale
\* flags and lost steps came before it.
PassIsExact ==
    [][clean /\ main \in {"held", "missed"} /\ main' # main
          => (main' = "stopped" <=> Expected)]_vars

\* While function or exception breakpoints are registered tracing is active.
TracingStaysActive == others => tracing

=============================================================================
