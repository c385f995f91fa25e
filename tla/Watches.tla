-------------------------------- MODULE Watches --------------------------------
(***************************************************************************)
(* Data breakpoints: the names and expressions the debuggee watches, which *)
(* the receiver replaces table by table while the program's thread looks   *)
(* into them at every line, the values kept of what is watched, the        *)
(* breakpoints' access types and conditions, and reads, which              *)
(* sys.monitoring reports.                                                 *)
(*                                                                         *)
(* Abstractions.  One frame, of one traced thread; Inspection has frames   *)
(* that come and go.  A condition and a hit condition are one, which holds *)
(* or not.  A list of breakpoints is the set of them.  An expression is    *)
(* what the names of the frame make of it, and one that raises is like a   *)
(* name that is not bound; compiled expressions are left out.              *)
(***************************************************************************)
EXTENDS Naturals

CONSTANTS
    VariableNames, Expressions,     \* what may be watched
    Values,                 \* the values it may have
    Unbound, Unknown,
    Assigned,               \* the names the program assigns to
    Meaning,                \* the value of each expression, given those of the names
    WatchRequests,          \* the breakpoints a client may ask for at once
    MaxRegistrations        \* bound on the requests

Targets == VariableNames \union Expressions
Given == Values \union {Unbound}
Accesses == {"read", "write", "readWrite"}
DataBreakpoints == [target : Targets, access : Accesses, conditional : BOOLEAN]
Conditioned == {bp.target : bp \in {b \in UNION WatchRequests : b.conditional}}

ASSUME TargetsAssumption == VariableNames \intersect Expressions = {}
ASSUME ValuesAssumption == Unbound \notin Values /\ Unknown \notin Given
ASSUME AssignedAssumption == Assigned \subseteq VariableNames
ASSUME MeaningAssumption == Meaning \in [Expressions -> [[VariableNames -> Given] -> Given]]
ASSUME WatchRequestsAssumption == WatchRequests \subseteq SUBSET DataBreakpoints
ASSUME RegistrationsAssumption == MaxRegistrations \in Nat

VARIABLES
    readsSupported,     \* the interpreter has sys.monitoring
    monitoring,         \* the debuggee uses it
    registering,        \* the request the receiver is putting into the tables
    registrations,      \* requests so far
    watch_names, read_watch_names, watch_meta,
    watch_expressions, watch_expression_meta,
    monitored,          \* the names whose reads the monitoring back end reports
    silenced,           \* the names whose reads sys.monitoring no longer calls back for
    lost,               \* history: those silenced while a request was under way
    inEffect,           \* history: the breakpoints of the last request it was through with
    value,              \* the values of the names in the frame
    inFrame,            \* last values in this frame
    everywhere,         \* last values in any frame
    activity,           \* what the program's thread is doing
    reading,            \* the name it reads, if that is the event
    holding,            \* the targets whose conditions hold at this event
    changed,            \* the targets found to have changed, as long as they are to be judged
    told,               \* the targets announced at this event
    overlapped,         \* history: a request was under way during this event
    baseline            \* history: what a target had at the last line that looked at it

watchTables == <<watch_names, read_watch_names, watch_meta, watch_expressions,
                 watch_expression_meta>>
reads == <<readsSupported, monitoring>>
deafness == <<silenced, lost>>
receiving == <<registering, registrations, watchTables, monitored, inEffect>>
outside == <<reads, receiving, deafness, value>>
snapshots == <<inFrame, everywhere>>
event == <<reading, holding, baseline>>
watching == <<snapshots, event, activity, changed, told>>
watchesVars == <<outside, watching, overlapped>>

Registered == [at |-> "idle", metas |-> {}, left |-> {}]

WatchesInit ==
    /\ readsSupported \in BOOLEAN /\ monitoring \in {FALSE, readsSupported}
    /\ registering = Registered /\ registrations = 0
    /\ watch_names = {} /\ read_watch_names = {} /\ watch_meta = [n \in {} |-> {}]
    /\ watch_expressions = {} /\ watch_expression_meta = [e \in {} |-> {}]
    /\ monitored = {} /\ silenced = {} /\ lost = {} /\ inEffect = {}
    /\ value = [n \in VariableNames |-> Unbound]
    /\ inFrame = [t \in Targets |-> Unbound] /\ everywhere = [t \in Targets |-> Unbound]
    /\ activity = "running" /\ reading = {} /\ holding = {} /\ changed = {} /\ told = {}
    /\ overlapped = FALSE
    /\ baseline = [t \in Targets |-> Unbound]

-----------------------------------------------------------------------------
(* Access types.                                                           *)

Writes == {"write", "readWrite"}
Reads == {"read", "readWrite"}

\* Without sys.monitoring a breakpoint on reads becomes one on writes.
_effective_access_type(access) == IF readsSupported THEN access ELSE "write"

\* (the mutant takes a breakpoint on both for one on neither)
M_meta_matches_access_type(meta, access) == meta.access = access

_meta_matches_access_type(meta, access) ==
    meta.access \in IF access = "read" THEN Reads ELSE Writes

_build_watch_meta(bp) == [bp EXCEPT !.access = _effective_access_type(bp.access)]

Of(metas, target) == {m \in metas : m.target = target}
NamesOf(metas, accesses) == {n \in VariableNames : \E m \in Of(metas, n) : m.access \in accesses}
ExpressionsOf(metas) == {e \in Expressions : Of(metas, e) # {}}

-----------------------------------------------------------------------------
(* Requests.                                                               *)

\* No breakpoints are not registered, so that the last ones stay.
handle_set_data_breakpoints_impl(bps) ==
    /\ registering = Registered /\ registrations < MaxRegistrations
    /\ registrations' = registrations + 1
    /\ IF bps = {} THEN UNCHANGED <<registering, overlapped>>
       ELSE /\ registering' = [at |-> "names", metas |-> {_build_watch_meta(bp) : bp \in bps},
                               left |-> {}]
            /\ overlapped' = TRUE
    /\ UNCHANGED <<reads, watchTables, monitored, inEffect, deafness, value, watching>>

\* A step of the registration.
Then(here, next) ==
    /\ registering.at = here
    /\ registering' = [registering EXCEPT !.at = next]
    /\ overlapped' = TRUE
    /\ UNCHANGED <<reads, registrations, deafness, value, watching>>

TakeNext(here, next, metas) ==
    /\ registering.at = here
    /\ registering' = [registering EXCEPT !.left = metas, !.at = IF metas = {} THEN next ELSE here]
    /\ overlapped' = TRUE
    /\ UNCHANGED <<reads, registrations, deafness, value, watching>>

\* First every name is watched for writes, and nothing is known of it; ...
WatchAll ==
    /\ Then("names", "reads")
    /\ watch_names' = NamesOf(registering.metas, Accesses)
    /\ UNCHANGED <<read_watch_names, watch_meta, watch_expressions, watch_expression_meta,
                   monitored, inEffect>>

ForgetReads ==
    /\ Then("reads", "metas")
    /\ read_watch_names' = {}
    /\ UNCHANGED <<watch_names, watch_meta, watch_expressions, watch_expression_meta, monitored,
                   inEffect>>

ForgetMetas ==
    LET names == NamesOf(registering.metas, Accesses)
    IN /\ registering.at = "metas"
       /\ watch_meta' = [n \in names |-> {}]
       /\ registering' = [registering EXCEPT !.at = IF names = {} THEN "expressions" ELSE "meta",
                                             !.left = {m \in @ \union registering.metas :
                                                          m.target \in VariableNames}]
       /\ overlapped' = TRUE
       /\ UNCHANGED <<reads, registrations, watch_names, read_watch_names, watch_expressions,
                      watch_expression_meta, monitored, inEffect, deafness, value, watching>>

\* ... then the breakpoints of the names come one after the other, ...
AppendMeta(m) ==
    /\ m \in registering.left
    /\ TakeNext("meta", "writes", registering.left \ {m})
    /\ watch_meta' = [watch_meta EXCEPT ![m.target] = @ \union {m}]
    /\ UNCHANGED <<watch_names, read_watch_names, watch_expressions, watch_expression_meta,
                   monitored, inEffect>>

\* ... and only then are the names told apart.
WatchWrites ==
    /\ Then("writes", "readNames")
    /\ watch_names' = NamesOf(registering.metas, Writes)
    /\ UNCHANGED <<read_watch_names, watch_meta, watch_expressions, watch_expression_meta,
                   monitored, inEffect>>

WatchReads ==
    /\ Then("readNames", "expressions")
    /\ read_watch_names' = NamesOf(registering.metas, Reads)
    /\ UNCHANGED <<watch_names, watch_meta, watch_expressions, watch_expression_meta, monitored,
                   inEffect>>

WatchExpressions ==
    /\ Then("expressions", "expressionMetas")
    /\ watch_expressions' = ExpressionsOf(registering.metas)
    /\ UNCHANGED <<watch_names, read_watch_names, watch_meta, watch_expression_meta, monitored,
                   inEffect>>

ForgetExpressionMetas ==
    LET expressions == ExpressionsOf(registering.metas)
    IN /\ registering.at = "expressionMetas"
       /\ watch_expression_meta' = [e \in expressions |-> {}]
       /\ registering' = [registering EXCEPT !.at = IF expressions = {} THEN "sync"
                                                    ELSE "expressionMeta",
                                             !.left = {m \in @ \union registering.metas :
                                                          m.target \in Expressions}]
       /\ overlapped' = TRUE
       /\ UNCHANGED <<reads, registrations, watch_names, read_watch_names, watch_meta,
                      watch_expressions, monitored, inEffect, deafness, value, watching>>

AppendExpressionMeta(m) ==
    /\ m \in registering.left
    /\ TakeNext("expressionMeta", "sync", registering.left \ {m})
    /\ watch_expression_meta' = [watch_expression_meta EXCEPT ![m.target] = @ \union {m}]
    /\ UNCHANGED <<watch_names, read_watch_names, watch_meta, watch_expressions, monitored,
                   inEffect>>

Through ==
    /\ registering' = Registered
    /\ inEffect' = registering.metas
    /\ overlapped' = TRUE

\* The monitoring back end takes the names to report; ...
SyncNames ==
    /\ registering.at = "sync"
    /\ IF monitoring /\ monitored # read_watch_names
       THEN /\ monitored' = read_watch_names
            /\ registering' = [registering EXCEPT !.at = "restart"]
            /\ overlapped' = TRUE
            /\ UNCHANGED inEffect
       ELSE Through /\ UNCHANGED monitored
    /\ UNCHANGED <<reads, registrations, watchTables, deafness, value, watching>>

\* ... then the callbacks that were disabled are called again.
RestartReads ==
    /\ registering.at = "restart"
    /\ Through
    /\ silenced' = {} /\ lost' = {}
    /\ UNCHANGED <<reads, registrations, watchTables, monitored, value, watching>>

SyncReads == SyncNames \/ RestartReads

register_watches ==
    \/ WatchAll \/ ForgetReads \/ ForgetMetas
    \/ \E m \in registering.left : AppendMeta(m)
    \/ WatchWrites \/ WatchReads

register_expression_watches ==
    \/ WatchExpressions \/ ForgetExpressionMetas
    \/ \E m \in registering.left : AppendExpressionMeta(m)

register_data_watches ==
    register_watches \/ register_expression_watches \/ SyncReads

\* What the variables view shows of a name.
has_data_breakpoint_for_name(n) == n \in watch_names \/ n \in DOMAIN watch_meta

-----------------------------------------------------------------------------
(* The program's thread.                                                   *)

Statement(n, v) ==
    /\ activity = "running"
    /\ value' = [value EXCEPT ![n] = v]
    /\ UNCHANGED <<reads, receiving, deafness, watching, overlapped>>

\* A line of user code: bdb's callback looks into the watches before anything else.
user_line(conditions) ==
    /\ activity = "running"
    /\ activity' = "changes"
    /\ holding' = conditions
    /\ overlapped' = (registering # Registered)
    /\ UNCHANGED <<outside, snapshots, reading, baseline, changed, told>>

Now(t) == IF t \in VariableNames THEN value[t] ELSE Meaning[t][value]

\* The values before: of this frame, else of any.
Old(t) == IF inFrame[t] # Unbound THEN inFrame[t] ELSE everywhere[t]
Differs(t) == Now(t) # Unbound /\ Old(t) # Unbound /\ Now(t) # Old(t)

check_for_changes ==
    /\ activity = "changes"
    /\ activity' = "expression changes"
    /\ changed' = {n \in watch_names : Differs(n)}
    /\ UNCHANGED <<outside, snapshots, event, told, overlapped>>

check_expression_changes ==
    /\ activity = "expression changes"
    /\ activity' = "names?"
    /\ changed' = changed \union {e \in watch_expressions : Differs(e)}
    /\ UNCHANGED <<outside, snapshots, event, told, overlapped>>

\* update_snapshots looks at the names three times: whether there are any, ...
AnyNames ==
    /\ activity = "names?"
    /\ activity' = IF watch_names = {} THEN "expressions?" ELSE "frame"
    /\ UNCHANGED <<outside, snapshots, event, changed, told, overlapped>>

\* ... for the frame's values, which replace those it had, ...
Replace(kind, targets) ==
    inFrame' = [t \in Targets |-> IF t \notin kind THEN inFrame[t]
                                  ELSE IF t \in targets THEN Now(t) ELSE Unbound]

SnapshotFrame ==
    /\ activity = "frame"
    /\ activity' = "global"
    /\ Replace(VariableNames, watch_names)
    /\ UNCHANGED <<outside, everywhere, event, changed, told, overlapped>>

\* ... and for those of any frame, which are added.
Keep(targets) ==
    everywhere' = [t \in Targets |-> IF t \in targets /\ Now(t) # Unbound THEN Now(t)
                                     ELSE everywhere[t]]

SnapshotGlobal ==
    /\ activity = "global"
    /\ activity' = "expressions?"
    /\ Keep(watch_names)
    /\ UNCHANGED <<outside, inFrame, event, changed, told, overlapped>>

update_snapshots == AnyNames \/ SnapshotFrame \/ SnapshotGlobal

Judgement == IF changed = {} THEN "told" ELSE "judging"

AnyExpressions ==
    /\ activity = "expressions?"
    /\ activity' = IF watch_expressions = {} THEN Judgement ELSE "expressions"
    /\ UNCHANGED <<outside, snapshots, event, changed, told, overlapped>>

SnapshotExpressions ==
    /\ activity = "expressions"
    /\ activity' = Judgement
    /\ Replace(Expressions, watch_expressions)
    /\ Keep(watch_expressions)
    /\ UNCHANGED <<outside, event, changed, told, overlapped>>

update_expression_snapshots == AnyExpressions \/ SnapshotExpressions

get_meta_for_name(n) == IF n \in DOMAIN watch_meta THEN watch_meta[n] ELSE {}
get_meta_for_expression(e) ==
    IF e \in DOMAIN watch_expression_meta THEN watch_expression_meta[e] ELSE {}

\* Without breakpoints the change itself is enough.
_should_stop_for_data_breakpoint(n, access) ==
    LET metas == get_meta_for_name(n)
    IN metas = {} \/ \E m \in metas : /\ _meta_matches_access_type(m, access)
                                      /\ m.conditional => n \in holding

_should_stop_for_expression_breakpoint(e) ==
    LET metas == get_meta_for_expression(e)
    IN metas = {} \/ \E m \in metas : m.conditional => e \in holding

\* The names are judged before the expressions; each that stops the program is announced.
Judge(t) ==
    /\ activity = "judging" /\ t \in changed
    /\ t \in Expressions => changed \subseteq Expressions
    /\ changed' = changed \ {t}
    /\ activity' = IF changed' = {} THEN "told" ELSE "judging"
    /\ told' = IF IF t \in VariableNames THEN _should_stop_for_data_breakpoint(t, "write")
                 ELSE _should_stop_for_expression_breakpoint(t)
               THEN told \union {t} ELSE told
    /\ UNCHANGED <<outside, snapshots, event, overlapped>>

\* An instruction that reads a name.  sys.monitoring calls the back end while it has any names,
\* unless it was told not to.
ReadAccess(n, conditions) ==
    /\ activity = "running"
    /\ activity' = IF monitored = {} \/ n \in silenced THEN "told" ELSE "instruction"
    /\ reading' = {n}
    /\ holding' = conditions
    /\ overlapped' = (registering # Registered)
    /\ UNCHANGED <<outside, snapshots, baseline, changed, told>>

_on_instruction ==
    /\ activity = "instruction"
    /\ activity' = IF reading \subseteq monitored THEN "read?" ELSE "disable"
    /\ UNCHANGED <<outside, snapshots, event, changed, told, overlapped>>

\* Not a name to report: the callback has this instruction disabled, whatever the names are now.
DisableRead ==
    /\ activity = "disable"
    /\ activity' = "told"
    /\ silenced' = silenced \union reading
    /\ lost' = IF overlapped THEN lost \union reading ELSE lost
    /\ UNCHANGED <<reads, receiving, value, snapshots, event, changed, told, overlapped>>

is_read_watching ==
    /\ activity = "read?"
    /\ activity' = IF reading \subseteq read_watch_names THEN "judging read" ELSE "told"
    /\ UNCHANGED <<outside, snapshots, event, changed, told, overlapped>>

JudgeRead ==
    /\ activity = "judging read"
    /\ activity' = "told"
    /\ told' = {n \in reading : _should_stop_for_data_breakpoint(n, "read")}
    /\ UNCHANGED <<outside, snapshots, event, changed, overlapped>>

handle_read_watch_access == is_read_watching \/ JudgeRead

\* What a line looked at is what the next one is compared with; of what the requests of the
\* meantime made of it nothing is known.
NextBaseline(t) ==
    LET looked == Now(t) # Unbound /\ t \in watch_names \union watch_expressions
    IN IF reading = {} /\ overlapped THEN Unknown
       ELSE IF reading = {} /\ looked THEN Now(t) ELSE baseline[t]

EndEvent ==
    /\ activity = "told"
    /\ activity' = "running"
    /\ baseline' = [t \in Targets |-> NextBaseline(t)]
    /\ reading' = {} /\ holding' = {} /\ told' = {} /\ overlapped' = FALSE
    /\ UNCHANGED <<outside, snapshots, changed>>

-----------------------------------------------------------------------------

SetWatches ==
    \/ \E bps \in WatchRequests : handle_set_data_breakpoints_impl(bps)
    \/ register_data_watches

Look ==
    \/ \E conditions \in SUBSET Conditioned :
          user_line(conditions) \/ \E n \in VariableNames : ReadAccess(n, conditions)
    \/ check_for_changes \/ check_expression_changes
    \/ update_snapshots \/ update_expression_snapshots
    \/ \E t \in changed : Judge(t)
    \/ _on_instruction \/ DisableRead \/ handle_read_watch_access
    \/ EndEvent

WatchesNext ==
    \/ SetWatches \/ Look
    \/ \E n \in Assigned, v \in Given : Statement(n, v)

WatchesSpec == WatchesInit /\ [][WatchesNext]_watchesVars

-----------------------------------------------------------------------------

\* What the breakpoints in effect want of a target: an expression has no access type.
Wanted(t, access) ==
    \E m \in inEffect : /\ m.target = t
                        /\ \/ t \in Expressions
                           \/ m.access \in IF access = "read" THEN Reads ELSE Writes
                        /\ m.conditional => t \in holding

Moved(t) == Now(t) # Unbound /\ baseline[t] # Unbound /\ Now(t) # baseline[t]

LinesTell ==
    reading = {} => \A t \in Targets :
        /\ t \in told => Wanted(t, "write")
        /\ baseline[t] # Unknown => (t \in told <=> Moved(t) /\ Wanted(t, "write"))

ReadsTell ==
    \A n \in reading \ lost : n \in told <=> monitoring /\ Wanted(n, "read")

NamesAreMarked ==
    \A n \in VariableNames : has_data_breakpoint_for_name(n) <=> \E m \in inEffect : m.target = n

\* No change of a watched value is missed, and none is announced that is not one: after a line that
\* no request overlapped, exactly those targets were announced whose values differ from what they
\* had at the last line that looked at them, and which a breakpoint of the last request wants, its
\* access and its condition included; of the names read, exactly those with a breakpoint on reads,
\* where sys.monitoring is used, unless a callback that answered for earlier names had it silence the
\* read.  And the variables view marks exactly the names with breakpoints.
WatchesDecide ==
    /\ activity = "told" /\ ~overlapped => LinesTell /\ ReadsTell
    /\ registering = Registered => NamesAreMarked

=============================================================================
