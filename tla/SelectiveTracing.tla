--------------------------- MODULE SelectiveTracing ---------------------------
(***************************************************************************)
(* Selective tracing (dapper/_frame_eval): the table of breakpoints of     *)
(* FrameTraceManager, the two caches of cache_manager, the bridge that     *)
(* wraps DebuggerBDB.user_line, the decision whether a line of the program *)
(* is worth a call of the debugger, and the manager that sets the system   *)
(* up and shuts it down.                                                   *)
(*                                                                         *)
(* FrameTraceManager writes its table and then the cache, under its own    *)
(* lock.  The program reads the cache without that lock, and invalidation, *)
(* clearing and reconfiguring of the caches do not take it either, so they *)
(* come between the steps of an update.                                    *)
(***************************************************************************)
EXTENDS Naturals, Sequences, FiniteSets, SequencesExt, Functions

CONSTANTS
    SourceFiles,    \* files with breakpoints
    Unstamped,      \* those whose modification time is not looked at
    LineNos,        \* line numbers
    CodeObjects,    \* code objects with cached information
    MaxEntries,     \* BreakpointCache.max_entries
    MaxInfos,       \* the largest FuncCodeInfoCache.max_size configured
    MaxOperations          \* bound on the operations of the controlling threads

ASSUME UnstampedAssumption == Unstamped \subseteq SourceFiles /\ IsFiniteSet(SourceFiles)
ASSUME SizesAssumption == /\ MaxEntries \in Nat \ {0} /\ MaxInfos \in Nat \ {0}
                          /\ MaxOperations \in Nat

Step(do, f, ls) == [do |-> do, file |-> f, lines |-> ls]
BetweenLines == [phase |-> "running"]
NoInfos(size) == [weak |-> {}, lru |-> <<>>, stamps |-> {}, old |-> {}, size |-> size]

VARIABLES
    table,      \* FrameTraceManager._global_breakpoints
    conditional, \* FrameTraceAnalyzer._breakpoint_conditions: lines that have one
    cached,     \* BreakpointCache._cache
    order,      \* BreakpointCache._access_order, the least recently used first
    stale,      \* cached files saved since they were cached
    infos,      \* FuncCodeInfoCache: weak map, LRU order, time stamps, size
    switches,   \* the bridge's config, _global_cache_enabled, selective tracing on
    wrapped,    \* the debugger's user_line is the bridge's
    manager,    \* FrameEvalManager and its runtime and backend
    pending,    \* what the holder of FrameTraceManager._lock still has to do
    thread,     \* the program
    unsent,     \* history: files whose table changed without the cache being told
    dropped,    \* history: files whose entry the cache has given up
    operations         \* operations so far

tracingVars == <<table, conditional, cached, order, stale, infos, switches, wrapped, manager,
          pending, thread, unsent, dropped, operations>>
entries == <<cached, order, stale>>
setting == <<switches, wrapped, manager>>

TracingInit ==
    /\ table = [f \in SourceFiles |-> {}]
    /\ conditional = [f \in SourceFiles |-> {}]
    /\ cached = <<>>
    /\ order = <<>>
    /\ stale = {}
    /\ infos = NoInfos(MaxInfos)
    /\ switches = [enabled |-> TRUE, selecting |-> TRUE, caching |-> TRUE, tracing |-> FALSE]
    /\ wrapped = FALSE
    /\ manager = [ready |-> FALSE, runtime |-> FALSE, backend |-> "none"]
    /\ pending = <<>>
    /\ thread = BetweenLines
    /\ unsent = {}
    /\ dropped = {}
    /\ operations = 0

Control == operations < MaxOperations /\ operations' = operations + 1
Unlocked == pending = <<>>

-----------------------------------------------------------------------------
(* BreakpointCache.  Each operator gives the entries, their order and the  *)
(* files whose stamp is out of date.                                       *)

_remove_entry(e, f) ==
    [cached |-> Restrict(e.cached, DOMAIN e.cached \ {f}),
     order |-> Remove(e.order, f),
     stale |-> e.stale \ {f}]

Emptied == [cached |-> <<>>, order |-> <<>>, stale |-> {}]
Entries == [cached |-> cached, order |-> order, stale |-> stale]
SetEntries(e) == cached' = e.cached /\ order' = e.order /\ stale' = e.stale

\* The least recently used file of the cache makes room; names in the order
\* that have no entry are popped on the way.
EvictOldest(e) ==
    LET i == SelectInSeq(e.order, LAMBDA g : g \in DOMAIN e.cached)
    IN  IF i = 0 THEN [e EXCEPT !.order = <<>>]
        ELSE _remove_entry([e EXCEPT !.order = SubSeq(@, i + 1, Len(@))], e.order[i])

Room(e) == IF Cardinality(DOMAIN e.cached) >= MaxEntries /\ e.order # <<>>
           THEN EvictOldest(e) ELSE e

\* (the mutant leaves the entry of a file that has lost its last breakpoint)
M_set_breakpoints(e, f, ls) ==
    LET room == Room(IF f \in DOMAIN e.cached THEN _remove_entry(e, f) ELSE e)
    IN  IF ls = {} THEN e
        ELSE [cached |-> [g \in DOMAIN room.cached \cup {f} |->
                             IF g = f THEN ls ELSE room.cached[g]],
              order |-> Append(room.order, f), stale |-> room.stale \ {f}]

\* set_breakpoints, once the switch has been read: the entry is replaced, and
\* a file without breakpoints has none.
set_breakpoints(e, f, ls) ==
    LET without == IF f \in DOMAIN e.cached THEN _remove_entry(e, f) ELSE e
        room == Room(without)
        keep == [g \in DOMAIN room.cached \cup {f} |-> IF g = f THEN ls ELSE room.cached[g]]
    IN  IF ls = {} THEN without
        ELSE [cached |-> keep, order |-> Append(Remove(room.order, f), f),
              stale |-> room.stale \ {f}]

_is_file_current(f) == f \in Unstamped \/ f \notin stale

\* get_breakpoints: the lines, {} for none, and what the look-up does to the
\* cache.
get_breakpoints(f) ==
    LET hit == [Entries EXCEPT !.order = Append(Remove(@, f), f)]
    IN  IF f \notin DOMAIN cached THEN [lines |-> {}, entries |-> Entries]
        ELSE IF _is_file_current(f) THEN [lines |-> cached[f], entries |-> hit]
        ELSE [lines |-> {}, entries |-> _remove_entry(Entries, f)]

Gone(e) == DOMAIN cached \ DOMAIN e.cached

-----------------------------------------------------------------------------
(* FrameTraceManager, under its lock: the table first, then what is still  *)
(* to be done for the cache and the conditions.                            *)

Locked == /\ Control /\ Unlocked
          /\ UNCHANGED <<conditional, entries, infos, setting, thread, dropped>>

update_file_breakpoints(f, ls) ==
    /\ Locked
    /\ table' = [table EXCEPT ![f] = ls]
    /\ pending' = <<Step("check", f, ls)>>
    /\ UNCHANGED unsent

set_conditional_breakpoints(f, ls, cs) ==
    /\ Locked /\ cs \subseteq ls
    /\ table' = [table EXCEPT ![f] = ls]
    /\ pending' = <<Step("check", f, ls), Step("conditions", f, cs)>>
    /\ UNCHANGED unsent

\* The files that are not in the map leave the table, not the cache.
update_all_breakpoints(files, t) ==
    /\ Locked
    /\ table' = [f \in SourceFiles |-> IF f \in Range(files) THEN t[f] ELSE {}]
    /\ pending' = [i \in DOMAIN files |-> Step("check", files[i], t[files[i]])]
    /\ unsent' = unsent \cup (SourceFiles \ Range(files))

add_breakpoint(f, l) == update_file_breakpoints(f, table[f] \cup {l})
remove_breakpoint(f, l) == update_file_breakpoints(f, table[f] \ {l})
clear_breakpoints(f) == update_file_breakpoints(f, {})

\* Without a file the loop over the files runs after the table was emptied.
clear_all_breakpoints ==
    /\ Locked
    /\ table' = [f \in SourceFiles |-> {}]
    /\ unsent' = SourceFiles
    /\ UNCHANGED pending

\* What is left to do, one step at a time: the switch is read before the lock
\* of the cache is taken.
ReadSwitch ==
    /\ ~Unlocked /\ Head(pending).do = "check"
    /\ IF switches.caching
       THEN /\ pending' = <<[Head(pending) EXCEPT !.do = "store"]>> \o Tail(pending)
            /\ UNCHANGED unsent
       ELSE /\ pending' = Tail(pending)
            /\ unsent' = unsent \cup {Head(pending).file}
    /\ UNCHANGED <<table, conditional, entries, infos, setting, thread, dropped, operations>>

Store ==
    /\ ~Unlocked /\ Head(pending).do = "store"
    /\ LET f == Head(pending).file
           e == set_breakpoints(Entries, f, Head(pending).lines)
       IN  /\ SetEntries(e)
           /\ unsent' = unsent \ {f}
           /\ dropped' = (dropped \cup Gone(e)) \ {f}
    /\ pending' = Tail(pending)
    /\ UNCHANGED <<table, conditional, infos, setting, thread, operations>>

\* The cache was replaced between the look at it and the call: the entry goes
\* to the cache nobody reads any more.
StoreElsewhere ==
    /\ ~Unlocked /\ Head(pending).do = "elsewhere"
    /\ LET f == Head(pending).file
       IN  dropped' = dropped \cup {f} /\ unsent' = unsent \ {f}
    /\ pending' = Tail(pending)
    /\ UNCHANGED <<table, conditional, entries, infos, setting, thread, operations>>

set_breakpoint_conditions ==
    /\ ~Unlocked /\ Head(pending).do = "conditions"
    /\ conditional' = [conditional EXCEPT ![Head(pending).file] = Head(pending).lines]
    /\ pending' = Tail(pending)
    /\ UNCHANGED <<table, entries, infos, setting, thread, unsent, dropped, operations>>

\* invalidate_file_cache takes no lock of the manager.
invalidate_file(f) ==
    /\ Control
    /\ SetEntries(_remove_entry(Entries, f))
    /\ conditional' = [conditional EXCEPT ![f] = {}]
    /\ dropped' = dropped \cup {f}
    /\ UNCHANGED <<table, infos, setting, pending, thread, unsent>>

\* Only the cache: a module was reloaded.
invalidate_breakpoints(f) ==
    /\ Control
    /\ SetEntries(_remove_entry(Entries, f))
    /\ dropped' = dropped \cup {f}
    /\ UNCHANGED <<table, conditional, infos, setting, pending, thread, unsent>>

Save(f) ==
    /\ f \in DOMAIN cached \ stale
    /\ stale' = stale \cup {f}
    /\ UNCHANGED <<table, conditional, cached, order, infos, setting, pending, thread,
                   unsent, dropped, operations>>

-----------------------------------------------------------------------------
(* FuncCodeInfoCache.  A code object is alive as long as its time stamp    *)
(* holds it, so the weak references stand for the objects themselves.      *)

Younger(s, c) == Append(RemoveFirst(s, c), c)

_insert_into_lru(r, c) ==
    [r EXCEPT !.weak = @ \cup {c}, !.lru = Younger(@, c), !.stamps = @ \cup {c}, !.old = @ \ {c}]

\* Down to the size: an evicted object keeps its time stamp.
_evict_if_needed(r) ==
    LET over == IF Len(r.lru) > r.size THEN Len(r.lru) - r.size ELSE 0
    IN  [r EXCEPT !.weak = @ \ Range(SubSeq(r.lru, 1, over)),
                  !.lru = SubSeq(@, over + 1, Len(@))]

\* An expired entry goes when it is looked up, its time stamp stays.
_get_from_weak_map(r, c) ==
    IF c \notin r.weak THEN r
    ELSE IF c \in r.old
    THEN [r EXCEPT !.weak = @ \ {c}, !.lru = RemoveFirst(@, c)]
    ELSE [r EXCEPT !.lru = IF c \in Range(@) THEN Younger(@, c) ELSE @]

_remove(r, c) ==
    IF c \notin r.weak THEN r
    ELSE [r EXCEPT !.weak = @ \ {c}, !.lru = RemoveFirst(@, c),
                   !.stamps = @ \ {c}, !.old = @ \ {c}]

\* Expired entries leave the weak map, not the LRU order.
_cleanup_expired(r) == [r EXCEPT !.weak = @ \ r.old, !.stamps = @ \ r.old, !.old = {}]

_clear(r) == [r EXCEPT !.weak = {}, !.lru = <<>>]

InfoOperation ==
    /\ Control
    /\ \/ \E c \in CodeObjects :
            infos' = IF switches.caching THEN _evict_if_needed(_insert_into_lru(infos, c)) ELSE infos
       \/ \E c \in CodeObjects : switches.caching /\ infos' = _get_from_weak_map(infos, c)
       \/ \E c \in CodeObjects : infos' = _remove(infos, c)
       \/ infos' = _cleanup_expired(infos)
    /\ UNCHANGED <<table, conditional, entries, setting, pending, thread, unsent, dropped>>

Expire(c) ==
    /\ c \in infos.stamps \ infos.old
    /\ infos' = [infos EXCEPT !.old = @ \cup {c}]
    /\ UNCHANGED <<table, conditional, entries, setting, pending, thread, unsent, dropped, operations>>

-----------------------------------------------------------------------------
(* The caches as a whole, and the manager that sets frame evaluation up.   *)

clear_all_caches ==
    /\ infos' = _clear(infos)
    /\ SetEntries(Emptied)
    /\ dropped' = SourceFiles

\* New caches take the place of the old ones: a thread that is about to store
\* holds the old one.
configure_caches(size) ==
    /\ infos' = NoInfos(size)
    /\ SetEntries(Emptied)
    /\ dropped' = SourceFiles
    /\ pending' = [i \in DOMAIN pending |->
                      IF pending[i].do = "store" THEN [pending[i] EXCEPT !.do = "elsewhere"]
                      ELSE pending[i]]

set_cache_enabled(on) ==
    /\ Control
    /\ switches' = [switches EXCEPT !.caching = on]
    /\ IF on THEN UNCHANGED <<infos, entries, dropped>> ELSE clear_all_caches
    /\ UNCHANGED <<table, conditional, wrapped, manager, pending, thread, unsent>>

\* update_config of the bridge.
configure_integration(enabled, selecting, caching) ==
    /\ Control /\ (~enabled => Unlocked)
    /\ switches' = [switches EXCEPT !.enabled = enabled, !.selecting = selecting,
                                    !.tracing = @ /\ enabled]
    /\ IF caching THEN UNCHANGED <<infos, entries, dropped>> ELSE clear_all_caches
    /\ UNCHANGED <<table, conditional, wrapped, manager, pending, thread, unsent>>

\* A debugger that is wrapped already stays as it is.
Integrate ==
    /\ wrapped' = (wrapped \/ switches.enabled)
    /\ switches' = [switches EXCEPT
                       !.tracing = @ \/ (~wrapped /\ switches.enabled /\ switches.selecting)]

integrate_with_debugger_bdb ==
    /\ Control /\ Unlocked
    /\ Integrate
    /\ UNCHANGED <<table, conditional, entries, infos, manager, pending, thread, unsent, dropped>>

remove_integration ==
    /\ Control /\ Unlocked /\ wrapped
    /\ wrapped' = FALSE
    /\ switches' = [switches EXCEPT !.tracing = FALSE]
    /\ UNCHANGED <<table, conditional, entries, infos, manager, pending, thread, unsent, dropped>>

install_backend ==
    /\ Control /\ Unlocked /\ manager.backend = "idle"
    /\ Integrate
    /\ manager' = [manager EXCEPT !.backend = IF wrapped' THEN "installed" ELSE "idle"]
    /\ UNCHANGED <<table, conditional, entries, infos, pending, thread, unsent, dropped>>

\* The back end's shutdown and the runtime's.
_cleanup_components ==
    /\ wrapped' = (wrapped /\ manager.backend # "installed")
    /\ switches' = [switches EXCEPT !.tracing = FALSE]

\* The configuration differs from the current one, in cache_size perhaps; the runtime is started by update_config, so the components are always
\* cleaned up before they are made.  That the back end could not be made is
\* logged, and the set-up counts as a success.
setup_frame_eval(sized, size, made) ==
    /\ Control /\ Unlocked
    /\ _cleanup_components
    /\ infos' = IF sized THEN NoInfos(size) ELSE _clear(infos)
    /\ SetEntries(Emptied) /\ dropped' = SourceFiles
    /\ manager' = [ready |-> TRUE, runtime |-> made, backend |-> IF made THEN "idle" ELSE "none"]
    /\ UNCHANGED <<table, conditional, pending, thread, unsent>>

shutdown_frame_eval ==
    /\ Control /\ Unlocked /\ manager.ready
    /\ _cleanup_components
    /\ clear_all_caches
    /\ manager' = [ready |-> FALSE, runtime |-> FALSE, backend |-> "none"]
    /\ UNCHANGED <<table, conditional, pending, thread, unsent>>

\* Of the manager: a new cache size replaces the caches.  It is compared with
\* the configured one, which a shutdown resets.
update_config(size) ==
    /\ Control
    /\ configure_caches(size)
    /\ manager' = [manager EXCEPT !.runtime = TRUE]
    /\ UNCHANGED <<table, conditional, switches, wrapped, thread, unsent>>

-----------------------------------------------------------------------------
(* The program: the wrapped user_line is called at a line, looks the file  *)
(* up, and asks the debugger or not.                                       *)

Selecting == wrapped /\ switches.selecting /\ switches.tracing

enhanced_user_line(f, l) ==
    /\ thread.phase # "looked"
    /\ IF Selecting
       THEN LET found == get_breakpoints(f)
            IN  /\ SetEntries(found.entries)
                /\ dropped' = dropped \cup Gone(found.entries)
                /\ thread' = [phase |-> "looked", file |-> f, line |-> l, lines |-> found.lines]
       ELSE thread' = [phase |-> "told", file |-> f, line |-> l] /\ UNCHANGED <<entries, dropped>>
    /\ UNCHANGED <<table, conditional, infos, setting, pending, unsent, operations>>

\* A condition that is false skips the line; one that cannot be evaluated does
\* not.  Without a breakpoint on the line itself the line is skipped: nothing
\* sets step_mode on this path.
should_trace_code(passes) ==
    /\ thread.phase = "looked"
    /\ LET hit == /\ thread.line \in thread.lines
                  /\ thread.line \in conditional[thread.file] => passes
       IN  thread' = [phase |-> IF hit THEN "told" ELSE "skipped",
                      file |-> thread.file, line |-> thread.line]
    /\ UNCHANGED <<table, conditional, entries, infos, setting, pending, unsent, dropped, operations>>

-----------------------------------------------------------------------------
Maps == [SourceFiles -> SUBSET LineNos]
Orders == UNION {SetToSeqs(S) : S \in SUBSET SourceFiles}

TableOperation ==
    \/ \E f \in SourceFiles, ls \in SUBSET LineNos : update_file_breakpoints(f, ls)
    \/ \E f \in SourceFiles, ls, cs \in SUBSET LineNos : set_conditional_breakpoints(f, ls, cs)
    \/ \E files \in Orders, t \in Maps : update_all_breakpoints(files, t)
    \/ \E f \in SourceFiles, l \in LineNos : add_breakpoint(f, l) \/ remove_breakpoint(f, l)
    \/ \E f \in SourceFiles : clear_breakpoints(f)
    \/ clear_all_breakpoints
    \/ ReadSwitch \/ Store \/ StoreElsewhere \/ set_breakpoint_conditions

CacheOperation ==
    \/ \E f \in SourceFiles : invalidate_file(f) \/ invalidate_breakpoints(f) \/ Save(f)
    \/ InfoOperation
    \/ \E c \in CodeObjects : Expire(c)
    \/ \E on \in BOOLEAN : set_cache_enabled(on)

SetupOperation ==
    \/ \E enabled, selecting, caching \in BOOLEAN :
            configure_integration(enabled, selecting, caching)
    \/ integrate_with_debugger_bdb \/ remove_integration \/ install_backend
    \/ \E sized, made \in BOOLEAN, size \in 1..MaxInfos : setup_frame_eval(sized, size, made)
    \/ shutdown_frame_eval
    \/ \E size \in 1..MaxInfos : update_config(size)

Program ==
    \/ \E f \in SourceFiles, l \in LineNos : enhanced_user_line(f, l)
    \/ \E passes \in BOOLEAN : should_trace_code(passes)

TracingNext == TableOperation \/ CacheOperation \/ SetupOperation \/ Program

TracingSpec == TracingInit /\ [][TracingNext]_tracingVars

-----------------------------------------------------------------------------
\* Once an update is through, the program finds in the cache exactly the lines
\* the manager has registered for a file, or nothing because the entry was
\* evicted, invalidated or cleared since; but for the files whose change was
\* never sent: those left out of update_all_breakpoints, all of them after
\* clear_breakpoints without a file, and those changed with caching off.  The
\* other cache, of what is known of code objects, keeps to its size.
CacheAgrees ==
    /\ Len(infos.lru) <= infos.size
    /\ \A f \in SourceFiles :
          \/ f \in unsent
          \/ \E i \in DOMAIN pending : pending[i].file = f /\ pending[i].do # "conditions"
          \/ f \in DOMAIN cached /\ cached[f] = table[f] /\ table[f] # {}
          \/ f \notin DOMAIN cached /\ (table[f] = {} \/ f \in dropped)

=============================================================================
