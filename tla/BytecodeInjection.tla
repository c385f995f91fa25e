--------------------------- MODULE BytecodeInjection ---------------------------
(***************************************************************************)
(* Breakpoint checks written into code objects (modify_bytecode,           *)
(* _code_object_builder), and the three places where instrumented code is  *)
(* kept: the modifier's table by code object and set of lines, the cache   *)
(* of CacheManager, and the metadata on the code object itself.            *)
(*                                                                         *)
(* The program's thread instruments a function when it enters it at a      *)
(* breakpoint; the receiving thread changes the breakpoints and            *)
(* invalidates the files meanwhile.  The dictionaries are keyed by code    *)
(* objects, which Python compares by what they do and not by the file they *)
(* come from.  A code object here holds no further code objects.           *)
(***************************************************************************)
EXTENDS Naturals, Sequences, FiniteSets, SequencesExt

CONSTANTS
    Routines,       \* code objects of the program
    HomeOf,         \* the file of each
    ContentOf,      \* what Python compares: equal for functions that are alike
    Programs,       \* code the functions may have
    BreakLines,     \* lines that may have a breakpoint
    NameWidth,      \* names a LOAD_GLOBAL reaches without EXTENDED_ARG
    ConstWidth,     \* constants a LOAD_CONST reaches
    NoneConst,      \* the constant None
    Nothing,        \* no entry
    MaxChanges      \* bound on the operations of the receiving thread

ASSUME WidthAssumption == NameWidth \in Nat \ {0} /\ ConstWidth \in Nat \ {0} /\ MaxChanges \in Nat
ASSUME NothingAssumption ==
    /\ Nothing \notin Routines
    /\ Nothing \notin [key : Routines, path : {HomeOf[c] : c \in Routines}, lines : SUBSET BreakLines]

Homes == {HomeOf[c] : c \in Routines}
Contents == {ContentOf[c] : c \in Routines}

VARIABLES
    body,       \* the code of each content
    wanted,     \* BreakpointCache: breakpoint lines of each file
    instrumented, \* modified_code_objects: the key object and its sets of lines
    kept,       \* CacheManager._func_code_cache and _func_code_paths
    extra,      \* the metadata on each code object
    runner,     \* the program's thread
    removing,   \* the receiving thread, inside invalidate_breakpoints
    gone,       \* history: functions invalidated and not instrumented since
    crossed,    \* history: those invalidated while they were being stored
    changes     \* operations so far

injectionVars == <<body, wanted, instrumented, kept, extra, runner, removing, gone,
                   crossed, changes>>

InProgram == [at |-> "program"]
NotRemoving == [at |-> "idle", file |-> Nothing, codes |-> {}]
Untouched == [key |-> Nothing, fingerprints |-> {}]

InjectionInit ==
    /\ body \in [Contents -> Programs]
    /\ wanted = [f \in Homes |-> {}]
    /\ instrumented = [k \in Contents |-> Untouched]
    /\ kept = [k \in Contents |-> Nothing]
    /\ extra = [c \in Routines |-> Nothing]
    /\ runner = InProgram
    /\ removing = NotRemoving
    /\ gone = {}
    /\ crossed = {}
    /\ changes = 0

-----------------------------------------------------------------------------
(* Instructions.  A code object is a sequence of operations with arguments *)
(* that index its constants and names, and the line of each position.      *)

Loads == {"LOAD_CONST", "LOAD_FAST", "LOAD_GLOBAL", "STORE_FAST"}
Unresolved == 0

ValueAt(code, op, arg) ==
    CASE op = "LOAD_CONST" -> code.consts[arg]
      [] op = "LOAD_GLOBAL" -> code.names[arg]
      [] OTHER -> Nothing

get_instructions(code) ==
    [k \in DOMAIN code.ops |->
        [op |-> code.ops[k].op, arg |-> code.ops[k].arg,
         val |-> ValueAt(code, code.ops[k].op, code.ops[k].arg),
         line |-> IF k \in DOMAIN code.linetable THEN code.linetable[k] ELSE Nothing]]

FirstOf(is, l) == SelectInSeq(is, LAMBDA i : i.line = l)

\* By line, the number of instructions in front of the check.
_find_injection_points(is, ls) ==
    [l \in {l \in ls : FirstOf(is, l) # 0} |->
        IF is[FirstOf(is, l)].op \in Loads THEN FirstOf(is, l) ELSE FirstOf(is, l) - 1]

Synthetic(op, val) == [op |-> op, arg |-> Unresolved, val |-> val, line |-> Nothing]
Cache == Synthetic("CACHE", Nothing)

_create_breakpoint_check_instructions(l) ==
    <<Synthetic("LOAD_GLOBAL", "_dapper_breakpoint"), Cache, Synthetic("LOAD_CONST", l),
      Synthetic("CALL", Nothing), Cache, Synthetic("POP_TOP", Nothing)>>

\* Of two lines with the same place the one that comes first in the code wins.
_create_breakpoint_instructions(is, points) ==
    LET LinesAt(k) == {l \in DOMAIN points : points[l] = k}
        Winner(k) == CHOOSE l \in LinesAt(k) :
                        \A m \in LinesAt(k) : FirstOf(is, l) <= FirstOf(is, m)
        Checked(k) == <<is[k]>> \o
                      IF LinesAt(k) = {} THEN <<>>
                      ELSE _create_breakpoint_check_instructions(Winner(k))
    IN  FlattenSeq([k \in DOMAIN is |-> Checked(k)])

-----------------------------------------------------------------------------
(* Rebuilding.  New constants and names go to the end; their index is cut  *)
(* to one byte.  The line table stays as it was.                           *)

FindOrAppend(pool, v) == IF Contains(pool, v) THEN pool ELSE Append(pool, v)
IndexIn(pool, v, width) == ((SelectInSeq(pool, LAMBDA w : w = v) - 1) % width) + 1

ResolveOne(acc, i) ==
    LET consts == IF i.op = "LOAD_CONST" /\ i.arg = Unresolved
                  THEN FindOrAppend(acc.consts, i.val) ELSE acc.consts
        names == IF i.op = "LOAD_GLOBAL" /\ i.arg = Unresolved
                 THEN FindOrAppend(acc.names, i.val) ELSE acc.names
        arg == IF i.arg # Unresolved THEN i.arg
               ELSE CASE i.op = "LOAD_CONST" -> IndexIn(consts, i.val, ConstWidth)
                      [] i.op = "LOAD_GLOBAL" -> IndexIn(names, i.val, NameWidth)
                      [] OTHER -> Unresolved
    IN  [consts |-> consts, names |-> names, ops |-> Append(acc.ops, [op |-> i.op, arg |-> arg])]

_resolve_instruction_arguments(code, is) ==
    FoldLeft(ResolveOne, [consts |-> code.consts, names |-> code.names, ops |-> <<>>], is)

rebuild_code_object(code, is) ==
    LET resolved == _resolve_instruction_arguments(code, is)
    IN  [code EXCEPT !.ops = resolved.ops, !.consts = resolved.consts, !.names = resolved.names,
                     !.stacksize = @ + 2]

InjectInto(code, ls) ==
    LET is == get_instructions(code)
    IN  rebuild_code_object(code,
            _create_breakpoint_instructions(is, _find_injection_points(is, ls)))

-----------------------------------------------------------------------------
(* Removing the checks again.                                              *)

\* (the mutant takes for granted that the check ends where POP_TOP would stand
\* without CACHE entries)
M_match_breakpoint_sequence(is, k) ==
    IF is[k].op = "LOAD_GLOBAL" /\ is[k].val = "_dapper_breakpoint" THEN 4 ELSE 0

SkipCaches(is, k) ==
    CHOOSE j \in k..(Len(is) + 1) :
        /\ j = Len(is) + 1 \/ is[j].op # "CACHE"
        /\ \A i \in k..(j - 1) : is[i].op = "CACHE"

\* The length of the check that starts at k, or 0.
_match_breakpoint_sequence(is, k) ==
    LET second == SkipCaches(is, k + 1)
        third == SkipCaches(is, IF second > Len(is) THEN second ELSE second + 1)
        fourth == SkipCaches(is, IF third > Len(is) THEN third ELSE third + 1)
        pair == IF is[k].op = "LOAD_GLOBAL" THEN <<k, second>> ELSE <<second, k>>
    IN  IF /\ fourth <= Len(is)
           /\ is[pair[1]].op = "LOAD_GLOBAL" /\ is[pair[2]].op = "LOAD_CONST"
           /\ is[pair[1]].val = "_dapper_breakpoint" /\ is[pair[2]].val # NoneConst
           /\ is[third].op = "CALL" /\ is[fourth].op = "POP_TOP"
        THEN fourth - k + 1 ELSE 0

remove_breakpoints(code) ==
    LET is == get_instructions(code)
        cleaned[k \in 1..(Len(is) + 1)] ==
            IF k > Len(is) THEN <<>>
            ELSE LET n == _match_breakpoint_sequence(is, k)
                 IN  IF n > 0 THEN cleaned[k + n] ELSE <<is[k]>> \o cleaned[k + 1]
    IN  rebuild_code_object(code, cleaned[1])

-----------------------------------------------------------------------------
(* The program's thread in the eval-frame hook: a function is entered at a *)
(* breakpoint, or while stepping with breakpoints in it.                   *)

Served(c) == extra[c] # Nothing \/ kept[ContentOf[c]] # Nothing
LinesOf(c) == ToSet(body[ContentOf[c]].linetable)

\* What is there already is taken, whatever lines it was made for.
Evaluate(c, ls) ==
    /\ runner = InProgram
    /\ ls # {} /\ ls \subseteq wanted[HomeOf[c]] \cap LinesOf(c)
    /\ Cardinality(ls) = 1 \/ ls = wanted[HomeOf[c]] \cap LinesOf(c)
    /\ ~Served(c)
    /\ runner' = [at |-> "inject", code |-> c, lines |-> ls,
                  new |-> Nothing, again |-> TRUE]
    /\ UNCHANGED <<body, wanted, instrumented, kept, extra, removing, gone, crossed, changes>>

\* The look-up in the table, and the injection if it misses; the code is the
\* same either way.
_apply_injection ==
    /\ runner.at = "inject"
    /\ LET k == ContentOf[runner.code]
       IN  /\ instrumented' = [instrumented EXCEPT
                  ![k].key = IF @ = Nothing THEN runner.code ELSE @,
                  ![k].fingerprints = @ \cup {runner.lines}]
           /\ runner' = [runner EXCEPT !.at = "cache", !.new = InjectInto(body[k], runner.lines)]
           /\ gone' = {d \in gone : ContentOf[d] # k}
           /\ crossed' = IF removing = NotRemoving THEN crossed ELSE crossed \cup {runner.code}
    /\ UNCHANGED <<body, wanted, kept, extra, removing, changes>>

\* _store_modified_code_for_evaluation: the cache, then the metadata.
_set_cached_code ==
    /\ runner.at = "cache"
    /\ LET k == ContentOf[runner.code]
       IN  kept' = [kept EXCEPT ![k] =
                       [key |-> IF @ = Nothing THEN runner.code ELSE @.key,
                        path |-> HomeOf[runner.code], lines |-> runner.lines]]
    /\ runner' = [runner EXCEPT !.at = "extra"]
    /\ UNCHANGED <<body, wanted, instrumented, extra, removing, gone, crossed, changes>>

\* The modifier stores, and its caller stores once more.
_store_code_extra_metadata ==
    /\ runner.at = "extra"
    /\ extra' = [extra EXCEPT ![runner.code] = runner.lines]
    /\ runner' = IF runner.again THEN [runner EXCEPT !.at = "cache", !.again = FALSE] ELSE InProgram
    /\ UNCHANGED <<body, wanted, instrumented, kept, removing, gone, crossed, changes>>

-----------------------------------------------------------------------------
(* The receiving thread.                                                   *)

Change == removing = NotRemoving /\ changes < MaxChanges /\ changes' = changes + 1

\* New breakpoints: the instrumented code stays.
UpdateBreakpoints(f, ls) ==
    /\ Change
    /\ wanted' = [wanted EXCEPT ![f] = ls]
    /\ UNCHANGED <<body, instrumented, kept, extra, runner, removing, gone, crossed>>

Storing == IF runner = InProgram THEN {} ELSE {runner.code}
Cleared(C) == [c \in Routines |-> IF c \in C THEN Nothing ELSE extra[c]]

\* The breakpoint cache, and the cached code of the file.
InvalidateBreakpoints(f) ==
    /\ Change
    /\ wanted' = [wanted EXCEPT ![f] = {}]
    /\ LET ks == {k \in Contents : kept[k] # Nothing /\ kept[k].path = f}
       IN  /\ kept' = [k \in Contents |-> IF k \in ks THEN Nothing ELSE kept[k]]
           /\ removing' = [at |-> "table", file |-> f, codes |-> {kept[k].key : k \in ks}]
    /\ crossed' = crossed \cup Storing
    /\ UNCHANGED <<body, instrumented, extra, runner, gone>>

\* The table: its keys of the file go, with their metadata and cached code.
\* Every key is one step of the loop.
invalidate_bytecode_cache_for_file ==
    /\ removing.at = "table"
    /\ LET ks == {k \in Contents : /\ instrumented[k].key # Nothing
                                   /\ HomeOf[instrumented[k].key] = removing.file}
       IN  IF ks = {} THEN removing' = [removing EXCEPT !.at = "extra"]
                           /\ UNCHANGED <<instrumented, kept, extra>>
           ELSE \E k \in ks :
                   /\ instrumented' = [instrumented EXCEPT ![k] = Untouched]
                   /\ extra' = Cleared({instrumented[k].key})
                   /\ kept' = [kept EXCEPT ![k] = Nothing]
                   /\ UNCHANGED removing
    /\ UNCHANGED <<body, wanted, runner, gone, crossed, changes>>

\* The metadata of the code objects the cache held.
ClearRemoved ==
    /\ removing.at = "extra"
    /\ extra' = Cleared(removing.codes)
    /\ gone' = gone \cup {c \in Routines : HomeOf[c] = removing.file}
    /\ removing' = NotRemoving
    /\ UNCHANGED <<body, wanted, instrumented, kept, runner, crossed, changes>>

\* (the mutant reads the cache for the code objects after it was emptied)
M_ClearAllCaches ==
    /\ Change
    /\ wanted' = [f \in Homes |-> {}]
    /\ instrumented' = [k \in Contents |-> Untouched]
    /\ kept' = [k \in Contents |-> Nothing]
    /\ gone' = Routines
    /\ crossed' = crossed \cup Storing
    /\ UNCHANGED <<body, extra, runner, removing>>

\* All caches, in one step: only a store in flight tells its parts apart.
ClearAllCaches ==
    /\ Change
    /\ extra' = Cleared({kept[k].key : k \in {k \in Contents : kept[k] # Nothing}})
    /\ wanted' = [f \in Homes |-> {}]
    /\ instrumented' = [k \in Contents |-> Untouched]
    /\ kept' = [k \in Contents |-> Nothing]
    /\ gone' = Routines
    /\ crossed' = crossed \cup Storing
    /\ UNCHANGED <<body, runner, removing>>

-----------------------------------------------------------------------------
InjectionNext ==
    \/ \E c \in Routines, ls \in SUBSET BreakLines : Evaluate(c, ls)
    \/ _apply_injection \/ _set_cached_code \/ _store_code_extra_metadata
    \/ \E f \in Homes, ls \in SUBSET BreakLines : UpdateBreakpoints(f, ls)
    \/ \E f \in Homes : InvalidateBreakpoints(f)
    \/ invalidate_bytecode_cache_for_file \/ ClearRemoved
    \/ ClearAllCaches

InjectionSpec == InjectionInit /\ [][InjectionNext]_injectionVars

-----------------------------------------------------------------------------
\* Removing the checks from code they were just written into gives back the
\* code: every instruction with the value it names and the line it stands on.
\* It needs the new name and constants to have an index of one byte.
RoundTrip ==
    runner.at = "cache" /\ Len(runner.new.names) <= NameWidth
                        /\ Len(runner.new.consts) <= ConstWidth =>
        get_instructions(remove_breakpoints(runner.new))
            = get_instructions(body[ContentOf[runner.code]])

Alone(c) == \A d \in Routines : ContentOf[d] = ContentOf[c] => d = c

\* A function whose file was invalidated, or all caches cleared, is found
\* instrumented nowhere until it is instrumented again: neither in the cache
\* nor on the code object.  It does not hold for a function that was being
\* instrumented meanwhile, nor for one that Python takes for equal to another.
InvalidatedIsGone == \A c \in gone \ crossed : Alone(c) => ~Served(c)
=============================================================================
