------------------------------- MODULE MCTracing -------------------------------
(***************************************************************************)
(* The ways a program gets traced, in one run: the sys.monitoring back     *)
(* end, with one program thread and two functions of one file; selective   *)
(* tracing, with two files, one of which is not stamped, a cache of one    *)
(* entry and two code objects; attaching to a running process, twice;      *)
(* checks written into the code of three functions, two of which are       *)
(* alike; the eval-frame hook under up to three frames; and the values a   *)
(* traced program is watched for, its reads through sys.monitoring.  They  *)
(* share no variable, so a behaviour moves one of them and leaves the      *)
(* others in their initial states.                                         *)
(***************************************************************************)
EXTENDS MonitoringBackend, SelectiveTracing, AttachByPid, BytecodeInjection, EvalFrameHook,
        Watches, TLC

CONSTANTS t1, func1, func2, main, user, test, code1, code2, a1, a2,
          fa, fb, fc, user2, same, other

const_Threads == {t1}
const_Codes == {func1, func2}
const_Files == {main}
const_FileOf == [c \in const_Codes |-> main]
const_Lines == {1}
const_SourceFiles == {user, test}
const_Unstamped == {test}
const_CodeObjects == {code1, code2}
const_Attaches == {a1, a2}

const_Routines == {fa, fb, fc}
const_HomeOf == fa :> user @@ fb :> user2 @@ fc :> user
const_ContentOf == fa :> same @@ fb :> same @@ fc :> other

\* Functions of two lines, with or without a RESUME in front, with names to
\* spare or not; a statement may reach over the line of the next one.
Inst(op, arg, line) == [op |-> op, arg |-> arg, line |-> line]
Assign(l) == <<Inst("LOAD_CONST", 2, l), Inst("STORE_FAST", 0, l)>>
PrintCall(l) == <<Inst("LOAD_GLOBAL", 1, l), Inst("CACHE", 0, l), Inst("CALL", 0, l),
                  Inst("CACHE", 0, l), Inst("POP_TOP", 0, l)>>
LongCall(l) == <<Inst("LOAD_GLOBAL", 1, l), Inst("CACHE", 0, l), Inst("LOAD_CONST", 2, l + 1),
                 Inst("CALL", 0, l), Inst("CACHE", 0, l), Inst("POP_TOP", 0, l)>>
NoOp(l) == <<Inst("NOP", 0, l)>>
GiveNone(l) == <<Inst("LOAD_CONST", 1, l), Inst("RETURN_VALUE", 0, l)>>
MakeCode(is, names) ==
    [ops |-> [k \in DOMAIN is |-> [op |-> is[k].op, arg |-> is[k].arg]],
     linetable |-> [k \in DOMAIN is |-> is[k].line],
     consts |-> <<NoneConst, 7>>, names |-> names, stacksize |-> 3]
Prologue == <<Inst("RESUME", 0, 0)>>
First == {Assign(1), PrintCall(1), LongCall(1), NoOp(1)}
Second == {Assign(2), LongCall(2), GiveNone(2)}
const_Programs ==
    {MakeCode(Prologue \o s \o t, <<"print">>) : s \in First, t \in Second}
        \cup {MakeCode(PrintCall(1) \o t, <<"print", "len">>) : t \in Second}

\* A name on both reads and writes, under a condition, and an expression that follows it; then
\* that name with two breakpoints, and one that is only read.
DataBreakpoint(t, a, c) == [target |-> t, access |-> a, conditional |-> c]
SomeWatches ==
    {{},
     {DataBreakpoint("m", "readWrite", TRUE), DataBreakpoint("e", "write", FALSE)},
     {DataBreakpoint("n", "read", FALSE), DataBreakpoint("m", "read", FALSE),
      DataBreakpoint("m", "write", TRUE)}}
FollowsTheName == [e \in {"e"} |-> [v \in [VariableNames -> Given] |-> v["m"]]]

Symmetry == Permutations({code1, code2})

VARIABLE part

allVars == <<part, vars, tracingVars, attachVars, injectionVars, evalFrameVars,
             watchesVars>>

TracedInit ==
    /\ part \in {"monitoring", "tracing", "attach", "injection", "evalframe", "watches"}
    /\ Init /\ TracingInit /\ AttachInit /\ InjectionInit /\ EvalFrameInit /\ WatchesInit
    /\ body[other] = MakeCode(Prologue \o Assign(1) \o GiveNone(2), <<"print">>)
    /\ part # "injection" => body[same] = body[other]
    /\ part # "evalframe" => tracer = "none"
    /\ part # "watches" => ~readsSupported

\* A program that is not attached to again goes on without the debugger, and
\* one whose breakpoints no longer change, or that has returned, rests.
Resting ==
    \/ part = "attach" /\ \A a \in Attaches : helper[a] \in {"failed", "exited"}
    \/ part = "injection" /\ changes = MaxChanges /\ runner = InProgram /\ removing = NotRemoving
    \/ part = "evalframe" /\ calls = MaxCalls /\ evalFrames = <<>>

TracedNext ==
    \/ /\ part = "monitoring" /\ Next
       /\ UNCHANGED <<part, tracingVars, attachVars, injectionVars, evalFrameVars, watchesVars>>
    \/ /\ part = "tracing" /\ TracingNext
       /\ UNCHANGED <<part, vars, attachVars, injectionVars, evalFrameVars, watchesVars>>
    \/ /\ part = "attach" /\ AttachNext
       /\ UNCHANGED <<part, vars, tracingVars, injectionVars, evalFrameVars, watchesVars>>
    \/ /\ part = "injection" /\ InjectionNext
       /\ UNCHANGED <<part, vars, tracingVars, attachVars, evalFrameVars, watchesVars>>
    \/ /\ part = "evalframe" /\ EvalFrameNext
       /\ UNCHANGED <<part, vars, tracingVars, attachVars, injectionVars, watchesVars>>
    \/ /\ part = "watches" /\ WatchesNext
       /\ UNCHANGED <<part, vars, tracingVars, attachVars, injectionVars, evalFrameVars>>
    \/ Resting /\ UNCHANGED allVars

TracedSpec == TracedInit /\ [][TracedNext]_allVars
=============================================================================
