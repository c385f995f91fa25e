----------------------------- MODULE MCDebuggeeData -----------------------------
(***************************************************************************)
(* What the debuggee shows of itself, in one run: frames and variables,    *)
(* with three frames in all, and the numbers of sources, with two dynamic  *)
(* sources, two files, the receiver and the program's thread.  The parts   *)
(* share no variable, so a behaviour moves one of them and leaves the      *)
(* other in one initial state.                                             *)
(***************************************************************************)
EXTENDS Inspection, Sources

CONSTANTS unset, nothing,
          string, stdin, moduleA, moduleB, programThread, receiverThread, missing

Symmetry == Permutations({string, stdin}) \union Permutations({moduleA, moduleB})

VARIABLE part

allVars == <<part, vars, sourceVars>>

DataInit ==
    /\ part \in {"inspection", "sources"}
    /\ Init /\ SourceInit
    /\ part = "sources" => client = "launcher" /\ ~breaks

DataNext ==
    \/ part = "inspection" /\ Next /\ UNCHANGED <<part, sourceVars>>
    \/ part = "sources" /\ SourceNext /\ UNCHANGED <<part, vars>>

DataSpec == DataInit /\ [][DataNext]_allVars
=============================================================================
