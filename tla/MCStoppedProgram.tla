--------------------------- MODULE MCStoppedProgram ---------------------------
(***************************************************************************)
(* What stops a program, what is answered about it and what is changed in  *)
(* it while it is stopped, in one run: the breakpoints of the debuggee,    *)
(* the adapter's tables of them, with one file and one breakpoint, the     *)
(* inquiries of the client, and the reload of a module of two functions,   *)
(* with one frame.  The parts share no variable, so a behaviour moves one  *)
(* of them and leaves the others in one initial state.                     *)
(***************************************************************************)
EXTENDS MCBreakpoints, AdapterBreakpoints, Inquiries, HotReload

CONSTANTS file, breakpoint, liveFrame

VARIABLE part

allVars == <<part, vars, adapterTableVars, inquiryVars, reloadVars>>

StoppedInit ==
    /\ part \in {"breakpoints", "tables", "inquiries", "reload"}
    /\ Init /\ TablesInit /\ InquiryInit /\ ReloadInit
    /\ part # "breakpoints" => ~entry
    /\ part # "tables" => ~inprocess
    /\ part # "inquiries" => answerer = "adapter"
    /\ part # "reload" => /\ service = "debuggee" /\ dict = NoFunctions
                          /\ \A frame \in LiveFrames : local[frame] = NoFunction

StoppedNext ==
    \/ part = "breakpoints" /\ Next /\ UNCHANGED <<part, adapterTableVars, inquiryVars, reloadVars>>
    \/ part = "tables" /\ TablesNext /\ UNCHANGED <<part, vars, inquiryVars, reloadVars>>
    \/ part = "inquiries" /\ InquiryNext /\ UNCHANGED <<part, vars, adapterTableVars, reloadVars>>
    \/ part = "reload" /\ ReloadNext /\ UNCHANGED <<part, vars, adapterTableVars, inquiryVars>>

StoppedSpec == StoppedInit /\ [][StoppedNext]_allVars
=============================================================================
