---------------------------- MODULE MCConnections ----------------------------
(***************************************************************************)
(* The connection of one client or debuggee that sends at most three       *)
(* messages, and the exceptions a program of two frames stops at, in one   *)
(* run: the two share no variable, so a behaviour moves one of them and    *)
(* leaves the other in one initial state.                                  *)
(***************************************************************************)
EXTENDS Connections, ExceptionBreakpoints

const_MaxSent == 3

\* The condition of a filter names one of the two types.
NamesOneType == [c \in {"named"} |-> {"ValueError"}]

\* No filter; every raised exception and uncaught ones of that type; raised ones of that
\* type and every uncaught one.
FilterRequest(filters, options) == [filters |-> filters, options |-> options]
SomeFilters ==
    {FilterRequest({}, <<>>),
     FilterRequest({"raised"}, [f \in {"uncaught"} |-> "named"]),
     FilterRequest({"uncaught"}, [f \in {"raised"} |-> "named"])}

VARIABLE part

allVars == <<part, vars, exceptionVars>>

\* A client of the extension's finds a program that runs in its own code, one of the
\* adapter's a program that is to stop on entry, outside of it.
PartsInit ==
    /\ part \in {"connections", "exceptions"}
    /\ Init /\ ExceptionInit
    /\ part = "connections" => filterClient = "extension"
    /\ part = "exceptions" => use = "server" /\ ~fixed
    /\ IF filterClient = "extension" THEN ~steps /\ Inner.user ELSE steps /\ ~Inner.user

PartsNext ==
    \/ part = "connections" /\ Next /\ UNCHANGED <<part, exceptionVars>>
    \/ part = "exceptions" /\ ExceptionNext /\ UNCHANGED <<part, vars>>

\* The fairness is the connections'; of the exceptions only invariants are checked.
PartsSpec == PartsInit /\ [][PartsNext]_allVars /\ ConnectionFairness
=============================================================================
