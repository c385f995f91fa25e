-------------------------- MODULE BreakpointReadiness --------------------------
(***************************************************************************)
(* What the extension believes of the breakpoints of one file.             *)
(*                                                                         *)
(* VS Code and the agent's breakpoints tool both send setBreakpoints,      *)
(* through the same debug session: a change the tool makes goes out twice, *)
(* once by VS Code for the editor's new state and once by the tool itself. *)
(* The debug session keeps a record per line, from the request, its answer *)
(* and the debuggee's "breakpoint" events; the agent's journal keeps its   *)
(* own, from the tool's requests and the events.  The session's records    *)
(* decide whether configurationDone and the resuming requests go on to the *)
(* debuggee; the journal's decide what the agent is told.                  *)
(***************************************************************************)
EXTENDS Naturals, Sequences

CONSTANTS Lines,         \* the lines of the file
          MaxRequests,   \* bound on the setBreakpoints requests
          MaxEvents      \* bound on the debuggee's "breakpoint" events

ASSUME ReadinessAssumption == MaxRequests \in Nat /\ MaxEvents \in Nat

\* toBreakpointVerificationRecord: verified; not, with a message; not, without one.
Verdicts == {"verified", "rejected", "pending"}
Records == Verdicts \union {"none"}

VARIABLES
    wanted,        \* the enabled breakpoints of the editor
    outstanding,   \* setBreakpoints sent to the debuggee: [lines, by]
    gate,          \* DapperDebugSession._breakpointVerification: line -> record or "none"
    seen,          \* StateJournal._breakpointVerification: line -> record or "none"
    lifecycle,     \* the journal's _lastTransition.state, as far as breakpoints move it
    configuring,   \* configurationDone: "idle", "waiting", "forwarded", "refused"
    requests,      \* setBreakpoints so far
    notices,       \* "breakpoint" events so far
    answers,       \* history: the answer to the newest request, line -> verdict or "none"
    crossed        \* history: requests overlapped, one failed, or an event came between

readinessVars == <<wanted, outstanding, gate, seen, lifecycle, configuring, requests, notices,
                   answers, crossed>>

ReadinessInit ==
    /\ wanted = {} /\ outstanding = <<>>
    /\ gate = [l \in Lines |-> "none"] /\ seen = [l \in Lines |-> "none"]
    /\ lifecycle = "initializing" /\ configuring = "idle"
    /\ requests = 0 /\ notices = 0
    /\ answers = [l \in Lines |-> "none"] /\ crossed = FALSE

-----------------------------------------------------------------------------
(* DapperDebugSession: the records behind the gate.                        *)

\* (the mutant keeps the records of lines that are gone)
M_setPendingBreakpoints(records, lines) ==
    [l \in Lines |-> IF l \in lines THEN "pending" ELSE records[l]]

\* _setPendingBreakpoints: lines that are gone have no record, the others wait.
setPendingBreakpoints(records, lines) ==
    [l \in Lines |-> IF l \in lines THEN "pending" ELSE "none"]

\* _updateBreakpointVerificationFromResult, whatever was asked since.
updateBreakpointVerification(records, lines, result) ==
    [l \in Lines |-> IF l \in lines THEN result[l] ELSE records[l]]

\* _getReadinessGateState: a rejected line goes before a pending one.
getReadinessGateState ==
    IF \E l \in Lines : gate[l] = "rejected" THEN "rejected"
    ELSE IF \E l \in Lines : gate[l] = "pending" THEN "pending" ELSE "ready"

-----------------------------------------------------------------------------
(* StateJournal: its own records, and the state they lead to.              *)

\* _refreshBreakpointRegistrationState, after the records became r.
refreshed(state, r) ==
    IF \E l \in Lines : r[l] = "pending" THEN "waiting-for-breakpoints"
    ELSE IF state \in {"initializing", "waiting-for-breakpoints"} THEN "ready" ELSE state

\* The adapter's initialized event.
initializedEvent ==
    /\ lifecycle = "initializing"
    /\ lifecycle' = "waiting-for-breakpoints"   \* never complete while initializing
    /\ UNCHANGED <<wanted, outstanding, gate, seen, configuring, requests, notices, answers,
                   crossed>>

-----------------------------------------------------------------------------
(* setBreakpoints, from the editor and from the tool.                      *)

\* setBreakPointsRequest, up to its await, of each request in turn.
setBreakPointsRequest(reqs) ==
    /\ requests + Len(reqs) <= MaxRequests /\ requests' = requests + Len(reqs)
    /\ outstanding' = outstanding \o reqs
    /\ gate' = setPendingBreakpoints(gate, reqs[Len(reqs)].lines)
    /\ answers' = [l \in Lines |-> "none"]
    /\ crossed' = ((crossed /\ outstanding # <<>>) \/ Len(outstanding') > 1)

\* The user edits breakpoints: VS Code sends the file's enabled ones.
editorChanges(lines) ==
    /\ wanted' = lines
    /\ setBreakPointsRequest(<<[lines |-> lines, by |-> "editor"]>>)
    /\ UNCHANGED <<seen, lifecycle, configuring, notices>>

\* _syncBreakpoints: the lines are pending in the journal too, one by one, after the records
\* r of a removal.  VS Code sends its own request when the editor's breakpoints changed.
syncBreakpoints(lines, r) ==
    LET before == IF r = seen THEN lifecycle ELSE refreshed(lifecycle, r)
        own == <<[lines |-> lines, by |-> "tool"]>>
    IN
    /\ seen' = [l \in Lines |-> IF l \in lines THEN "pending" ELSE r[l]]
    /\ lifecycle' = IF lines = {} THEN before ELSE refreshed(before, seen')
    /\ setBreakPointsRequest(IF lines = wanted THEN own
                             ELSE <<[lines |-> lines, by |-> "editor"]>> \o own)

\* _addBreakpoints and _toggleBreakpoints(enable).
toolAdds(lines) ==
    /\ lines # {} /\ wanted' = wanted \union lines
    /\ syncBreakpoints(wanted', seen)
    /\ UNCHANGED <<configuring, notices>>

\* _removeBreakpoints and _clearBreakpoints drop the journal's records; _toggleBreakpoints
\* (disable) keeps them.
toolRemoves(lines, disabled) ==
    /\ lines # {} /\ wanted' = wanted \ lines
    /\ syncBreakpoints(wanted', IF disabled THEN seen
                                ELSE [l \in Lines |-> IF l \in lines THEN "none" ELSE seen[l]])
    /\ UNCHANGED <<configuring, notices>>

\* The debuggee's answer to the oldest request.
setBreakpointsAnswered ==
    /\ outstanding # <<>>
    /\ LET request == Head(outstanding) IN
        \E result \in [request.lines -> Verdicts] :
            LET entry(l) == IF l \in request.lines THEN result[l] ELSE "none" IN
            /\ gate' = updateBreakpointVerification(gate, request.lines, result)
            /\ seen' = IF request.by = "tool"
                       THEN updateBreakpointVerification(seen, request.lines, result) ELSE seen
            /\ lifecycle' = IF request.by = "tool" THEN refreshed(lifecycle, seen') ELSE lifecycle
            /\ answers' = IF Len(outstanding) = 1 THEN [l \in Lines |-> entry(l)] ELSE answers
    /\ outstanding' = Tail(outstanding)
    /\ UNCHANGED <<wanted, configuring, requests, notices, crossed>>

\* The request times out or its connection goes: the records stay as they are.
setBreakpointsFails ==
    /\ outstanding # <<>>
    /\ outstanding' = Tail(outstanding)
    /\ crossed' = TRUE
    /\ UNCHANGED <<wanted, gate, seen, lifecycle, configuring, requests, notices, answers>>

\* A "breakpoint" event: the debug session and the journal take it for any line.
breakpointEvent(l, verdict) ==
    /\ notices < MaxEvents /\ notices' = notices + 1
    /\ gate' = [gate EXCEPT ![l] = verdict]
    /\ seen' = [seen EXCEPT ![l] = verdict]
    /\ lifecycle' = refreshed(lifecycle, seen')
    /\ crossed' = TRUE
    /\ UNCHANGED <<wanted, outstanding, configuring, requests, answers>>

-----------------------------------------------------------------------------
(* The gate.                                                               *)

\* configurationDoneRequest: it polls while lines are pending, for five seconds.
configurationDoneRequest ==
    /\ configuring = "idle"
    /\ configuring' = "waiting"
    /\ UNCHANGED <<wanted, outstanding, gate, seen, lifecycle, requests, notices, answers,
                   crossed>>

\* The poll that ends the wait: another state than pending, or the time is over.
waitForReadinessGateState ==
    /\ configuring = "waiting"
    /\ configuring' = IF getReadinessGateState = "ready" THEN "forwarded" ELSE "refused"
    /\ UNCHANGED <<wanted, outstanding, gate, seen, lifecycle, requests, notices, answers,
                   crossed>>

ReadinessNext ==
    \/ \E lines \in SUBSET Lines :
        \/ editorChanges(lines) \/ toolAdds(lines)
        \/ \E disabled \in BOOLEAN : toolRemoves(lines, disabled)
    \/ setBreakpointsAnswered \/ setBreakpointsFails \/ initializedEvent
    \/ \E l \in Lines, verdict \in Verdicts : breakpointEvent(l, verdict)
    \/ configurationDoneRequest \/ waitForReadinessGateState

ReadinessSpec == ReadinessInit /\ [][ReadinessNext]_readinessVars

-----------------------------------------------------------------------------
(* Properties.                                                             *)

\* Once the requests that were sent are answered, the gate is what the newest answer makes
\* it: no line of an earlier set keeps the program from going on, and none that was rejected
\* or is not verified is forgotten.  Requests that overlap break it (an earlier answer brings
\* back the records of removed lines), and so do a failed request and an event in between.
GateFollowsAnswers ==
    (outstanding = <<>> /\ ~crossed) => gate = answers

=============================================================================
