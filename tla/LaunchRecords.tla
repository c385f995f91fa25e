---------------------------- MODULE LaunchRecords ----------------------------
(***************************************************************************)
(* Launches of the VS Code extension and the history the user sees.        *)
(*                                                                         *)
(* LaunchService.launch makes a record under a fresh token and either asks *)
(* VS Code for a debug session, waiting at the same time for one with its  *)
(* token to start, or has DapperNoDebugLauncher prepare an environment and *)
(* open a terminal.  DapperLaunchHistoryService keeps the record up to     *)
(* date from the launch itself, from VS Code's session events, from the    *)
(* messages of a run and from the close of a terminal.                     *)
(***************************************************************************)
EXTENDS Naturals, FiniteSets

CONSTANTS Launches,     \* the launch tokens
          MaxRestarts   \* bound on the restarts of debug sessions

ASSUME LaunchAssumption == IsFiniteSet(Launches) /\ MaxRestarts \in Nat

VARIABLES
    mode,       \* launch -> "debug" or "run" (noDebug)
    call,       \* launch -> where launch() is: "new", "preparing" (the run's environment),
                \*   "opening" (the run's listener), "starting" (startDebugging is under way),
                \*   "waiting" (for a first stop), "returned", "threw"
    waiter,     \* launch -> _waitForStartedSession: "none", "pending", "resolved", "rejected"
    cancelled,  \* launches whose token is cancelled
    preparation,\* the no-debug launcher's preparePromise is set
    session,    \* launch -> its debug session: "none", "starting", "live", "over"
    restarts,   \* restarts so far
    tab,        \* launch -> its terminal: "none", "open", "closed"
    status,     \* launch -> status of its record, or "absent"
    linked,     \* launches whose session the history knows
    noted,      \* launches with a terminal in _terminalsByLaunchToken
    revived     \* history: launches that launch() attached after their session's end

launchVars == <<mode, call, waiter, cancelled, preparation, session, restarts, tab, status, linked,
                noted, revived>>

LaunchInit ==
    /\ mode \in [Launches -> {"debug", "run"}]
    /\ call = [l \in Launches |-> "new"]
    /\ waiter = [l \in Launches |-> "none"]
    /\ cancelled = {} /\ preparation = FALSE /\ restarts = 0
    /\ session = [l \in Launches |-> "none"]
    /\ tab = [l \in Launches |-> "none"]
    /\ status = [l \in Launches |-> "absent"]
    /\ linked = {} /\ noted = {} /\ revived = {}

Recorded(l) == status[l] # "absent"

-----------------------------------------------------------------------------
(* DapperLaunchHistoryService.  An update of a deleted record does nothing. *)

\* The record's status becomes s.
Marked(l, s) == [status EXCEPT ![l] = IF Recorded(l) THEN s ELSE @]

\* markLaunchStarted, of the statuses st.
markLaunchStarted(st, l) == [st EXCEPT ![l] = IF @ = "launching" THEN "running" ELSE @]

\* (the mutant does not remember whose session it is)
M_attachSession(l, st) ==
    /\ status' = [st EXCEPT ![l] = IF Recorded(l) THEN "running" ELSE @]
    /\ UNCHANGED linked

\* attachSession, whatever the record says by now.
attachSession(l, st) ==
    /\ status' = [st EXCEPT ![l] = IF Recorded(l) THEN "running" ELSE @]
    /\ linked' = IF Recorded(l) THEN linked \union {l} ELSE linked

\* markSessionTerminated.
markSessionTerminated(l) ==
    status' = [status EXCEPT ![l] = IF l \in linked /\ @ \in {"launching", "running", "terminated"}
                                    THEN "terminated" ELSE @]

\* attachTerminal.
attachTerminal(l) ==
    /\ tab' = [tab EXCEPT ![l] = "open"]
    /\ noted' = IF Recorded(l) THEN noted \union {l} ELSE noted

\* deleteLaunch of one record, or clear of all.
deleteLaunches(ls) ==
    /\ \E l \in ls : Recorded(l)
    /\ status' = [l \in Launches |-> IF l \in ls THEN "absent" ELSE status[l]]
    /\ linked' = linked \ ls
    /\ noted' = noted \ ls
    /\ UNCHANGED <<mode, call, waiter, cancelled, preparation, session, restarts, tab, revived>>

-----------------------------------------------------------------------------
(* LaunchService.launch.                                                   *)

\* Up to the first await after beginLaunch.  A run joins the preparation under way.
launch(l) ==
    /\ call[l] = "new"
    /\ status' = [status EXCEPT ![l] = "launching"]
    /\ IF mode[l] = "debug"
       THEN /\ call' = [call EXCEPT ![l] = "starting"]
            /\ waiter' = [waiter EXCEPT ![l] = "pending"]
            /\ session' = [session EXCEPT ![l] = "starting"]
            /\ UNCHANGED preparation
       ELSE /\ call' = [call EXCEPT ![l] = "preparing"]
            /\ preparation' = TRUE
            /\ UNCHANGED <<waiter, session>>
    /\ UNCHANGED <<mode, cancelled, restarts, tab, linked, noted, revived>>

\* The ten seconds of _waitForStartedSession are over, startDebugging or not.
waiterTimesOut(l) ==
    /\ waiter[l] = "pending"
    /\ waiter' = [waiter EXCEPT ![l] = "rejected"]
    /\ UNCHANGED <<mode, call, cancelled, preparation, session, restarts, tab, status, linked,
                   noted, revived>>

cancel(l) ==
    /\ call[l] \notin {"new", "returned", "threw"} /\ l \notin cancelled
    /\ cancelled' = cancelled \union {l}
    /\ UNCHANGED <<mode, call, waiter, preparation, session, restarts, tab, status, linked, noted,
                   revived>>

\* startDebugging declines or throws: no session came of it.
startDebuggingFails(l) ==
    /\ call[l] = "starting" /\ session[l] = "starting"
    /\ call' = [call EXCEPT ![l] = "threw"]
    /\ waiter' = [waiter EXCEPT ![l] = "rejected"]
    /\ session' = [session EXCEPT ![l] = "none"]
    /\ status' = Marked(l, "failed")
    /\ UNCHANGED <<mode, cancelled, preparation, restarts, tab, linked, noted, revived>>

\* startDebugging returns: the record is marked started, and attached if the waiter saw the
\* session; a waiter that gave up makes launch() throw.
startDebuggingReturns(l) ==
    /\ call[l] = "starting" /\ session[l] \in {"live", "over"}
    /\ IF waiter[l] = "resolved"
       THEN /\ attachSession(l, markLaunchStarted(status, l))
            /\ \E next \in {"waiting", "returned"} : call' = [call EXCEPT ![l] = next]
            /\ revived' = IF session[l] = "over" THEN revived \union {l} ELSE revived
       ELSE /\ status' = markLaunchStarted(status, l)
            /\ call' = [call EXCEPT ![l] = "threw"]
            /\ UNCHANGED <<linked, revived>>
    /\ UNCHANGED <<mode, waiter, cancelled, preparation, session, restarts, tab, noted>>

\* _waitForStop: the journal shows a stop or the end, the session ends, time or token is up.
waitForStopEnds(l) ==
    /\ call[l] = "waiting"
    /\ call' = [call EXCEPT ![l] = "returned"]
    /\ UNCHANGED <<mode, waiter, cancelled, preparation, session, restarts, tab, status, linked,
                   noted, revived>>

-----------------------------------------------------------------------------
(* DapperNoDebugLauncher.                                                  *)

\* prepareEnvironment settles for every run that waits for it.
prepareEnvironment ==
    LET joined == {l \in Launches : call[l] = "preparing"} IN
    /\ preparation
    /\ preparation' = FALSE
    /\ \/ /\ call' = [l \in Launches |-> IF l \in joined THEN "opening" ELSE call[l]]
          /\ UNCHANGED status
       \/ /\ call' = [l \in Launches |-> IF l \in joined THEN "threw" ELSE call[l]]
          /\ status' = [l \in Launches |->
                           IF l \in joined /\ Recorded(l) THEN "failed" ELSE status[l]]
    /\ UNCHANGED <<mode, waiter, cancelled, session, restarts, tab, linked, noted, revived>>

\* The listener is there: the terminal opens and the launch returns.
runStarts(l) ==
    /\ call[l] = "opening"
    /\ call' = [call EXCEPT ![l] = "returned"]
    /\ attachTerminal(l)
    /\ status' = markLaunchStarted(status, l)
    /\ UNCHANGED <<mode, waiter, cancelled, preparation, session, restarts, linked, revived>>

\* The listener, the arguments or the terminal fail.
runFails(l) ==
    /\ call[l] = "opening"
    /\ call' = [call EXCEPT ![l] = "threw"]
    /\ status' = Marked(l, "failed")
    /\ UNCHANGED <<mode, waiter, cancelled, preparation, session, restarts, tab, linked, noted,
                   revived>>

\* The run's "exited" message.
runExits(l) ==
    /\ mode[l] = "run" /\ tab[l] = "open"
    /\ status' = Marked(l, "exited")
    /\ UNCHANGED <<mode, call, waiter, cancelled, preparation, session, restarts, tab, linked,
                   noted, revived>>

-----------------------------------------------------------------------------
(* Debug sessions and terminals.                                           *)

\* The session's adapter terminal, made while the session starts.
adapterTerminalCreated(l) ==
    /\ session[l] = "starting" /\ tab[l] # "open"
    /\ attachTerminal(l)
    /\ UNCHANGED <<mode, call, waiter, cancelled, preparation, session, restarts, status, linked,
                   revived>>

\* onDidStartDebugSession: the history attaches, then the waiters look.  Any session that
\* starts makes a cancelled launch give up.
sessionStarts(l) ==
    /\ session[l] = "starting"
    /\ session' = [session EXCEPT ![l] = "live"]
    /\ attachSession(l, status)
    /\ waiter' = [k \in Launches |->
                     IF waiter[k] # "pending" THEN waiter[k]
                     ELSE IF k \in cancelled THEN "rejected"
                     ELSE IF k = l THEN "resolved" ELSE "pending"]
    /\ UNCHANGED <<mode, call, cancelled, preparation, restarts, tab, noted, revived>>

\* onDidTerminateDebugSession.  The controller's reset disposes of the terminal after its
\* close handler: nobody detaches it from the record.
sessionTerminates(l) ==
    /\ session[l] = "live"
    /\ session' = [session EXCEPT ![l] = "over"]
    /\ markSessionTerminated(l)
    /\ tab' = [tab EXCEPT ![l] = IF @ = "open" THEN "closed" ELSE @]
    /\ UNCHANGED <<mode, call, waiter, cancelled, preparation, restarts, linked, noted, revived>>

\* VS Code restarts an ended session: the same configuration, with the same token.
sessionRestarts(l) ==
    /\ session[l] = "over" /\ call[l] \in {"returned", "threw"} /\ restarts < MaxRestarts
    /\ restarts' = restarts + 1
    /\ session' = [session EXCEPT ![l] = "starting"]
    /\ UNCHANGED <<mode, call, waiter, cancelled, preparation, tab, status, linked, noted, revived>>

\* ... in vain.
restartFails(l) ==
    /\ session[l] = "starting" /\ call[l] \in {"returned", "threw"}
    /\ session' = [session EXCEPT ![l] = "over"]
    /\ tab' = [tab EXCEPT ![l] = IF @ = "open" THEN "closed" ELSE @]
    /\ UNCHANGED <<mode, call, waiter, cancelled, preparation, restarts, status, linked, noted,
                   revived>>

\* onDidCloseTerminal, with the handler of a run or of the main session controller.
onDidCloseTerminal(l) ==
    /\ tab[l] = "open"
    /\ tab' = [tab EXCEPT ![l] = "closed"]
    /\ noted' = noted \ {l}
    /\ status' = Marked(l, "exited")
    /\ UNCHANGED <<mode, call, waiter, cancelled, preparation, session, restarts, linked, revived>>

LaunchNext ==
    \/ \E l \in Launches :
        \/ launch(l) \/ waiterTimesOut(l) \/ cancel(l)
        \/ startDebuggingFails(l) \/ startDebuggingReturns(l) \/ waitForStopEnds(l)
        \/ runStarts(l) \/ runFails(l) \/ runExits(l)
        \/ adapterTerminalCreated(l) \/ sessionStarts(l) \/ sessionTerminates(l)
        \/ sessionRestarts(l) \/ restartFails(l) \/ onDidCloseTerminal(l)
        \/ deleteLaunches({l})
    \/ deleteLaunches(Launches) \/ prepareEnvironment

LaunchSpec == LaunchInit /\ [][LaunchNext]_launchVars

-----------------------------------------------------------------------------
(* Properties.                                                             *)

\* What launch() can still mark.
Settled(l) == call[l] \in {"returned", "threw"}

\* Once launch() is through, a record is "running" exactly as long as there is something to
\* it: a live session or a run's open terminal.  A debug session whose terminal was closed
\* may show as exited while it ends, and a run as exited before its terminal closes; and a
\* session that was over before startDebugging returned is shown as running for good.
RecordFollowsSession ==
    \A l \in Launches : (Recorded(l) /\ Settled(l) /\ l \notin revived) =>
        /\ status[l] \in {"launching", "running"} =>
               (session[l] = "live" \/ (mode[l] = "run" /\ tab[l] = "open"))
        /\ session[l] = "live" => status[l] \in {"running", "exited"}

=============================================================================
