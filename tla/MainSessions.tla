----------------------------- MODULE MainSessions -----------------------------
(***************************************************************************)
(* Main debug sessions of the VS Code extension.                           *)
(*                                                                         *)
(* MainSessionController builds, once for all sessions, what they share: a *)
(* server for VS Code, a listener for the debuggee, a transport between    *)
(* them and the terminal (or the attach helper) the debuggee runs in; and  *)
(* takes it down when the last session or the terminal ends.  A session    *)
(* asks the debuggee to launch or attach through the transport, where      *)
(* equal requests of several sessions are one, and learns the end of the   *)
(* program from its messages, its socket or its terminal.                  *)
(***************************************************************************)
EXTENDS Naturals, FiniteSets

CONSTANTS MaxClients,   \* bound on the main sessions
          MaxBoots      \* bound on the transports built, one after another

ASSUME MainAssumption == MaxClients \in Nat /\ MaxBoots \in Nat

Clients == 1..MaxClients
Boots == 1..MaxBoots
None == 0

VARIABLES
    kind,        \* session -> "launch" or "attach" (by process id)
    at,          \* session -> "new", "waiting" (for the bootstrap), "described" (has the port),
                 \*   "connected", "asking" (launch or attach sent), "running", "attached",
                 \*   "refused", "stuck" (its request was rejected and never answered),
                 \*   "left", "ended"
    on,          \* session -> the transport it is attached to, or None
    running,     \* the sessions with _isRunning
    told,        \* history: sessions that got a TerminatedEvent
    late,        \* history: sessions that launched after the end of their transport
    bootstrap,   \* _mainBootstrapPromise: "none", "pending", "done"
    preparing,   \* the sessions whose bootstrap waits for its environment
    connecting,  \* the transport whose attach helper is waited for, or None
    built,       \* transports built so far; the last one is _mainTransport while up
    up,          \* _server, _pythonIpcServer and _mainTransport are set
    ids,         \* _mainSessionIds
    debuggee,    \* transport -> "none", "starting", "connected", "ended"
    link,        \* transport -> its socket: "waiting", "open", "shut"
    completed,   \* _completedSharedRequests: <<transport, "launch" or "attach", success>>
    terminals,   \* transports whose terminal is open
    terminal     \* _adapterTerminal, and its close handler: its transport, or None

controller == <<bootstrap, preparing, connecting, built, up, ids, terminal>>
programs == <<debuggee, terminals>>
mainVars == <<kind, at, on, running, told, late, controller, programs, link, completed>>

MainInit ==
    /\ kind \in [Clients -> {"launch", "attach"}]
    /\ at = [s \in Clients |-> "new"]
    /\ on = [s \in Clients |-> None]
    /\ running = {} /\ told = {} /\ late = {}
    /\ bootstrap = "none" /\ preparing = {} /\ connecting = None
    /\ built = 0 /\ up = FALSE /\ ids = {} /\ terminal = None
    /\ debuggee = [g \in Boots |-> "none"]
    /\ link = [g \in Boots |-> "waiting"]
    /\ completed = {} /\ terminals = {}

Attached(g) == {s \in Clients : on[s] = g}

-----------------------------------------------------------------------------
(* PythonDebugAdapterTransport and DapperDebugSession at the end.          *)

\* The requests under way on g are rejected: nobody catches that of launch or attach.
Rejected(g, states) ==
    [s \in Clients |-> IF on[s] = g /\ states[s] = "asking" THEN "stuck" ELSE states[s]]

\* handleTransportClosed of each session attached to g: only a running one is told.
handleTransportClosed(g) ==
    /\ running' = running \ Attached(g)
    /\ told' = told \union (running \intersect Attached(g))

\* (the mutant lets go of the sessions before it tells them)
M_disposeTransport(g) ==
    /\ link' = [link EXCEPT ![g] = "shut"]
    /\ on' = [s \in Clients |-> IF on[s] = g THEN None ELSE on[s]]
    /\ UNCHANGED <<running, told>>

\* transport.dispose: _handleSocketClosed unless closed already, and no session stays.
disposeTransport(g) ==
    /\ link' = [link EXCEPT ![g] = "shut"]
    /\ on' = [s \in Clients |-> IF on[s] = g THEN None ELSE on[s]]
    /\ IF link[g] = "shut" THEN UNCHANGED <<running, told>> ELSE handleTransportClosed(g)

-----------------------------------------------------------------------------
(* MainSessionController: reset and bootstrap.                             *)

\* reset(): server, listener, terminal, transport, promise and ids, as it finds them.
\* `states` is where it leaves the sessions otherwise.
reset(states) ==
    /\ up' = FALSE /\ bootstrap' = "none" /\ ids' = {}
    /\ terminal' = None /\ terminals' = terminals \ {terminal}
    /\ IF up THEN /\ disposeTransport(built)
                  /\ at' = IF link[built] = "shut" THEN states ELSE Rejected(built, states)
             ELSE /\ at' = states
                  /\ UNCHANGED <<link, on, running, told>>

\* createDebugAdapterDescriptor: it starts the bootstrap, or waits for the one under way,
\* or takes the port of the server there is, whatever that was built for.
createDebugAdapterDescriptor(s) ==
    /\ at[s] = "new"
    /\ IF bootstrap = "none" /\ ~up
       THEN /\ built + Cardinality(preparing) < MaxBoots
            /\ preparing' = preparing \union {s}
            /\ bootstrap' = "pending"
       ELSE UNCHANGED <<preparing, bootstrap>>
    /\ IF bootstrap = "done" \/ (bootstrap = "none" /\ up)
       THEN /\ at' = [at EXCEPT ![s] = "described"]
            /\ ids' = ids \union {s}
       ELSE /\ at' = [at EXCEPT ![s] = "waiting"]
            /\ UNCHANGED ids
    /\ UNCHANGED <<kind, on, running, told, late, connecting, built, up, terminal, programs,
                   link, completed>>

Waiting == {s \in Clients : at[s] = "waiting"}

\* The bootstrap is done: everyone who waits for it adds its id and takes the port.
Bootstrapped ==
    /\ bootstrap' = "done"
    /\ ids' = ids \union Waiting
    /\ at' = [s \in Clients |-> IF s \in Waiting THEN "described" ELSE at[s]]

\* The environment is there: _initializeTransportServers, then the terminal with its close
\* handler, or the attach helper.
environmentPrepared(s) ==
    /\ s \in preparing
    /\ preparing' = preparing \ {s}
    /\ built' = built + 1 /\ up' = TRUE
    /\ debuggee' = [debuggee EXCEPT ![built'] = "starting"]
    /\ IF kind[s] = "launch"
       THEN /\ terminal' = built' /\ terminals' = terminals \union {built'}
            /\ Bootstrapped
            /\ UNCHANGED connecting
       ELSE /\ connecting' = built'
            /\ UNCHANGED <<terminal, terminals, bootstrap, ids, at>>
    /\ UNCHANGED <<kind, on, running, told, late, link, completed>>

\* The attached process connected back in time.
attachHelperSucceeds ==
    /\ connecting # None /\ link[connecting] = "open"
    /\ connecting' = None
    /\ Bootstrapped
    /\ UNCHANGED <<kind, on, running, told, late, preparing, built, up, terminal, programs,
                   link, completed>>

\* The environment, the helper or the connection fails: every waiter resets and rethrows.
bootstrapFails ==
    /\ bootstrap = "pending" /\ (preparing # {} \/ connecting # None)
    /\ preparing' = {} /\ connecting' = None
    /\ reset([s \in Clients |-> IF s \in Waiting THEN "ended" ELSE at[s]])
    /\ UNCHANGED <<kind, late, built, debuggee, completed>>

-----------------------------------------------------------------------------
(* DapperDebugSession: from the connection to the answered launch.         *)

\* VS Code connects to the port it was given; a closed server ends the session.
clientConnectsToServer(s) ==
    /\ at[s] = "described"
    /\ IF s \in ids /\ up
       THEN at' = [at EXCEPT ![s] = "connected"] /\ on' = [on EXCEPT ![s] = built]
       ELSE at' = [at EXCEPT ![s] = "ended"] /\ UNCHANGED on
    /\ UNCHANGED <<kind, running, told, late, controller, programs, link, completed>>

\* What an answer makes of the sessions ss that wait for it.
Answered(ss, success) ==
    at' = [s \in Clients |->
              IF s \notin ss THEN at[s]
              ELSE IF ~success THEN "refused"
              ELSE IF kind[s] = "launch" THEN "running" ELSE "attached"]

\* launchRequest and attachRequest: shared with the equal request of another session, and
\* answered at once from a completed one.
launchRequest(s) ==
    LET g == on[s] IN
    /\ at[s] = "connected" /\ g # None
    /\ \/ \E success \in BOOLEAN :
            /\ <<g, kind[s], success>> \in completed
            /\ Answered({s}, success)
            /\ running' = IF success /\ kind[s] = "launch" THEN running \union {s} ELSE running
            /\ late' = IF link[g] = "shut" THEN late \union {s} ELSE late
       \/ /\ \A success \in BOOLEAN : <<g, kind[s], success>> \notin completed
          /\ at' = [at EXCEPT ![s] = IF link[g] = "shut" THEN "stuck" ELSE "asking"]
          /\ UNCHANGED <<running, late>>
    /\ UNCHANGED <<kind, on, told, controller, programs, link, completed>>

\* The debuggee answers a shared request.  setRunning(true) follows a launch only.
requestAnswered(g, k) ==
    LET answered == {s \in Attached(g) : at[s] = "asking" /\ kind[s] = k} IN
    /\ link[g] = "open" /\ answered # {}
    /\ \E success \in BOOLEAN :
        /\ Answered(answered, success)
        /\ running' = IF success /\ k = "launch" THEN running \union answered ELSE running
        /\ completed' = completed \union {<<g, k, success>>}
    /\ UNCHANGED <<kind, on, told, late, controller, programs, link>>

\* disconnectRequest: detached at once; a session that leaves alone also ends the program.
disconnectRequest(s) ==
    LET g == on[s] IN
    /\ g # None /\ at[s] \notin {"left", "ended"}
    /\ at' = [at EXCEPT ![s] = "left"]
    /\ running' = running \ {s}
    /\ on' = [on EXCEPT ![s] = None]
    /\ debuggee' = IF Attached(g) = {s} /\ link[g] = "open"
                   THEN [debuggee EXCEPT ![g] = "ended"] ELSE debuggee
    /\ UNCHANGED <<kind, told, late, controller, terminals, link, completed>>

-----------------------------------------------------------------------------
(* The debuggee and its end.                                               *)

\* The debuggee connects; the listener takes one connection, and none after reset.
debuggeeConnects(g) ==
    /\ debuggee[g] = "starting"
    /\ IF up /\ g = built
       THEN /\ debuggee' = [debuggee EXCEPT ![g] = "connected"]
            /\ link' = [link EXCEPT ![g] = "open"]
       ELSE /\ debuggee' = [debuggee EXCEPT ![g] = "ended"]
            /\ UNCHANGED link
    /\ UNCHANGED <<kind, at, on, running, told, late, controller, terminals, completed>>

\* The program ends, or cannot start.
debuggeeEnds(g) ==
    /\ debuggee[g] \in {"starting", "connected"}
    /\ debuggee' = [debuggee EXCEPT ![g] = "ended"]
    /\ UNCHANGED <<kind, at, on, running, told, late, controller, terminals, link, completed>>

\* Its "terminated" message: every attached session passes it on, still running.
terminatedMessage(g) ==
    /\ link[g] = "open" /\ debuggee[g] = "ended" /\ ~(Attached(g) \subseteq told)
    /\ told' = told \union Attached(g)
    /\ UNCHANGED <<kind, at, on, running, late, controller, programs, link, completed>>

\* The socket's close: pending requests are rejected, running sessions told.
socketCloses(g) ==
    /\ link[g] = "open" /\ debuggee[g] = "ended"
    /\ link' = [link EXCEPT ![g] = "shut"]
    /\ at' = Rejected(g, at)
    /\ handleTransportClosed(g)
    /\ UNCHANGED <<kind, on, late, controller, programs, completed>>

\* onDidCloseTerminal, of the terminal whose handler is registered: notifyAdapterExited,
\* then reset.  The user may close it before the program ended.
terminalCloses(g) ==
    /\ g \in terminals
    /\ debuggee' = [debuggee EXCEPT ![g] = "ended"]
    /\ IF g = terminal
       THEN LET states == Rejected(g, at) IN reset(states)
       ELSE /\ terminals' = terminals \ {g}
            /\ UNCHANGED <<up, bootstrap, ids, terminal, link, on, running, told, at>>
    /\ UNCHANGED <<kind, late, preparing, connecting, built, completed>>

\* The session ends in VS Code: told, left, or stopped by the user.  Its socket closes and
\* detaches it; the last one that has an id takes everything down.
mainSessionTerminated(s) ==
    /\ at[s] \notin {"new", "waiting", "ended"}
    /\ LET states == [at EXCEPT ![s] = "ended"] IN
        IF s \in ids /\ ids = {s}
        THEN /\ reset(states)
             /\ debuggee' = IF terminal = None THEN debuggee
                            ELSE [debuggee EXCEPT ![terminal] = "ended"]
        ELSE /\ at' = states
             /\ ids' = ids \ {s}
             /\ on' = [on EXCEPT ![s] = None]
             /\ running' = running \ {s}
             /\ UNCHANGED <<told, bootstrap, up, terminal, link, programs>>
    /\ UNCHANGED <<kind, late, preparing, connecting, built, completed>>

MainNext ==
    \/ \E s \in Clients :
        \/ createDebugAdapterDescriptor(s) \/ environmentPrepared(s)
        \/ clientConnectsToServer(s) \/ launchRequest(s)
        \/ disconnectRequest(s) \/ mainSessionTerminated(s)
    \/ \E g \in Boots :
        \/ requestAnswered(g, "launch") \/ requestAnswered(g, "attach")
        \/ debuggeeConnects(g) \/ debuggeeEnds(g)
        \/ terminatedMessage(g) \/ socketCloses(g) \/ terminalCloses(g)
    \/ attachHelperSucceeds \/ bootstrapFails

MainSpec == MainInit /\ [][MainNext]_mainVars

-----------------------------------------------------------------------------
(* Properties.                                                             *)

\* No session goes on showing a launched program as running after its connection closed:
\* whichever of the socket, the terminal and the end of another session took it down, it was
\* told.  A session that joined and was answered from the completed launch after that is not.
GoneIsTold ==
    \A s \in Clients :
        (at[s] = "running" /\ (on[s] = None \/ link[on[s]] = "shut"))
            => (s \in told \/ s \in late)


=============================================================================
