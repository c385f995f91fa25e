----------------------------- MODULE ChildSessions -----------------------------
(***************************************************************************)
(* Child processes of the debuggee, from subprocess.Popen to their own     *)
(* debug sessions.                                                         *)
(*                                                                         *)
(* In the debuggee, the patched Popen.__init__ starts the child under the  *)
(* launcher and announces it; a thread per child waits for its end and     *)
(* announces that, by process id.  The announcements reach the extension   *)
(* through every main session attached to the transport.  The child itself *)
(* connects to the extension's shared listener and says hello.             *)
(*                                                                         *)
(* In the extension, ChildSessionManager registers the announced children, *)
(* gives each the socket that said hello in its name, asks VS Code for a   *)
(* debug session and serves it.  Its event loop runs the continuation of   *)
(* an await before it reads another socket.                                *)
(***************************************************************************)
EXTENDS Naturals, Sequences, FiniteSets

CONSTANTS MaxChildren,    \* bound on the Popen calls and on max_children
          Pids,           \* process ids, used again after a process is reaped
          MainSessions,   \* main debug sessions on the debuggee
          NoSession

ASSUME ChildAssumption == MaxChildren \in Nat /\ NoSession \notin MainSessions /\ Pids # {}

Children == 1..MaxChildren   \* the session ids, in the order of the Popen calls
NoChild == 0

VARIABLES
    calls,          \* how often the program calls Popen
    max_children,   \* SubprocessConfig.max_children
    process,        \* child -> "new", "spawned", "alive" (Popen returned), "dead", "reaped",
                    \*          "done" (its waiting thread ended as well)
    pid,            \* child -> its process id
    tracked,        \* SubprocessManager._children: process id -> child
    announced,      \* the children announced
    sessions,       \* the main sessions not ended
    events,         \* main session -> announcements under way, in order
    handling,       \* handleChildProcessEvent calls that wait for the listener's port
    registry,       \* registry._sessionsByLauncherId: child -> main session that announced it
    idOfPid,        \* registry._launcherIdsByPid
    phase,          \* child -> phase of its registered connection
    shown,          \* children whose registered connection has a vscodeSessionId
    socket,         \* child -> "none", "hello" (said, not read), "attached", "destroyed"
    holder,         \* child -> main session whose registration took the socket
    closing,        \* children whose socket closed while nobody listened to it
    start,          \* child -> where its debug session is: "none", "asked", "listening",
                    \*          "ready", "serving", "deaf", "failed", "ended"
    missed          \* history: children whose end passed the registry by

subprocesses == <<calls, max_children, process, pid, tracked, announced>>
registration == <<registry, idOfPid, phase, shown>>
wires == <<socket, holder, closing>>
childVars == <<subprocesses, sessions, events, handling, registration, wires, start, missed>>

ChildInit ==
    /\ calls \in Children
    /\ max_children \in Children
    /\ process = [c \in Children |-> "new"]
    /\ pid = [c \in Children |-> CHOOSE p \in Pids : TRUE]
    /\ tracked = [p \in Pids |-> NoChild]
    /\ announced = {}
    /\ sessions \in SUBSET MainSessions \ {{}}
    /\ events = [s \in MainSessions |-> <<>>]
    /\ handling = <<>>
    /\ registry = [c \in Children |-> NoSession]
    /\ idOfPid = [p \in Pids |-> NoChild]
    /\ phase = [c \in Children |-> "terminated"]
    /\ shown = {} /\ closing = {} /\ missed = {}
    /\ socket = [c \in Children |-> "none"]
    /\ holder = [c \in Children |-> NoSession]
    /\ start = [c \in Children |-> "none"]

Running(c) == process[c] \in {"spawned", "alive"}
Gone(c) == process[c] \in {"dead", "reaped", "done"}
Registered(c) == registry[c] # NoSession

-----------------------------------------------------------------------------
(* The debuggee: SubprocessManager and the children.                       *)

\* What the transport does with a message: every attached session passes it on.
Announce(event) ==
    events' = [s \in MainSessions |->
                  IF s \in sessions THEN Append(events[s], event) ELSE events[s]]

\* patched_popen_init up to the return of the original: the child runs already.
patched_popen_init(c) ==
    /\ c <= calls /\ process[c] = "new" /\ \A d \in 1..(c - 1) : process[d] # "new"
    /\ \E p \in Pids :
        /\ \A d \in Children : process[d] \in {"spawned", "alive", "dead"} => pid[d] # p
        /\ pid' = [pid EXCEPT ![c] = p]
    /\ process' = [process EXCEPT ![c] = "spawned"]
    /\ UNCHANGED <<calls, max_children, tracked, announced, sessions, events, handling, registration,
                   wires, start, missed>>

\* on_child_detected, then _track_child_exit: a child above the limit is not announced.
on_child_detected(c) ==
    /\ process[c] = "spawned" \/ (process[c] = "dead" /\ c \notin announced)
    /\ announced' = announced \union {c}
    /\ IF Cardinality({p \in Pids : tracked[p] # NoChild}) >= max_children
       THEN UNCHANGED <<tracked, events>>
       ELSE /\ tracked' = [tracked EXCEPT ![pid[c]] = c]
            /\ Announce([kind |-> "child", child |-> c, pid |-> pid[c]])
    /\ process' = [process EXCEPT ![c] = IF @ = "spawned" THEN "alive" ELSE @]
    /\ UNCHANGED <<calls, max_children, pid, sessions, handling, registration, wires, start, missed>>

\* The child's launcher connects to the shared listener and says dapper/sessionHello.
Hello(c) ==
    /\ Running(c) /\ socket[c] = "none"
    /\ socket' = [socket EXCEPT ![c] = "hello"]
    /\ UNCHANGED <<subprocesses, sessions, events, handling, registration, holder, closing, start,
                   missed>>

\* The child ends.
ChildEnds(c) ==
    /\ Running(c)
    /\ process' = [process EXCEPT ![c] = "dead"]
    /\ UNCHANGED <<calls, max_children, pid, tracked, announced, sessions, events, handling,
                   registration, wires, start, missed>>

\* wait() returns, to the program or to the waiting thread: the process id is free.
Reap(c) ==
    /\ process[c] = "dead" /\ c \in announced
    /\ process' = [process EXCEPT ![c] = "reaped"]
    /\ UNCHANGED <<calls, max_children, pid, tracked, announced, sessions, events, handling,
                   registration, wires, start, missed>>

\* The waiting thread's on_child_exited(pid): whoever is recorded under it is announced.
on_child_exited(c) ==
    LET found == tracked[pid[c]] IN
    /\ process[c] = "reaped"
    /\ process' = [process EXCEPT ![c] = "done"]
    /\ tracked' = [tracked EXCEPT ![pid[c]] = NoChild]
    /\ IF found = NoChild
       THEN UNCHANGED events
       ELSE Announce([kind |-> "exited", child |-> found, pid |-> pid[c]])
    /\ missed' = missed \union ({c} \ {found})
    /\ UNCHANGED <<calls, max_children, pid, announced, sessions, handling, registration, wires, start>>

-----------------------------------------------------------------------------
(* ChildSessionRegistry and PendingChildConnection.                        *)

\* disposePendingChildSession for each child of cs: unregister and connection.dispose.
disposePendingChildSession(cs) ==
    LET held == {c \in cs : Registered(c)} IN
    /\ registry' = [c \in Children |-> IF c \in held THEN NoSession ELSE registry[c]]
    /\ idOfPid' = [p \in Pids |-> IF \E c \in held : pid[c] = p THEN NoChild ELSE idOfPid[p]]
    /\ phase' = [c \in Children |-> IF c \in held THEN "terminated" ELSE phase[c]]
    /\ shown' = shown \ held
    /\ socket' = [c \in Children |->
                    IF c \in held /\ socket[c] = "attached" /\ holder[c] = registry[c]
                    THEN "destroyed" ELSE socket[c]]

-----------------------------------------------------------------------------
(* ChildSessionManager: announcements.                                     *)

TakeEvent(s) == events' = [events EXCEPT ![s] = Tail(@)]

\* handleChildProcessEvent up to its await.
handleChildProcessEvent(s) ==
    /\ events[s] # <<>> /\ Head(events[s]).kind = "child"
    /\ TakeEvent(s)
    /\ handling' = IF Registered(Head(events[s]).child) THEN handling
                   ELSE Append(handling, <<Head(events[s]).child, s>>)
    /\ UNCHANGED <<subprocesses, sessions, registration, wires, start, missed>>

\* ... and after it: _registerPendingChildSession.  No second look at the registry.
registerPendingChildSession ==
    /\ handling # <<>>
    /\ LET c == Head(handling)[1] IN
        /\ registry' = [registry EXCEPT ![c] = Head(handling)[2]]
        /\ idOfPid' = [idOfPid EXCEPT ![pid[c]] = c]
        /\ phase' = [phase EXCEPT ![c] = "listening"]
        /\ shown' = shown \ {c}
    /\ handling' = Tail(handling)
    /\ UNCHANGED <<subprocesses, sessions, events, wires, start, missed>>

\* (the mutant marks the end of a child and leaves the rest to its debug session)
M_handleChildProcessExitedEvent(s) ==
    /\ events[s] # <<>> /\ Head(events[s]).kind = "exited"
    /\ TakeEvent(s)
    /\ LET c == idOfPid[Head(events[s]).pid] IN
        phase' = IF c = NoChild THEN phase ELSE [phase EXCEPT ![c] = "terminated"]
    /\ UNCHANGED <<subprocesses, sessions, handling, registry, idOfPid, shown, wires, start, missed>>

\* handleChildProcessExitedEvent: the announcement has the process id only.  A child that
\* VS Code shows is only marked: the end of its debug session disposes of it.
handleChildProcessExitedEvent(s) ==
    /\ events[s] # <<>> /\ Head(events[s]).kind = "exited"
    /\ TakeEvent(s)
    /\ LET c == idOfPid[Head(events[s]).pid] IN
        /\ \/ /\ c \in shown
              /\ phase' = [phase EXCEPT ![c] = "terminated"]
              /\ UNCHANGED <<registry, idOfPid, shown, socket>>
           \/ /\ c \notin shown
              /\ disposePendingChildSession({c} \ {NoChild})
        /\ missed' = IF c = Head(events[s]).child THEN missed
                     ELSE missed \union {Head(events[s]).child}
    /\ UNCHANGED <<subprocesses, sessions, handling, holder, closing, start>>

\* _handleDebugSessionTerminated of a main session, after what it announced: only the last
\* one's children go.
handleParentSessionTerminated(s) ==
    /\ s \in sessions /\ events[s] = <<>> /\ handling = <<>>
    /\ sessions' = sessions \ {s}
    /\ IF sessions' = {}
       THEN disposePendingChildSession({c \in Children : registry[c] = s})
       ELSE UNCHANGED <<registration, socket>>
    /\ UNCHANGED <<subprocesses, events, handling, holder, closing, start, missed>>

-----------------------------------------------------------------------------
(* ChildSessionManager: sockets and debug sessions.                        *)

\* _handleSharedChildSocket's onData with the whole hello; attachSocket, and
\* _startChildDebugSession up to startDebugging.
handleSharedChildSocket(c) ==
    /\ socket[c] = "hello" /\ handling = <<>>
    /\ IF Registered(c) /\ phase[c] = "listening"
       THEN /\ socket' = [socket EXCEPT ![c] = "attached"]
            /\ holder' = [holder EXCEPT ![c] = registry[c]]
            /\ phase' = [phase EXCEPT ![c] = "launch-requested"]
            /\ start' = [start EXCEPT ![c] = "asked"]
       ELSE /\ socket' = [socket EXCEPT ![c] = "destroyed"]
            /\ UNCHANGED <<holder, phase, start>>
    /\ UNCHANGED <<subprocesses, sessions, events, handling, registry, idOfPid, shown, closing,
                   missed>>

\* The child's end closes its socket; nobody listens before a transport has it.
SocketCloses(c) ==
    /\ Gone(c) /\ socket[c] = "attached" /\ start[c] \in {"asked", "listening", "ready"}
    /\ c \notin closing
    /\ closing' = closing \union {c}
    /\ UNCHANGED <<subprocesses, sessions, events, handling, registration, socket, holder, start,
                   missed>>

\* VS Code declines startDebugging, or the start fails: what is registered by now under the
\* id is disposed of.
childLaunchDeclined(c) ==
    /\ start[c] \in {"asked", "failed"} /\ handling = <<>>
    /\ start' = [start EXCEPT ![c] = "ended"]
    /\ disposePendingChildSession({c})
    /\ UNCHANGED <<subprocesses, sessions, events, handling, holder, closing, missed>>

HasSocket(c) == Registered(c) /\ holder[c] = registry[c]

\* createChildDebugAdapterDescriptor up to the await of the adapter server.
createChildDebugAdapterDescriptor(c) ==
    /\ start[c] = "asked" /\ handling = <<>>
    /\ start' = [start EXCEPT ![c] = IF HasSocket(c) THEN "listening" ELSE "failed"]
    /\ UNCHANGED <<subprocesses, sessions, events, handling, registration, wires, missed>>

\* The adapter server cannot listen: the connection and the registration are disposed of.
adapterServerFails(c) ==
    /\ start[c] = "listening" /\ handling = <<>>
    /\ start' = [start EXCEPT ![c] = "failed"]
    /\ disposePendingChildSession({c})
    /\ UNCHANGED <<subprocesses, sessions, events, handling, holder, closing, missed>>

\* (the mutant trusts what it knew before the await)
M_childDescriptorReady(c) ==
    /\ start[c] = "listening" /\ handling = <<>>
    /\ phase' = [phase EXCEPT ![c] = "adapter-ready"]
    /\ shown' = shown \union {c}
    /\ start' = [start EXCEPT ![c] = "ready"]
    /\ UNCHANGED <<subprocesses, sessions, events, handling, registry, idOfPid, wires, missed>>

\* ... and after it: the registration must still be the one that holds the socket.
childDescriptorReady(c) ==
    /\ start[c] = "listening" /\ handling = <<>>
    /\ IF HasSocket(c) /\ phase[c] # "terminated"
       THEN /\ phase' = [phase EXCEPT ![c] = "adapter-ready"]
            /\ shown' = shown \union {c}
            /\ start' = [start EXCEPT ![c] = "ready"]
            /\ UNCHANGED <<registry, idOfPid, socket>>
       ELSE /\ start' = [start EXCEPT ![c] = "failed"]
            /\ disposePendingChildSession({c})
    /\ UNCHANGED <<subprocesses, sessions, events, handling, holder, closing, missed>>

\* VS Code connects: the transport takes the socket over and listens to it from now on.
\* A connection disposed of has closed its adapter server.
clientConnects(c) ==
    /\ start[c] = "ready" /\ handling = <<>>
    /\ start' = [start EXCEPT ![c] = IF ~HasSocket(c) THEN "failed"
                                     ELSE IF c \in closing THEN "deaf" ELSE "serving"]
    /\ missed' = IF HasSocket(c) /\ c \in closing THEN missed \union {c} ELSE missed
    /\ UNCHANGED <<subprocesses, sessions, events, handling, registration, wires>>

\* The debug session ends, because the user stops it or its transport saw the socket close;
\* onDidTerminateDebugSession disposes of the registration under its id.
childSessionTerminated(c) ==
    /\ start[c] \in {"serving", "deaf"} /\ handling = <<>>
    /\ start' = [start EXCEPT ![c] = "ended"]
    /\ disposePendingChildSession({c})
    /\ UNCHANGED <<subprocesses, sessions, events, handling, holder, closing, missed>>

SocketStep(c) ==
    \/ handleSharedChildSocket(c) \/ SocketCloses(c) \/ childLaunchDeclined(c)
    \/ createChildDebugAdapterDescriptor(c) \/ adapterServerFails(c)
    \/ childDescriptorReady(c) \/ clientConnects(c) \/ childSessionTerminated(c)

ChildNext ==
    \/ \E c \in Children :
        \/ patched_popen_init(c) \/ on_child_detected(c) \/ Hello(c) \/ ChildEnds(c)
        \/ Reap(c) \/ on_child_exited(c) \/ SocketStep(c)
    \/ \E s \in MainSessions :
        \/ handleChildProcessEvent(s) \/ handleChildProcessExitedEvent(s)
        \/ handleParentSessionTerminated(s)
    \/ registerPendingChildSession

ChildSpec == ChildInit /\ [][ChildNext]_childVars

\* Threads and event loops run; an event under way arrives; VS Code answers what it is
\* asked; a session that saw its socket close ends.  Nothing makes a program start or end
\* children, nor the user stop a session that shows no end.
ChildFairness ==
    /\ \A c \in Children :
        /\ WF_childVars(on_child_detected(c)) /\ WF_childVars(Reap(c))
        /\ WF_childVars(on_child_exited(c)) /\ WF_childVars(handleSharedChildSocket(c))
        /\ WF_childVars(createChildDebugAdapterDescriptor(c) \/ childLaunchDeclined(c))
        /\ WF_childVars(childDescriptorReady(c) \/ adapterServerFails(c))
        /\ WF_childVars(clientConnects(c))
        /\ WF_childVars(childSessionTerminated(c) /\ start[c] = "serving" /\ Gone(c))
    /\ \A s \in MainSessions :
        WF_childVars(handleChildProcessEvent(s) \/ handleChildProcessExitedEvent(s))
    /\ WF_childVars(registerPendingChildSession)

-----------------------------------------------------------------------------
(* Properties.                                                             *)

\* A child that ended does not stay registered, as long as a main session is there to
\* announce its end, unless that end passed the registry by: its process id was used again,
\* its end was handled between its announcement and its registration, or its socket closed
\* before a transport listened.
ChildSettles ==
    \A c \in Children :
        Gone(c) ~> (~Registered(c) \/ c \in missed \/ sessions = {})

\* A debug session is served only over a socket that is still the child's: whatever happened
\* while the adapter server came up (the child's end, a declined or ended session, the
\* parent's end) is noticed before VS Code gets the port.
ServesOpenSocket ==
    [][\A c \in Children :
        (start[c] = "listening" /\ start'[c] = "ready")
            => (Registered(c) /\ socket[c] = "attached")]_childVars

=============================================================================
