--------------------------- MODULE AdapterSession ---------------------------
(***************************************************************************)
(* The adapter side of one debug session: DebugAdapterServer and its       *)
(* PyDebugger with the external-process backend.                           *)
(*                                                                         *)
(* Four threads touch the state:                                           *)
(*   - the event loop: the message loop serves one request at a time, and  *)
(*     between its awaits the loop runs the callbacks that other threads   *)
(*     schedule and the operations a BreakpointController schedules;       *)
(*   - the IPC reader, which accepts the debuggee's connection and         *)
(*     schedules a callback for every message;                             *)
(*   - the thread that starts the debuggee process and waits for its end.  *)
(* The client and the debuggee are the environment.  The debuggee is what  *)
(* LauncherSession describes, seen from the connection: it answers a       *)
(* resume command before the stop the command leads to.                    *)
(*                                                                         *)
(* Abstractions.  Requests that take the same path share a name: next is   *)
(* also stepIn and stepOut, stackTrace any inspection, setBreakpoints the  *)
(* other breakpoint requests.  Bodies and output events are left out, and  *)
(* events reach the client at once.  A write to the debuggee never blocks. *)
(***************************************************************************)
EXTENDS Integers, Sequences, FiniteSets

CONSTANTS
    Requests,       \* the requests the client may send
    StopOnEntry,    \* values of the launch option
    MaxRequests,    \* bound: requests of a session
    MaxStops,       \* bound: stops of the program
    MaxControllerOps \* bound: operations of a BreakpointController

NoReplyRequests == {"setBreakpoints", "configurationDone", "next", "pause"}
ReplyRequests   == {"continue", "stackTrace", "exceptionInfo"}
Operations      == NoReplyRequests \cup ReplyRequests
EndRequests     == {"terminate", "disconnect", "restart", "close"}
AllRequests     == {"launch", "attach"} \cup Operations \cup EndRequests

ASSUME RequestsAssumption == Requests \subseteq AllRequests
ASSUME EntryAssumption    == StopOnEntry \subseteq BOOLEAN
ASSUME BoundsAssumption   ==
    MaxRequests \in Nat /\ MaxStops \in Nat /\ MaxControllerOps \in Nat

\* BackendLifecycleState; "none" before the backend object exists.
States == {"uninitialized", "initializing", "ready", "busy", "error",
           "terminating", "terminated"}

Transitions ==
    [uninitialized |-> {"initializing", "terminated"},
     initializing  |-> {"ready", "error", "terminating"},
     ready         |-> {"busy", "error", "terminating"},
     busy          |-> {"ready", "error", "terminating"},
     error         |-> {"ready", "terminating"},
     terminating   |-> {"terminated", "error"},
     terminated    |-> {}]

\* The tasks of the event loop that run backend operations.
Tasks == {"loop", "controller"}

\* Ids of commands that expect a reply; one that does not is sent without an id.
Ids  == Nat \ {0}
NoId == 0

Sent    == [cmd : Operations, id : Ids \cup {NoId}]
Message == [kind : {"reply"}, id : Ids] \cup [kind : {"stopped", "exited"}]
Callback == Message \cup [kind : {"programExit"}]

VARIABLES
    \* the client
    sent,             \* requests sent
    inbox,            \* requests the message loop has not read
    view,             \* what the client believes of the program
    leaving,          \* it has asked to end the session
    answer,           \* the last answer it got
    exited,           \* exited events it got
    terminated,       \* terminated events it got, but for a restart's
    \* the event loop
    request,          \* the request being served
    pc,               \* where its handler is
    callbacks,        \* callbacks scheduled on the loop
    phase,            \* of the backend operation of each task
    awaited,          \* the command id each task waits for
    result,           \* the id of the reply each task was given
    controllerOps,    \* operations of the controller so far
    \* PyDebugger and ExternalProcessBackend
    programRunning,   \* program_running
    isTerminated,     \* is_terminated
    stoppedEvent,     \* stopped_event
    process,          \* the thread that owns the debuggee process
    backend,          \* the state of the lifecycle manager
    cleanedUp,        \* its clean-up callbacks have run
    pending,          \* keys of pending_commands
    nextId,           \* next_command_id
    \* the connection and the debuggee
    conn,             \* the IPC connection, as the adapter holds it
    toDebuggee,
    toAdapter,
    debuggee,
    stopOnEntry,
    stops

clientVars   == <<sent, inbox, view, leaving, answer, exited, terminated>>
loopVars     == <<request, pc, callbacks, controllerOps>>
opVars       == <<phase, awaited, result>>
sessionVars  == <<programRunning, isTerminated, stoppedEvent, process>>
backendVars  == <<backend, cleanedUp, pending, nextId>>
debuggeeVars == <<conn, toDebuggee, toAdapter, debuggee, stops, stopOnEntry>>
vars == <<clientVars, loopVars, opVars, sessionVars, backendVars, debuggeeVars>>

ClientTypeOK ==
    /\ sent \in Nat
    /\ inbox \in Seq(Requests)
    /\ view \in {"running", "stopped"}
    /\ leaving \in BOOLEAN
    /\ answer \in [cmd : AllRequests \cup {"none"}, ok : BOOLEAN]
    /\ exited \in Nat /\ terminated \in Nat

LoopTypeOK ==
    /\ request \in AllRequests \cup {"none"}
    /\ pc \in {"idle", "start", "awaitStop", "operate", "restarting", "closing",
               "ended"}
    /\ callbacks \in Seq(Callback)
    /\ controllerOps \in Nat

OperationTypeOK ==
    /\ phase \in [Tasks -> {"idle", "entered", "waiting", "replied", "timedOut",
                            "done", "failed"}]
    /\ nextId \in Ids
    /\ awaited \in [Tasks -> 0..nextId - 1]
    /\ result \in [Tasks -> Ids \cup {NoId}]
    /\ pending \subseteq 1..nextId - 1
    /\ backend \in States \cup {"none"}
    /\ cleanedUp \in BOOLEAN

ProgramTypeOK ==
    /\ programRunning \in BOOLEAN /\ isTerminated \in BOOLEAN
    /\ stoppedEvent \in BOOLEAN
    /\ process \in {"none", "starting", "running", "ended"}
    /\ conn \in {"none", "listening", "open", "closed"}
    /\ toDebuggee \in Seq(Sent)
    /\ toAdapter \in Seq(Message)
    /\ debuggee \in {"none", "starting", "configuring", "running", "stopped",
                     "killed", "dead"}
    /\ stops \in Nat
    /\ stopOnEntry \in BOOLEAN

\* Every variable has its type, and ids are below the next one to be given.
TypeOK == ClientTypeOK /\ LoopTypeOK /\ OperationTypeOK /\ ProgramTypeOK

Init ==
    /\ sent = 0 /\ inbox = <<>> /\ view = "running" /\ leaving = FALSE
    /\ answer = [cmd |-> "none", ok |-> TRUE]
    /\ exited = 0 /\ terminated = 0
    /\ request = "none" /\ pc = "idle" /\ callbacks = <<>> /\ controllerOps = 0
    /\ phase = [t \in Tasks |-> "idle"]
    /\ awaited = [t \in Tasks |-> NoId]
    /\ result = [t \in Tasks |-> NoId]
    /\ programRunning = FALSE /\ isTerminated = FALSE
    /\ stoppedEvent = FALSE /\ process = "none"
    /\ backend = "none" /\ cleanedUp = FALSE /\ pending = {} /\ nextId = 1
    /\ conn = "none" /\ toDebuggee = <<>> /\ toAdapter = <<>>
    /\ debuggee = "none" /\ stops = 0
    /\ stopOnEntry \in StopOnEntry

-----------------------------------------------------------------------------
(***************************************************************************)
(* The client (external).  It starts the session, does not wait for that   *)
(* before it configures it, and resumes or inspects a program it has seen  *)
(* stop.  "close" stands for the end of its connection.                    *)
(***************************************************************************)
Allowed(c) ==
    CASE c \in {"launch", "attach"}  -> sent = 0
      [] c = "setBreakpoints"        -> sent > 0
      [] c = "configurationDone"     -> sent = 1
      [] c \in {"next"} \cup ReplyRequests -> sent > 1 /\ view = "stopped"
      [] c = "pause"                 -> sent > 1 /\ view = "running"
      [] c \in EndRequests           -> sent > 0

SendRequest(c) ==
    /\ ~leaving /\ sent < MaxRequests
    /\ Allowed(c)
    /\ sent' = sent + 1
    /\ inbox' = Append(inbox, c)
    /\ view' = IF c \in {"continue", "next"} THEN "running" ELSE view
    /\ leaving' = (c \in EndRequests \ {"terminate"})
    /\ UNCHANGED <<answer, exited, terminated, loopVars, opVars, sessionVars,
                   backendVars, debuggeeVars>>

-----------------------------------------------------------------------------
(***************************************************************************)
(* Backend operations: BaseBackend._execute_with_timeout around            *)
(* ExternalProcessBackend._send_command.                                   *)
(***************************************************************************)
Ready     == backend \in {"uninitialized", "ready"}
Active(t) == phase[t] # "idle"

\* (the mutant enters whatever state the backend is in)
M_EnterWhileBusy(t) ==
    /\ backend' = "busy"
    /\ phase' = [phase EXCEPT ![t] = "entered"]
    /\ UNCHANGED <<awaited, result, cleanedUp, pending, nextId>>

\* operation_context: an uninitialized backend is taken to ready first.
Enter(t) ==
    /\ Ready
    /\ backend' = "busy"
    /\ phase' = [phase EXCEPT ![t] = "entered"]
    /\ UNCHANGED <<awaited, result, cleanedUp, pending, nextId>>

\* Busy is not entered again, and no other state is ready: the operation is
\* refused before it starts.
Refuse == ~Ready /\ UNCHANGED <<opVars, backendVars>>

Available ==
    /\ backend \notin {"terminated", "error", "terminating"}
    /\ process \in {"running", "ended"}
    /\ ~isTerminated

\* What the connection takes; a peer that has died may not show at once.
MayReachWire == conn = "open"
MayFailToSend == conn # "open" \/ debuggee = "dead"

Command(t) == IF t = "loop" THEN request ELSE "setBreakpoints"

\* allocate_command_id
Allocated == nextId + 1

ExpectsReply(t) == Command(t) \in ReplyRequests

\* _execute_command and _send_command up to their first await.  What cannot be
\* sent is logged and counts as done.
Execute(t) ==
    /\ phase[t] = "entered"
    /\ nextId' = IF Available /\ ExpectsReply(t) THEN Allocated ELSE nextId
    /\ \/ /\ ~Available
          /\ phase' = [phase EXCEPT ![t] = "failed"]
          /\ UNCHANGED <<awaited, pending, toDebuggee>>
       \/ /\ Available /\ MayFailToSend
          /\ phase' = [phase EXCEPT ![t] = "done"]
          /\ UNCHANGED <<awaited, pending, toDebuggee>>
       \/ /\ Available /\ MayReachWire
          /\ IF ExpectsReply(t)
             THEN /\ toDebuggee' = Append(toDebuggee, [cmd |-> Command(t), id |-> nextId])
                  /\ pending' = pending \cup {nextId}
                  /\ awaited' = [awaited EXCEPT ![t] = nextId]
                  /\ phase' = [phase EXCEPT ![t] = "waiting"]
             ELSE /\ toDebuggee' = Append(toDebuggee, [cmd |-> Command(t), id |-> NoId])
                  /\ phase' = [phase EXCEPT ![t] = "done"]
                  /\ UNCHANGED <<awaited, pending>>
    /\ UNCHANGED <<clientVars, loopVars, result, sessionVars, backend, cleanedUp,
                   conn, toAdapter, debuggee, stops, stopOnEntry>>

\* (the mutant never gives up waiting)
M_NoTimeout(t) ==
    /\ phase[t] = "waiting"
    /\ UNCHANGED vars

\* The command takes too long.  _send_command swallows the cancellation and
\* returns no response.
Timeout(t) ==
    /\ phase[t] = "waiting"
    /\ phase' = [phase EXCEPT ![t] = "timedOut"]
    /\ pending' = pending \ {awaited[t]}
    /\ awaited' = [awaited EXCEPT ![t] = NoId]
    /\ UNCHANGED <<clientVars, loopVars, result, sessionVars, backend, cleanedUp,
                   nextId, debuggeeVars>>

\* The end of operation_context.
Leave(t) ==
    backend' = CASE phase[t] = "failed" /\ "error" \in Transitions[backend] -> "error"
                 [] phase[t] # "failed" /\ backend = "busy"                 -> "ready"
                 [] OTHER                                                   -> backend

FinishController ==
    /\ phase["controller"] \in {"done", "failed"}
    /\ Leave("controller")
    /\ phase' = [phase EXCEPT !["controller"] = "idle"]
    /\ UNCHANGED <<clientVars, loopVars, awaited, result, sessionVars, cleanedUp,
                   pending, nextId, debuggeeVars>>

\* A BreakpointController schedules set_breakpoints on the loop.
ControllerBegin ==
    /\ controllerOps < MaxControllerOps
    /\ backend # "none" /\ ~Active("controller")
    /\ controllerOps' = controllerOps + 1
    /\ Enter("controller") \/ Refuse
    /\ UNCHANGED <<clientVars, request, pc, callbacks, sessionVars, debuggeeVars>>


-----------------------------------------------------------------------------
(***************************************************************************)
(* The message loop.                                                       *)
(***************************************************************************)
Answer(ok) ==
    /\ answer' = [cmd |-> request, ok |-> ok]
    /\ request' = "none"
    /\ pc' = "idle"

Serving(c) == pc = "start" /\ request = c

TakeRequest ==
    /\ pc = "idle" /\ inbox # <<>>
    /\ request' = Head(inbox)
    /\ inbox' = Tail(inbox)
    /\ pc' = "start"
    /\ UNCHANGED <<sent, view, leaving, answer, exited, terminated, callbacks,
                   controllerOps, opVars, sessionVars, backendVars, debuggeeVars>>

\* launch: listen, start the thread that starts the process, and with
\* stopOnEntry wait for the first stop before answering.
Launch ==
    /\ Serving("launch")
    /\ conn' = "listening"
    /\ backend' = "uninitialized"
    /\ process' = "starting"
    /\ programRunning' = TRUE
    /\ IF stopOnEntry
       THEN pc' = "awaitStop" /\ UNCHANGED <<answer, request>>
       ELSE Answer(TRUE)
    /\ UNCHANGED <<sent, inbox, view, leaving, exited, terminated, callbacks,
                   controllerOps, opVars, isTerminated, stoppedEvent, cleanedUp,
                   pending, nextId, toDebuggee, toAdapter, debuggee, stops,
                   stopOnEntry>>

LaunchStopped ==
    /\ pc = "awaitStop" /\ stoppedEvent
    /\ Answer(TRUE)
    /\ UNCHANGED <<sent, inbox, view, leaving, exited, terminated, callbacks,
                   controllerOps, opVars, sessionVars, backendVars, debuggeeVars>>

\* attach: connect to a launcher that already waits; there is no process.
Attach ==
    /\ Serving("attach")
    /\ conn' = "open"
    /\ debuggee' = "configuring"
    /\ backend' = "uninitialized"
    /\ programRunning' = TRUE
    /\ Answer(TRUE)
    /\ UNCHANGED <<sent, inbox, view, leaving, exited, terminated, callbacks,
                   controllerOps, opVars, isTerminated, stoppedEvent, process,
                   cleanedUp, pending, nextId, toDebuggee, toAdapter, stops,
                   stopOnEntry>>

\* continue, next and pause do nothing in a session that is not running; pause
\* alone reports that as a failure.
ControlWithoutProgram ==
    /\ pc = "start" /\ request \in {"continue", "next", "pause"}
    /\ ~programRunning \/ isTerminated
    /\ Answer(request # "pause")
    /\ UNCHANGED <<sent, inbox, view, leaving, exited, terminated, callbacks,
                   controllerOps, opVars, sessionVars, backendVars, debuggeeVars>>

BeginOperation ==
    /\ pc = "start" /\ request \in Operations
    /\ request \in {"continue", "next", "pause"} => programRunning /\ ~isTerminated
    /\ stoppedEvent' = (stoppedEvent /\ request \notin {"continue", "next"})
    /\ \/ Enter("loop") /\ pc' = "operate" /\ UNCHANGED <<answer, request>>
       \/ Refuse /\ Answer(FALSE)
    /\ UNCHANGED <<sent, inbox, view, leaving, exited, terminated, callbacks,
                   controllerOps, programRunning, isTerminated, process,
                   debuggeeVars>>

FinishOperation ==
    /\ pc = "operate"
    /\ phase["loop"] \in {"replied", "timedOut", "done", "failed"}
    /\ Leave("loop")
    /\ phase' = [phase EXCEPT !["loop"] = "idle"]
    /\ awaited' = [awaited EXCEPT !["loop"] = NoId]
    /\ result' = [result EXCEPT !["loop"] = NoId]
    /\ Answer(phase["loop"] # "failed")
    /\ UNCHANGED <<sent, inbox, view, leaving, exited, terminated, callbacks,
                   controllerOps, sessionVars, cleanedUp, pending, nextId,
                   debuggeeVars>>

Waiting == {t \in Tasks : phase[t] = "waiting"}

\* fail_pending_commands, and _cleanup_commands: every waiter is woken.
WakeAll(outcome) ==
    /\ pending' = {}
    /\ phase' = [t \in Tasks |-> IF t \in Waiting THEN outcome ELSE phase[t]]
    /\ awaited' = [t \in Tasks |-> IF t \in Waiting THEN NoId ELSE awaited[t]]
    /\ UNCHANGED result

\* BaseBackend.terminate.  A backend that was never used may not be terminated.
\* From any other state the terminate command meets a backend that is not
\* ready; the failure is recorded; completing the termination runs the clean-up
\* callbacks, once, and then raises because error does not lead to terminated.
TerminateRequest ==
    /\ Serving("terminate")
    /\ Answer(FALSE)
    /\ IF "terminating" \in Transitions[backend]
       THEN /\ backend' = "error"
            /\ cleanedUp' = TRUE
            /\ IF cleanedUp
               THEN UNCHANGED <<conn, pending, phase, awaited, result>>
               ELSE conn' = "closed" /\ WakeAll("done")
       ELSE UNCHANGED <<backend, cleanedUp, conn, pending, phase, awaited, result>>
    /\ UNCHANGED <<sent, inbox, view, leaving, exited, terminated, callbacks,
                   controllerOps, sessionVars, nextId, toDebuggee, toAdapter,
                   debuggee, stops, stopOnEntry>>

\* restart announces itself (an await), kills the process and shuts down.
AnnounceRestart ==
    /\ Serving("restart")
    /\ pc' = "restarting"
    /\ UNCHANGED <<clientVars, request, callbacks, controllerOps, opVars, sessionVars,
                   backendVars, debuggeeVars>>

KillForRestart ==
    /\ debuggee' = IF programRunning /\ process = "running" /\ debuggee # "dead"
                   THEN "killed" ELSE debuggee
    /\ isTerminated' = TRUE
    /\ programRunning' = FALSE

\* shutdown: pending commands fail first, the connection is closed after awaits.
BeginShutdown ==
    /\ \/ pc = "restarting" /\ KillForRestart
       \/ /\ Serving("disconnect") \/ Serving("close")
          /\ UNCHANGED <<debuggee, isTerminated, programRunning>>
    /\ pc' = "closing"
    /\ WakeAll("failed")
    /\ UNCHANGED <<clientVars, request, callbacks, controllerOps, stoppedEvent,
                   process, backend, cleanedUp, nextId, conn, toDebuggee, toAdapter,
                   stops, stopOnEntry>>

\* Once the client has gone the message loop ends.
FinishShutdown ==
    /\ pc = "closing"
    /\ conn' = "closed"
    /\ programRunning' = FALSE
    /\ isTerminated' = TRUE
    /\ IF request = "close"
       THEN pc' = "ended" /\ request' = "none" /\ UNCHANGED answer
       ELSE Answer(TRUE)
    /\ UNCHANGED <<sent, inbox, view, leaving, exited, terminated, callbacks,
                   controllerOps, opVars, stoppedEvent, process, backendVars,
                   toDebuggee, toAdapter, debuggee, stops, stopOnEntry>>

-----------------------------------------------------------------------------
(***************************************************************************)
(* Callbacks of the event loop.                                            *)
(***************************************************************************)
IsCallback(k) == callbacks # <<>> /\ Head(callbacks).kind = k

\* (the mutant gives a reply to whoever waits)
M_ReplyToWaiter ==
    /\ IsCallback("reply")
    /\ callbacks' = Tail(callbacks)
    /\ LET id == Head(callbacks).id IN
       IF Waiting # {}
       THEN /\ pending' = pending \ {awaited[t] : t \in Waiting}
            /\ phase' = [t \in Tasks |-> IF t \in Waiting THEN "replied" ELSE phase[t]]
            /\ result' = [t \in Tasks |-> IF t \in Waiting THEN id ELSE result[t]]
       ELSE UNCHANGED <<pending, phase, result>>
    /\ UNCHANGED <<clientVars, request, pc, controllerOps, awaited, sessionVars,
                   backend, cleanedUp, nextId, debuggeeVars>>

\* handle_debug_message, a response: its command is looked up by id, and a
\* response that nobody waits for any more is dropped.
HandleReply ==
    /\ IsCallback("reply")
    /\ callbacks' = Tail(callbacks)
    /\ LET id == Head(callbacks).id
           for == {t \in Waiting : awaited[t] = id}
       IN IF id \in pending
          THEN /\ pending' = pending \ {id}
               /\ phase' = [t \in Tasks |-> IF t \in for THEN "replied" ELSE phase[t]]
               /\ result' = [t \in Tasks |-> IF t \in for THEN id ELSE result[t]]
          ELSE UNCHANGED <<pending, phase, result>>
    /\ UNCHANGED <<clientVars, request, pc, controllerOps, awaited, sessionVars,
                   backend, cleanedUp, nextId, debuggeeVars>>

HandleStopped ==
    /\ IsCallback("stopped")
    /\ callbacks' = Tail(callbacks)
    /\ stoppedEvent' = TRUE
    /\ view' = "stopped"
    /\ UNCHANGED <<sent, inbox, leaving, answer, exited, terminated, request, pc,
                   controllerOps, opVars, programRunning, isTerminated, process,
                   backendVars, debuggeeVars>>

HandleExited ==
    /\ IsCallback("exited")
    /\ callbacks' = Append(Tail(callbacks), [kind |-> "programExit"])
    /\ isTerminated' = TRUE
    /\ WakeAll("failed")
    /\ UNCHANGED <<clientVars, request, pc, controllerOps, programRunning,
                   stoppedEvent, process, backend, cleanedUp, nextId, debuggeeVars>>

\* (the mutant does not look whether the end was reported already)
M_ReportEveryExit ==
    /\ IsCallback("programExit")
    /\ callbacks' = Tail(callbacks)
    /\ programRunning' = FALSE
    /\ isTerminated' = TRUE
    /\ exited' = exited + 1
    /\ terminated' = terminated + 1
    /\ UNCHANGED <<sent, inbox, view, leaving, answer, request, pc, controllerOps,
                   opVars, stoppedEvent, process, backendVars, debuggeeVars>>

\* _handle_program_exit: both the exited event of the debuggee and the end of
\* its process lead here.
HandleProgramExit ==
    /\ IsCallback("programExit")
    /\ callbacks' = Tail(callbacks)
    /\ IF programRunning
       THEN /\ programRunning' = FALSE
            /\ isTerminated' = TRUE
            /\ exited' = exited + 1
            /\ terminated' = terminated + 1
       ELSE UNCHANGED <<programRunning, isTerminated, exited, terminated>>
    /\ UNCHANGED <<sent, inbox, view, leaving, answer, request, pc, controllerOps,
                   opVars, stoppedEvent, process, backendVars, debuggeeVars>>

EventLoop ==
    \/ TakeRequest \/ Launch \/ LaunchStopped \/ Attach
    \/ ControlWithoutProgram \/ BeginOperation \/ FinishOperation
    \/ TerminateRequest \/ AnnounceRestart \/ BeginShutdown \/ FinishShutdown
    \/ FinishController
    \/ \E t \in Tasks : Execute(t)
    \/ HandleReply \/ HandleStopped \/ HandleExited \/ HandleProgramExit

-----------------------------------------------------------------------------
(***************************************************************************)
(* The other threads of the adapter.                                       *)
(***************************************************************************)

\* Popen, in the thread that then waits for the process.
StartProcess ==
    /\ process = "starting"
    /\ process' = "running"
    /\ debuggee' = "starting"
    /\ UNCHANGED <<clientVars, loopVars, opVars, programRunning, isTerminated,
                   stoppedEvent, backendVars, conn, toDebuggee, toAdapter, stops,
                   stopOnEntry>>

\* (the mutant does not tell the event loop)
M_ExitNotScheduled ==
    /\ process = "running" /\ debuggee = "dead"
    /\ process' = "ended"
    /\ isTerminated' = TRUE
    /\ UNCHANGED <<clientVars, loopVars, opVars, programRunning, stoppedEvent,
                   backendVars, debuggeeVars>>

\* The process has ended, or could not be started: the thread sets
\* is_terminated itself and schedules the rest on the loop.
ProcessEnded ==
    /\ \/ process = "running" /\ debuggee = "dead" /\ process' = "ended"
       \/ process = "starting" /\ process' = "none"
    /\ isTerminated' = TRUE
    /\ callbacks' = Append(callbacks, [kind |-> "programExit"])
    /\ UNCHANGED <<clientVars, request, pc, controllerOps, opVars, programRunning,
                   stoppedEvent, backendVars, debuggeeVars>>

ProcessThread == StartProcess \/ ProcessEnded

AcceptConnection ==
    /\ conn = "listening" /\ debuggee = "starting"
    /\ conn' = "open"
    /\ debuggee' = "configuring"
    /\ UNCHANGED <<clientVars, loopVars, opVars, sessionVars, backendVars, toDebuggee,
                   toAdapter, stops, stopOnEntry>>

ReadMessage ==
    /\ conn = "open" /\ toAdapter # <<>>
    /\ toAdapter' = Tail(toAdapter)
    /\ callbacks' = Append(callbacks, Head(toAdapter))
    /\ UNCHANGED <<clientVars, request, pc, controllerOps, opVars, sessionVars,
                   backendVars, conn, toDebuggee, debuggee, stops, stopOnEntry>>

IPCReader == AcceptConnection \/ ReadMessage


-----------------------------------------------------------------------------
(***************************************************************************)
(* The debuggee (external): LauncherSession, seen from the connection.     *)
(***************************************************************************)
Connected == debuggee \in {"configuring", "running", "stopped"}

UnchangedByDebuggee ==
    UNCHANGED <<clientVars, loopVars, opVars, sessionVars, backendVars, conn,
                stopOnEntry>>

\* A command is answered, before what it leads to, if it carries an id; except
\* exceptionInfo, which is answered with an event.
HandleCommand ==
    /\ Connected /\ toDebuggee # <<>>
    /\ LET c == Head(toDebuggee) IN
       /\ toDebuggee' = Tail(toDebuggee)
       /\ debuggee' =
            CASE c.cmd = "configurationDone" /\ debuggee = "configuring" -> "running"
              [] c.cmd \in {"continue", "next"} /\ debuggee = "stopped"  -> "running"
              [] OTHER                                                   -> debuggee
       /\ toAdapter' =
            CASE c.cmd = "pause" -> Append(toAdapter, [kind |-> "stopped"])
              [] c.id # NoId /\ c.cmd # "exceptionInfo" ->
                     Append(toAdapter, [kind |-> "reply", id |-> c.id])
              [] OTHER -> toAdapter
    /\ UNCHANGED stops
    /\ UnchangedByDebuggee

StartAnyway ==
    /\ debuggee = "configuring"
    /\ debuggee' = "running"
    /\ UNCHANGED <<toDebuggee, toAdapter, stops>>
    /\ UnchangedByDebuggee

Stop ==
    /\ debuggee = "running" /\ stops < MaxStops
    /\ debuggee' = "stopped"
    /\ stops' = stops + 1
    /\ toAdapter' = Append(toAdapter, [kind |-> "stopped"])
    /\ UNCHANGED toDebuggee
    /\ UnchangedByDebuggee

\* The program ends and says so, or the process dies.
EndProgram ==
    /\ \/ debuggee = "running" /\ toAdapter' = Append(toAdapter, [kind |-> "exited"])
       \/ debuggee \notin {"none", "dead"} /\ UNCHANGED toAdapter
    /\ debuggee' = "dead"
    /\ UNCHANGED <<toDebuggee, stops>>
    /\ UnchangedByDebuggee

\* A launcher that cannot reach its adapter, or whose adapter has closed the
\* connection, exits.
LoseAdapter ==
    /\ conn = "closed" /\ debuggee \notin {"none", "dead"}
    /\ debuggee' = "dead"
    /\ UNCHANGED <<toDebuggee, toAdapter, stops>>
    /\ UnchangedByDebuggee

-----------------------------------------------------------------------------
Next ==
    \/ \E c \in Requests : SendRequest(c)
    \/ ControllerBegin
    \/ EventLoop
    \/ \E t \in Tasks : Timeout(t)
    \/ ProcessThread
    \/ IPCReader
    \/ HandleCommand \/ StartAnyway \/ Stop \/ EndProgram \/ LoseAdapter

Spec == Init /\ [][Next]_vars

\* The loop and the threads run, timers go off, and a debuggee without its
\* adapter ends.  Nothing obliges the program to stop, or to end by itself.
FairSpec ==
    /\ Spec
    /\ WF_vars(EventLoop)
    /\ WF_vars(ProcessThread)
    /\ WF_vars(IPCReader)
    /\ \A t \in Tasks : WF_vars(Timeout(t))
    /\ WF_vars(LoseAdapter)

-----------------------------------------------------------------------------
(***************************************************************************)
(* Properties.                                                             *)
(***************************************************************************)

\* The backend is busy exactly while one operation is in progress, and is not
\* ready again before that one is over, whichever task started it
\* (operation_context).
BusyIsOneOperation ==
    /\ Cardinality({t \in Tasks : Active(t)}) <= 1
    /\ backend = "busy" => \E t \in Tasks : Active(t)
    /\ backend = "ready" => \A t \in Tasks : ~Active(t)

\* A pending command is one that somebody waits for: an answer, a timeout, the
\* end of the program and a shutdown each remove the entry with its waiter.
PendingHasWaiter ==
    pending = {awaited[t] : t \in Waiting}

\* A task is given the response to the command it sent, not the late response
\* to an earlier one that timed out.
ReplyMatches ==
    \A t \in Tasks : phase[t] = "replied" => result[t] = awaited[t]

\* Replies find those who wait for them: no command is pending for nobody, nobody waits
\* for a command that is not pending, and nobody gets the reply to another command.
RepliesFindWaiters == PendingHasWaiter /\ ReplyMatches

\* The end of the program is reported once, though up to two threads notice it.
EndReportedOnce == exited <= 1 /\ terminated <= 1

\* A request that is being served is answered in the end: no debuggee, dead or
\* alive, holds up the message loop for ever.
RequestServed == pc # "idle" ~> pc \in {"idle", "ended"}

\* The client hears of the end of a debuggee process the adapter has launched,
\* however it ended, unless it has itself shut the session down.
DeathReported ==
    debuggee = "dead" /\ programRunning ~> terminated > 0 \/ leaving


=============================================================================
