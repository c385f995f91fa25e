-------------------------- MODULE LauncherSession --------------------------
(***************************************************************************)
(* The debuggee side of one debug session, as dapper.launcher runs it.     *)
(*                                                                         *)
(* Two threads share one DebugSession:                                     *)
(*   - the main thread runs the user's program under DebuggerBDB and       *)
(*     blocks in process_queued_commands_launcher at every stop;           *)
(*   - the receiver thread reads commands from the adapter and runs each   *)
(*     handler where it stands (command_handlers.handle_debug_command).    *)
(* The adapter, with the user's client behind it, is the environment: it   *)
(* resumes a thread it has seen stop, pauses one it believes to be         *)
(* running, and may leave at any time.                                     *)
(*                                                                         *)
(* Abstractions.  The program is the sequence of trace events it causes,   *)
(* at most MaxLines of them; a stop is named by its number; the stack of a *)
(* stop is that number; the only traced thread is the main one, so the set *)
(* stopped_thread_ids is the Boolean "stopped".  Output and thread events, *)
(* just-my-code filtering and asyncio-aware stepping are left out.         *)
(***************************************************************************)
EXTENDS Integers, Sequences

CONSTANTS
    Commands,       \* the commands the adapter may send
    TraceEvents,    \* the kinds of trace event the program may cause
    StopOnEntry,    \* --stop-on-entry: the values it may have
    MaxCommands,    \* bound: commands sent in a session
    MaxLines        \* bound: trace events of the program

StepCommands   == {"next", "stepIn", "stepOut"}
ResumeCommands == StepCommands \cup {"continue", "terminate"}
AllCommands    == ResumeCommands \cup
                    {"configurationDone", "pause", "stackTrace",
                     "exceptionInfo", "disconnect"}

AllTraceEvents == {"breakpoint", "falseBreakpoint", "line", "watch",
                   "exception", "function"}

ASSUME CommandsAssumption    == Commands \subseteq AllCommands
ASSUME TraceEventsAssumption == TraceEvents \subseteq AllTraceEvents
ASSUME EntryAssumption       == StopOnEntry \subseteq BOOLEAN
ASSUME BoundsAssumption      == MaxCommands \in Nat /\ MaxLines \in Nat

Command == [id : 1..MaxCommands, cmd : AllCommands]

\* NoStack: no frames are registered.  Elsewhere: the frames sys._current_frames
\* shows for a thread that is not standing at the line it stopped at.
NoStack   == 0
Elsewhere == -1
Stacks    == {Elsewhere} \cup 0..MaxLines

Reasons  == {"breakpoint", "step", "entry", "exception", "function breakpoint",
             "data breakpoint", "pause"}
Message  == [kind : {"stopped"}, stop : Stacks]
              \cup [kind : {"response"}, id : 1..MaxCommands]
              \cup [kind : {"exited", "terminated"}]

(***************************************************************************)
(* Mutants.  A definition named M_... is a broken variant of the           *)
(* definition that follows it; no specification uses it.                   *)
(***************************************************************************)
\* (the mutant signals a resume before it answers)
M_SignalFirst(c) ==
    IF c \in StepCommands \cup {"continue"}
    THEN <<"impl", "signalResume", "respond">>
    ELSE IF c = "configurationDone" THEN <<"respond", "setConfigurationDone">>
    ELSE <<"terminateSession", "respond">>

\* (the mutant signals configurationDone before it answers)
M_ConfigDoneFirst(c) ==
    IF c = "configurationDone" THEN <<"setConfigurationDone", "respond">>
    ELSE IF c \in StepCommands \cup {"continue"}
    THEN <<"impl", "respond", "signalResume">>
    ELSE <<"terminateSession", "respond">>

\* (the mutant does not signal after stepOut)
M_StepOutNotResuming(c) ==
    IF c = "configurationDone" THEN <<"respond", "setConfigurationDone">>
    ELSE IF c = "stepOut" THEN <<"impl", "respond">>
    ELSE IF c \in StepCommands \cup {"continue"}
    THEN <<"impl", "respond", "signalResume">>
    ELSE <<"terminateSession", "respond">>

(***************************************************************************)
(* What the handler of a command does, in order.  handle_debug_command     *)
(* signals the resume event once the handler of a resume command has       *)
(* returned; the handler of terminate does not return.  cmd_exception_info *)
(* answers with an event, never with a response.                           *)
(***************************************************************************)
Script(c) ==
    CASE c = "configurationDone" -> <<"respond", "setConfigurationDone">>
      [] c \in StepCommands \cup {"continue"}
                                 -> <<"impl", "respond", "signalResume">>
      [] c = "pause"             -> <<"impl", "emitPaused", "respond">>
      [] c = "stackTrace"        -> <<"respond">>
      [] c = "exceptionInfo"     -> <<"impl">>
      [] c = "terminate"         -> <<"emitExited", "terminateSession", "respond",
                                      "exit">>
      [] c = "disconnect"        -> <<"terminateSession", "respond">>

VARIABLES
    \* the adapter and the two directions of the connection
    view,           \* what the client believes of the main thread
    seenStop,       \* the stack of the last stopped event it has read
    sent,           \* commands sent so far
    leaving,        \* it has asked to terminate or disconnect
    connOpen,       \* the connection is up
    toDebuggee,     \* commands on their way
    toClient,       \* messages on their way
    \* DebugSession
    debugger,       \* session.debugger has been set
    configDone,     \* configuration_done_event
    resumeEvent,    \* _resume_event
    isTerminated,   \* is_terminated
    alive,          \* the debuggee process exists
    \* the receiver thread
    current,        \* id of the command being handled
    request,        \* its name
    step,           \* where its handler is in Script(request); 0: no command
    \* the main thread and its DebuggerBDB
    main,           \* where it is
    reason,         \* the reason of the current stop
    mode,           \* bdb's stop information
    stepping,       \* stepping_controller.stepping
    stopOnEntry,    \* stepping_controller.stop_on_entry
    currentFrame,   \* stepping_controller.current_frame
    stopped,        \* main thread in thread_tracker.stopped_thread_ids
    frames,         \* thread_tracker.frames_by_thread of the main thread
    lines,          \* trace events so far
    \* history, read by the properties only
    stops,          \* stopped events after which the main thread waits
    resumeAcks,     \* responses sent to resume commands
    configAcked,    \* configurationDone has been answered
    startedAnyway   \* the program started without configurationDone

clientVars   == <<view, seenStop, sent, leaving>>
channelVars  == <<connOpen, toDebuggee, toClient>>
sessionVars  == <<debugger, configDone, resumeEvent, isTerminated, alive>>
receiverVars == <<current, request, step>>
dbgVars      == <<reason, mode, stepping, stopOnEntry, currentFrame, stopped,
                  frames, lines>>
historyVars  == <<stops, resumeAcks, configAcked, startedAnyway>>
vars == <<clientVars, channelVars, sessionVars, receiverVars, main, dbgVars,
          historyVars>>

FlagsTypeOK ==
    /\ leaving \in BOOLEAN /\ connOpen \in BOOLEAN /\ debugger \in BOOLEAN
    /\ configDone \in BOOLEAN /\ resumeEvent \in BOOLEAN
    /\ isTerminated \in BOOLEAN /\ alive \in BOOLEAN
    /\ stepping \in BOOLEAN /\ stopOnEntry \in BOOLEAN /\ stopped \in BOOLEAN
    /\ configAcked \in BOOLEAN /\ startedAnyway \in BOOLEAN

ClientTypeOK ==
    /\ view \in {"running", "stopped"}
    /\ seenStop \in Stacks
    /\ sent \in 0..MaxCommands

ChannelTypeOK ==
    /\ toDebuggee \in Seq(Command)
    /\ toClient \in Seq(Message)

ReceiverTypeOK ==
    /\ current \in 0..MaxCommands
    /\ request \in AllCommands
    /\ step \in 0..Len(Script(request))
    /\ step # 0 => current # 0

DebuggerTypeOK ==
    /\ main \in {"boot", "awaitConfiguration", "running", "emitting", "stopped",
                 "waiting", "resumed", "ending", "exitedSent", "done"}
    /\ reason \in Reasons
    /\ mode \in {"step", "next", "return", "continue"}
    /\ currentFrame \in Stacks
    /\ frames \in Stacks
    /\ lines \in 0..MaxLines

HistoryTypeOK ==
    /\ stops \in Nat
    /\ resumeAcks \in Nat

\* Every variable has its type; a handler is at one of the steps of its script.
TypeOK ==
    /\ FlagsTypeOK /\ ClientTypeOK /\ ChannelTypeOK
    /\ ReceiverTypeOK /\ DebuggerTypeOK /\ HistoryTypeOK

Init ==
    /\ view = "running"
    /\ seenStop = NoStack
    /\ sent = 0
    /\ leaving = FALSE
    /\ connOpen = TRUE
    /\ toDebuggee = <<>>
    /\ toClient = <<>>
    /\ debugger = FALSE
    /\ configDone = FALSE
    /\ resumeEvent = FALSE
    /\ isTerminated = FALSE
    /\ alive = TRUE
    /\ current = 0
    /\ request = "configurationDone"
    /\ step = 0
    /\ main = "boot"
    /\ reason = "entry"
    /\ mode = "step"
    /\ stepping = FALSE
    /\ stopOnEntry \in StopOnEntry
    /\ currentFrame = NoStack
    /\ stopped = FALSE
    /\ frames = NoStack
    /\ lines = 0
    /\ stops = 0
    /\ resumeAcks = 0
    /\ configAcked = FALSE
    /\ startedAnyway = FALSE

-----------------------------------------------------------------------------
(***************************************************************************)
(* The adapter (external).                                                 *)
(***************************************************************************)

\* A client resumes a thread it has seen stop, looks at its stack while it is
\* stopped, and pauses it when it believes it to be running.
Allowed(c) ==
    CASE c = "configurationDone"               -> sent = 0
      [] c \in StepCommands \cup {"continue"}  -> view = "stopped"
      [] c \in {"stackTrace", "exceptionInfo"} -> view = "stopped"
      [] c = "pause"                           -> sent > 0 /\ view = "running"
      [] OTHER                                 -> sent > 0

SendCommand(c) ==
    /\ connOpen /\ ~leaving
    /\ sent < MaxCommands
    /\ Allowed(c)
    /\ sent' = sent + 1
    /\ toDebuggee' = Append(toDebuggee, [id |-> sent + 1, cmd |-> c])
    /\ view' = IF c \in ResumeCommands THEN "running" ELSE view
    /\ leaving' = (c \in {"terminate", "disconnect"})
    /\ UNCHANGED <<seenStop, connOpen, toClient, sessionVars, receiverVars, main,
                   dbgVars, historyVars>>

ReadMessage ==
    /\ connOpen
    /\ toClient # <<>>
    /\ toClient' = Tail(toClient)
    /\ IF Head(toClient).kind = "stopped"
       THEN view' = "stopped" /\ seenStop' = Head(toClient).stop
       ELSE UNCHANGED <<view, seenStop>>
    /\ UNCHANGED <<sent, leaving, connOpen, toDebuggee, sessionVars, receiverVars,
                   main, dbgVars, historyVars>>

\* The adapter goes away, on purpose or not.  Commands still in the connection
\* reach the debuggee before the end of file, or are lost with it.
CloseConnection ==
    /\ connOpen
    /\ connOpen' = FALSE
    /\ toDebuggee' \in {toDebuggee, <<>>}
    /\ toClient' = <<>>
    /\ UNCHANGED <<clientVars, sessionVars, receiverVars, main, dbgVars,
                   historyVars>>

-----------------------------------------------------------------------------
(***************************************************************************)
(* The receiver thread.                                                    *)
(***************************************************************************)

\* SessionTransport.send, called through safe_send: what a dead connection
\* raises is swallowed.
SafeSend(m) ==
    toClient' = IF connOpen THEN Append(toClient, m) ELSE toClient

ReceiveCommand ==
    /\ alive /\ step = 0 /\ ~isTerminated
    /\ toDebuggee # <<>>
    /\ toDebuggee' = Tail(toDebuggee)
    /\ current' = Head(toDebuggee).id
    /\ request' = Head(toDebuggee).cmd
    /\ step' = 1
    /\ UNCHANGED <<clientVars, connOpen, toClient, sessionVars, main, dbgVars,
                   historyVars>>

\* (the mutant goes on after the end of the stream)
M_EOFReturnsQuietly ==
    /\ alive /\ step = 0 /\ ~isTerminated
    /\ ~connOpen /\ toDebuggee = <<>>
    /\ UNCHANGED vars

\* End of file: exit_if_alive.
ReceiveEOF ==
    /\ alive /\ step = 0 /\ ~isTerminated
    /\ ~connOpen /\ toDebuggee = <<>>
    /\ alive' = FALSE
    /\ UNCHANGED <<clientVars, channelVars, debugger, configDone, resumeEvent,
                   isTerminated, receiverVars, main, dbgVars, historyVars>>

Doing(op) == alive /\ step # 0 /\ Script(request)[step] = op

Advance == step' = IF step = Len(Script(request)) THEN 0 ELSE step + 1

\* handle_continue_impl: ignored unless the thread is recorded as stopped.
ContinueImpl ==
    IF stopped
    THEN /\ stopped' = FALSE
         /\ mode' = "continue"
         /\ UNCHANGED <<stepping, currentFrame, frames>>
    ELSE UNCHANGED <<stopped, mode, stepping, currentFrame, frames>>

\* handle_next_impl, handle_step_in_impl, handle_step_out_impl.
StepImpl(c) ==
    IF stopped
    THEN /\ stopped' = FALSE
         /\ stepping' = TRUE
         /\ mode' = IF c = "stepIn" THEN "step"
                    ELSE IF currentFrame = NoStack THEN mode
                    ELSE IF c = "next" THEN "next" ELSE "return"
         /\ UNCHANGED <<currentFrame, frames>>
    ELSE UNCHANGED <<stopped, stepping, mode, currentFrame, frames>>

\* handle_pause_impl: the thread is recorded as stopped where it happens to
\* be; nothing makes it stop.
PauseImpl ==
    /\ stopped' = TRUE
    /\ frames' = Elsewhere
    /\ currentFrame' = Elsewhere
    /\ UNCHANGED <<mode, stepping>>

HandlerImpl ==
    /\ Doing("impl")
    /\ Advance
    /\ \/ debugger /\ request = "continue" /\ ContinueImpl
       \/ debugger /\ request \in StepCommands /\ StepImpl(request)
       \/ debugger /\ request = "pause" /\ PauseImpl
       \/ /\ ~debugger \/ request = "exceptionInfo"
          /\ UNCHANGED <<stopped, mode, stepping, currentFrame, frames>>
    /\ UNCHANGED <<clientVars, channelVars, sessionVars, current, request, main,
                   reason, stopOnEntry, lines, historyVars>>

SendResponse ==
    /\ Doing("respond")
    /\ Advance
    /\ SafeSend([kind |-> "response", id |-> current])
    /\ resumeAcks' = resumeAcks + (IF request \in ResumeCommands THEN 1 ELSE 0)
    /\ configAcked' = (configAcked \/ request = "configurationDone")
    /\ UNCHANGED <<clientVars, connOpen, toDebuggee, sessionVars, current, request,
                   main, dbgVars, stops, startedAnyway>>

SignalResume ==
    /\ Doing("signalResume")
    /\ Advance
    /\ resumeEvent' = TRUE
    /\ UNCHANGED <<clientVars, channelVars, debugger, configDone, isTerminated,
                   alive, current, request, main, dbgVars, historyVars>>

SetConfigurationDone ==
    /\ Doing("setConfigurationDone")
    /\ Advance
    /\ configDone' = TRUE
    /\ UNCHANGED <<clientVars, channelVars, debugger, resumeEvent, isTerminated,
                   alive, current, request, main, dbgVars, historyVars>>

EmitPaused ==
    /\ Doing("emitPaused")
    /\ Advance
    /\ IF debugger THEN SafeSend([kind |-> "stopped", stop |-> Elsewhere])
                   ELSE UNCHANGED toClient
    /\ UNCHANGED <<clientVars, connOpen, toDebuggee, sessionVars, current, request,
                   main, dbgVars, historyVars>>

EmitExited ==
    /\ Doing("emitExited")
    /\ Advance
    /\ SafeSend([kind |-> "exited"])
    /\ UNCHANGED <<clientVars, connOpen, toDebuggee, sessionVars, current, request,
                   main, dbgVars, historyVars>>

\* terminate_session
TerminateSession ==
    /\ Doing("terminateSession")
    /\ Advance
    /\ isTerminated' = TRUE
    /\ resumeEvent' = TRUE
    /\ UNCHANGED <<clientVars, channelVars, debugger, configDone, alive, current,
                   request, main, dbgVars, historyVars>>

\* exit_func is os._exit: every thread dies with the process.
ExitProcess ==
    /\ Doing("exit")
    /\ Advance
    /\ alive' = FALSE
    /\ UNCHANGED <<clientVars, channelVars, debugger, configDone, resumeEvent,
                   isTerminated, current, request, main, dbgVars, historyVars>>

Receiver ==
    \/ ReceiveCommand \/ ReceiveEOF
    \/ HandlerImpl \/ SendResponse \/ SignalResume \/ SetConfigurationDone
    \/ EmitPaused \/ EmitExited \/ TerminateSession \/ ExitProcess

-----------------------------------------------------------------------------
(***************************************************************************)
(* The main thread.                                                        *)
(***************************************************************************)

ConfigureDebugger ==
    /\ alive /\ main = "boot"
    /\ main' = "awaitConfiguration"
    /\ debugger' = TRUE
    /\ UNCHANGED <<clientVars, channelVars, configDone, resumeEvent, isTerminated,
                   alive, receiverVars, dbgVars, historyVars>>

\* The 30 s wait for configurationDone ends in either of two ways.
StartProgram ==
    /\ alive /\ main = "awaitConfiguration"
    /\ main' = "running"
    /\ startedAnyway' = ~configDone
    /\ UNCHANGED <<clientVars, channelVars, sessionVars, receiverVars, dbgVars,
                   stops, resumeAcks, configAcked>>

TraceEvent(e) ==
    /\ alive /\ main = "running"
    /\ e \in TraceEvents
    /\ lines < MaxLines
    /\ lines' = lines + 1

\* (the mutant keeps the frames of the last stop at an exception)
M_KeepFrames(r) ==
    /\ main' = "emitting"
    /\ reason' = r
    /\ currentFrame' = lines'
    /\ frames' = IF r = "exception" THEN frames ELSE lines'
    /\ stopped' = TRUE

\* The bookkeeping of _emit_stopped_event, and of user_exception.
BeginStop(r) ==
    /\ main' = "emitting"
    /\ reason' = r
    /\ currentFrame' = lines'
    /\ frames' = lines'
    /\ stopped' = TRUE

UnchangedByTrace ==
    UNCHANGED <<clientVars, channelVars, sessionVars, receiverVars, historyVars>>

\* user_line at a breakpoint whose condition holds; user_exception;
\* user_call.  None of them looks at the stepping flags.
HitBreakpoint ==
    /\ \E e \in {"breakpoint", "exception", "function"} :
          /\ TraceEvent(e)
          /\ BeginStop(IF e = "function" THEN "function breakpoint" ELSE e)
    /\ UNCHANGED <<mode, stepping, stopOnEntry>>
    /\ UnchangedByTrace

\* user_line at a breakpoint whose condition fails, or at a logpoint:
\* set_continue, whatever the program was doing.
SkipBreakpoint ==
    /\ TraceEvent("falseBreakpoint")
    /\ mode' = "continue"
    /\ UNCHANGED <<main, reason, stepping, stopOnEntry, currentFrame, stopped, frames>>
    /\ UnchangedByTrace

\* (the mutant stops for stopOnEntry only and drops a step)
M_EntryOnly ==
    /\ TraceEvent("line")
    /\ mode # "continue"
    /\ IF stopOnEntry
       THEN /\ BeginStop("entry")
            /\ stopOnEntry' = FALSE
            /\ UNCHANGED <<mode, stepping>>
       ELSE /\ mode' = "continue"
            /\ UNCHANGED <<main, reason, stepping, stopOnEntry, currentFrame,
                           stopped, frames>>
    /\ UnchangedByTrace

\* user_line at any other line: bdb calls it only while it is stepping.
\* consume_stop_state clears the flag that explains the stop.
ReachLine ==
    /\ TraceEvent("line")
    /\ mode # "continue"
    /\ IF stopOnEntry \/ stepping
       THEN /\ BeginStop(IF stopOnEntry THEN "entry" ELSE "step")
            /\ stopOnEntry' = FALSE
            /\ stepping' = (stopOnEntry /\ stepping)
            /\ UNCHANGED mode
       ELSE /\ mode' = "continue"
            /\ UNCHANGED <<main, reason, stepping, stopOnEntry, currentFrame,
                           stopped, frames>>
    /\ UnchangedByTrace

\* user_line at a line where a watched value has changed; in mode continue bdb
\* calls it at breakpoint lines only.  A watch whose own condition fails is
\* passed over, and so is a breakpoint on that line.
WatchChanged ==
    /\ TraceEvent("watch")
    /\ \/ BeginStop("data breakpoint")
       \/ UNCHANGED <<main, reason, currentFrame, stopped, frames>>
    /\ UNCHANGED <<mode, stepping, stopOnEntry>>
    /\ UnchangedByTrace

\* send_message("stopped").  After a data breakpoint user_line returns; after
\* any other stop the thread goes on to process_commands.  A dead connection
\* may make the send raise, which unwinds the program.
EmitStopped ==
    /\ alive /\ main = "emitting"
    /\ SafeSend([kind |-> "stopped", stop |-> lines])
    /\ \/ /\ main' = IF reason = "data breakpoint" THEN "running" ELSE "stopped"
          /\ stops' = stops + (IF reason = "data breakpoint" THEN 0 ELSE 1)
       \/ /\ ~connOpen
          /\ main' = "ending"
          /\ UNCHANGED stops
    /\ UNCHANGED <<clientVars, connOpen, toDebuggee, sessionVars, receiverVars,
                   dbgVars, resumeAcks, configAcked, startedAnyway>>

\* process_queued_commands_launcher: clear the event, then poll it and
\* is_terminated until one of them is set.
EnterWait ==
    /\ alive /\ main = "stopped"
    /\ main' = "waiting"
    /\ resumeEvent' = FALSE
    /\ UNCHANGED <<clientVars, channelVars, debugger, configDone, isTerminated,
                   alive, receiverVars, dbgVars, historyVars>>

\* (the mutant does not look for the end of the session while it waits)
M_LeaveOnEventOnly ==
    /\ alive /\ main = "waiting"
    /\ resumeEvent
    /\ main' = "resumed"
    /\ UNCHANGED <<clientVars, channelVars, sessionVars, receiverVars, dbgVars,
                   historyVars>>

LeaveWait ==
    /\ alive /\ main = "waiting"
    /\ resumeEvent \/ isTerminated
    /\ main' = "resumed"
    /\ UNCHANGED <<clientVars, channelVars, sessionVars, receiverVars, dbgVars,
                   historyVars>>

\* Only the stepping path of user_line calls clear_frames after a stop.
ResumeProgram ==
    /\ alive /\ main = "resumed"
    /\ main' = "running"
    /\ frames' = IF reason \in {"step", "entry"} THEN NoStack ELSE frames
    /\ UNCHANGED <<clientVars, channelVars, sessionVars, receiverVars, reason, mode,
                   stepping, stopOnEntry, currentFrame, stopped, lines, historyVars>>

EndProgram ==
    /\ alive /\ main = "running"
    /\ main' = "ending"
    /\ UNCHANGED <<clientVars, channelVars, sessionVars, receiverVars, dbgVars,
                   historyVars>>

\* The finally clause of main(): exited, then terminated; a failed send skips
\* the rest.  The receiver is a daemon thread and dies with the interpreter.
SendExitEvents ==
    /\ alive /\ main \in {"ending", "exitedSent"}
    /\ IF main = "ending"
       THEN /\ SafeSend([kind |-> "exited"])
            /\ main' \in (IF connOpen THEN {"exitedSent"} ELSE {"exitedSent", "done"})
       ELSE /\ SafeSend([kind |-> "terminated"])
            /\ main' = "done"
    /\ UNCHANGED <<clientVars, connOpen, toDebuggee, sessionVars, receiverVars,
                   dbgVars, historyVars>>

InterpreterExit ==
    /\ alive /\ main = "done"
    /\ alive' = FALSE
    /\ UNCHANGED <<clientVars, channelVars, debugger, configDone, resumeEvent,
                   isTerminated, receiverVars, main, dbgVars, historyVars>>

MainThread ==
    \/ ConfigureDebugger \/ StartProgram
    \/ HitBreakpoint \/ SkipBreakpoint \/ ReachLine \/ WatchChanged
    \/ EmitStopped \/ EnterWait \/ LeaveWait \/ ResumeProgram
    \/ EndProgram \/ SendExitEvents \/ InterpreterExit

-----------------------------------------------------------------------------
Next ==
    \/ \E c \in Commands : SendCommand(c)
    \/ ReadMessage
    \/ CloseConnection
    \/ Receiver
    \/ MainThread

Spec == Init /\ [][Next]_vars

\* Both threads are scheduled by the operating system, and the user's program
\* is one that ends.
FairSpec == Spec /\ WF_vars(Receiver) /\ WF_vars(MainThread)

-----------------------------------------------------------------------------
(***************************************************************************)
(* Properties.                                                             *)
(***************************************************************************)
Resuming == request \in StepCommands \cup {"continue"}

Halted == main \in {"stopped", "waiting"}

\* The response to a resume command is on the wire before the stop that the
\* command leads to, and one resume command buys one stop: the dispatcher
\* signals only after the handler has answered, and
\* process_queued_commands_launcher forgets the signals of earlier stops.
StopNeedsAck == ~isTerminated => stops <= resumeAcks + 1

\* No stop is reported before configurationDone has been answered, unless the
\* launcher gave up waiting for it.
ConfigAckBeforeStop == stops > 0 => configAcked \/ startedAnyway

\* Every stop, the first and each after a resume command, comes after the answer to the
\* command that led to it.
StopsFollowAnswers == StopNeedsAck /\ ConfigAckBeforeStop

\* The stack the debuggee would show a client that sees the thread stopped is
\* the stack of the stop the client has seen, never one that a later event or
\* the clean-up after the resume has replaced.
StackOfSeenStop ==
    view = "stopped" /\ ~isTerminated => frames = seenStop /\ currentFrame = seenStop

\* A step in progress ends by stopping: an event the debugger looks at on the
\* way either stops the program or leaves the step as it was.
StepCompletes ==
    [][lines' # lines /\ stepping /\ mode # "continue"
          => main' = "emitting" \/ mode' = mode]_vars

\* The debugger thread does not outlast the end of the session in its wait.
TerminatedUnblocks == isTerminated ~> (~Halted \/ ~alive)

\* A debuggee whose adapter has gone away does not stay behind.
OrphanExits == ~connOpen ~> (~alive \/ isTerminated)

\* A resume command that is being handled while the debugger thread waits gets
\* it out of the wait.
ResumeWakes == main = "waiting" /\ step # 0 /\ Resuming ~> (main # "waiting" \/ ~alive)

\* A resume command that is being handled while the program is halted gets it
\* going again.
ResumeHeeded == Halted /\ step # 0 /\ Resuming ~> (~Halted \/ ~alive)

=============================================================================
