---------------------- MODULE LauncherSession_proofs ----------------------
(***************************************************************************)
(* Proofs about LauncherSession, for every set of commands and trace       *)
(* events, about ExceptionBreakpoints, for all types of exceptions and all *)
(* conditions, and about Watches, for all names, expressions, values and   *)
(* breakpoints; each for every bound.                                      *)
(***************************************************************************)
EXTENDS LauncherSession, ExceptionBreakpoints, Watches, SequenceTheorems, TLAPS

USE CommandsAssumption, TraceEventsAssumption, EntryAssumption, BoundsAssumption
USE DEF AllCommands, ResumeCommands, StepCommands

-----------------------------------------------------------------------------
(***************************************************************************)
(* Type correctness.                                                       *)
(***************************************************************************)

\* Every handler has at least one step and at most four.
LEMMA ScriptLength ==
    ASSUME NEW c \in AllCommands
    PROVE  Len(Script(c)) \in 1..4
BY DEF Script

\* Going to the next step of a handler leaves the receiver well typed.
LEMMA AdvanceType ==
    ASSUME ReceiverTypeOK, step # 0, Advance, UNCHANGED <<current, request>>
    PROVE  ReceiverTypeOK'
<1>1. Len(Script(request)) \in 1..4
  BY ScriptLength DEF ReceiverTypeOK
<1>2. step' \in 0..Len(Script(request))
  BY <1>1 DEF Advance, ReceiverTypeOK
<1> QED
  BY <1>2 DEF ReceiverTypeOK

\* What safe_send leaves behind is a sequence of messages.
LEMMA SafeSendType ==
    ASSUME ChannelTypeOK, NEW m \in Message, SafeSend(m), toDebuggee' = toDebuggee
    PROVE  ChannelTypeOK'
BY DEF ChannelTypeOK, SafeSend

\* No stack, and the stack of each stop, are stacks.
LEMMA StackNumbers ==
    /\ NoStack \in Stacks /\ Elsewhere \in Stacks
    /\ \A n \in 0..MaxLines : n \in Stacks
<1>1. 0 \in 0..MaxLines
  OBVIOUS
<1> QED
  BY <1>1 DEF Stacks, NoStack, Elsewhere

\* Parts of the state that a step leaves alone keep their types.
LEMMA TypeUnchanged ==
    /\ ClientTypeOK /\ UNCHANGED <<view, seenStop, sent>> => ClientTypeOK'
    /\ ChannelTypeOK /\ UNCHANGED <<toDebuggee, toClient>> => ChannelTypeOK'
    /\ ReceiverTypeOK /\ UNCHANGED receiverVars => ReceiverTypeOK'
    /\ DebuggerTypeOK /\ UNCHANGED <<main, reason, mode, currentFrame, frames, lines>>
          => DebuggerTypeOK'
    /\ HistoryTypeOK /\ UNCHANGED <<stops, resumeAcks>> => HistoryTypeOK'
<1>1. ClientTypeOK /\ UNCHANGED <<view, seenStop, sent>> => ClientTypeOK'
  BY DEF ClientTypeOK
<1>2. ChannelTypeOK /\ UNCHANGED <<toDebuggee, toClient>> => ChannelTypeOK'
  BY DEF ChannelTypeOK
<1>3. ReceiverTypeOK /\ UNCHANGED receiverVars => ReceiverTypeOK'
  BY DEF ReceiverTypeOK, receiverVars
<1>4. DebuggerTypeOK /\ UNCHANGED <<main, reason, mode, currentFrame, frames, lines>>
          => DebuggerTypeOK'
  BY DEF DebuggerTypeOK
<1>5. HistoryTypeOK /\ UNCHANGED <<stops, resumeAcks>> => HistoryTypeOK'
  BY DEF HistoryTypeOK
<1> QED
  BY <1>1, <1>2, <1>3, <1>4, <1>5

LEMMA TypeInit == Init => TypeOK
<1> SUFFICES ASSUME Init PROVE TypeOK
  OBVIOUS
<1> USE DEF Init
<1>1. FlagsTypeOK
  BY DEF FlagsTypeOK
<1>2. ClientTypeOK
  BY StackNumbers DEF ClientTypeOK
<1>3. ChannelTypeOK
  BY DEF ChannelTypeOK
<1>4. ReceiverTypeOK
  BY ScriptLength DEF ReceiverTypeOK
<1>5. DebuggerTypeOK
  BY StackNumbers DEF DebuggerTypeOK, Reasons
<1>6. HistoryTypeOK
  BY DEF HistoryTypeOK
<1> QED
  BY <1>1, <1>2, <1>3, <1>4, <1>5, <1>6 DEF TypeOK

\* A command is received at the first step of its handler.
LEMMA ReceiveType ==
    ASSUME NEW m \in Command, current' = m.id, request' = m.cmd, step' = 1
    PROVE  ReceiverTypeOK'
<1>1. m.id \in 1..MaxCommands /\ m.cmd \in AllCommands
  BY DEF Command
<1>2. Len(Script(m.cmd)) \in 1..4
  BY <1>1, ScriptLength
<1> QED
  BY SMTT(30), <1>1, <1>2 DEF ReceiverTypeOK

\* The number of a trace event is within its bound.
LEMMA TraceEventLines ==
    ASSUME DebuggerTypeOK, NEW e, TraceEvent(e)
    PROVE  lines' \in 0..MaxLines
<1>1. lines \in 0..MaxLines
  BY DEF DebuggerTypeOK
<1>2. lines < MaxLines /\ lines' = lines + 1
  BY DEF TraceEvent
<1> QED
  BY <1>1, <1>2

\* The counters stay counters.
LEMMA CountersType ==
    ASSUME HistoryTypeOK, stops' = stops \/ stops' = stops + 1,
           resumeAcks' = resumeAcks \/ resumeAcks' = resumeAcks + 1
    PROVE  HistoryTypeOK'
BY DEF HistoryTypeOK

\* The bookkeeping of a stop is well typed.
LEMMA BeginStopType ==
    ASSUME DebuggerTypeOK, NEW r \in Reasons, BeginStop(r), lines' \in 0..MaxLines,
           mode' = mode
    PROVE  DebuggerTypeOK'
BY StackNumbers DEF DebuggerTypeOK, BeginStop

LEMMA TypeNext == TypeOK /\ [Next]_vars => TypeOK'
<1> SUFFICES ASSUME TypeOK, [Next]_vars PROVE TypeOK'
  OBVIOUS
<1> USE DEF TypeOK, clientVars, channelVars, sessionVars, receiverVars, dbgVars,
            historyVars, UnchangedByTrace
<1>1. ASSUME NEW c \in Commands, SendCommand(c) PROVE TypeOK'
  <2> USE <1>1 DEF SendCommand
  <2>1. FlagsTypeOK'
    BY DEF FlagsTypeOK
  <2>2. ClientTypeOK'
    BY DEF ClientTypeOK
  <2>3. ChannelTypeOK'
    BY DEF ChannelTypeOK, ClientTypeOK, Command
  <2>4. ReceiverTypeOK' /\ DebuggerTypeOK' /\ HistoryTypeOK'
    BY TypeUnchanged
  <2> QED
    BY <2>1, <2>2, <2>3, <2>4
<1>2. CASE ReadMessage
  <2> USE <1>2 DEF ReadMessage
  <2>1. FlagsTypeOK'
    BY DEF FlagsTypeOK
  <2>2. ClientTypeOK'
    <3>1. Head(toClient) \in Message
      BY DEF ChannelTypeOK
    <3>2. Head(toClient).kind = "stopped" => Head(toClient).stop \in Stacks
      BY <3>1 DEF Message
    <3> QED
      BY <3>2 DEF ClientTypeOK
  <2>3. ChannelTypeOK'
    BY DEF ChannelTypeOK
  <2>4. ReceiverTypeOK' /\ DebuggerTypeOK' /\ HistoryTypeOK'
    BY TypeUnchanged
  <2> QED
    BY <2>1, <2>2, <2>3, <2>4
<1>3. CASE CloseConnection
  <2> USE <1>3 DEF CloseConnection
  <2>1. FlagsTypeOK'
    BY DEF FlagsTypeOK
  <2>2. ChannelTypeOK'
    <3>1. <<>> \in Seq(Command) /\ <<>> \in Seq(Message)
      OBVIOUS
    <3>2. toDebuggee' = toDebuggee \/ toDebuggee' = <<>>
      OBVIOUS
    <3> QED
      BY <3>1, <3>2 DEF ChannelTypeOK
  <2>3. ClientTypeOK' /\ ReceiverTypeOK' /\ DebuggerTypeOK' /\ HistoryTypeOK'
    BY TypeUnchanged
  <2> QED
    BY <2>1, <2>2, <2>3
<1>4. CASE ReceiveCommand
  <2> USE <1>4 DEF ReceiveCommand
  <2>1. FlagsTypeOK'
    BY DEF FlagsTypeOK
  <2>2. ChannelTypeOK'
    BY DEF ChannelTypeOK
  <2>3. ReceiverTypeOK'
    <3>1. Head(toDebuggee) \in Command
      BY DEF ChannelTypeOK
    <3> QED
      BY <3>1, ReceiveType
  <2>4. ClientTypeOK' /\ DebuggerTypeOK' /\ HistoryTypeOK'
    BY TypeUnchanged
  <2> QED
    BY <2>1, <2>2, <2>3, <2>4
<1>5. CASE ReceiveEOF
  <2> USE <1>5 DEF ReceiveEOF
  <2>1. FlagsTypeOK'
    BY DEF FlagsTypeOK
  <2>2. ClientTypeOK' /\ ChannelTypeOK' /\ ReceiverTypeOK' /\ DebuggerTypeOK' /\ HistoryTypeOK'
    BY TypeUnchanged
  <2> QED
    BY <2>1, <2>2
<1>6. CASE HandlerImpl
  <2> USE <1>6 DEF HandlerImpl
  <2>1. FlagsTypeOK'
    BY ZenonT(40) DEF FlagsTypeOK, ContinueImpl, StepImpl, PauseImpl
  <2>2. ReceiverTypeOK'
    BY AdvanceType DEF Doing
  <2>3. DebuggerTypeOK'
    BY StackNumbers DEF DebuggerTypeOK, ContinueImpl, StepImpl, PauseImpl
  <2>4. ClientTypeOK' /\ ChannelTypeOK' /\ HistoryTypeOK'
    BY TypeUnchanged
  <2> QED
    BY <2>1, <2>2, <2>3, <2>4
<1>7. CASE SendResponse
  <2> USE <1>7 DEF SendResponse
  <2>1. FlagsTypeOK'
    BY DEF FlagsTypeOK
  <2>2. ChannelTypeOK'
    <3>1. current \in 1..MaxCommands
      BY DEF Doing, ReceiverTypeOK
    <3>2. [kind |-> "response", id |-> current] \in Message
      BY <3>1 DEF Message
    <3> QED
      BY <3>2, SafeSendType
  <2>3. ReceiverTypeOK'
    BY AdvanceType DEF Doing
  <2>4. HistoryTypeOK'
    <3>1. resumeAcks' = resumeAcks + (IF request \in ResumeCommands THEN 1 ELSE 0)
      OBVIOUS
    <3>2. resumeAcks \in Nat
      BY DEF HistoryTypeOK
    <3> HIDE <1>7 DEF SendResponse, TypeOK
    <3>3. resumeAcks' = resumeAcks \/ resumeAcks' = resumeAcks + 1
      BY <3>1, <3>2
    <3>4. stops' = stops
      BY <1>7 DEF SendResponse
    <3> QED
      BY <3>3, <3>4, CountersType DEF TypeOK
  <2>5. ClientTypeOK' /\ DebuggerTypeOK'
    BY TypeUnchanged
  <2> QED
    BY <2>1, <2>2, <2>3, <2>4, <2>5
<1>8. CASE SignalResume
  <2> USE <1>8 DEF SignalResume
  <2>1. FlagsTypeOK'
    BY DEF FlagsTypeOK
  <2>2. ReceiverTypeOK'
    BY AdvanceType DEF Doing
  <2>3. ClientTypeOK' /\ ChannelTypeOK' /\ DebuggerTypeOK' /\ HistoryTypeOK'
    BY TypeUnchanged
  <2> QED
    BY <2>1, <2>2, <2>3
<1>9. CASE SetConfigurationDone
  <2> USE <1>9 DEF SetConfigurationDone
  <2>1. FlagsTypeOK'
    BY DEF FlagsTypeOK
  <2>2. ReceiverTypeOK'
    BY AdvanceType DEF Doing
  <2>3. ClientTypeOK' /\ ChannelTypeOK' /\ DebuggerTypeOK' /\ HistoryTypeOK'
    BY TypeUnchanged
  <2> QED
    BY <2>1, <2>2, <2>3
<1>10. CASE EmitPaused
  <2> USE <1>10 DEF EmitPaused
  <2>1. FlagsTypeOK'
    BY DEF FlagsTypeOK
  <2>2. ChannelTypeOK'
    <3>1. [kind |-> "stopped", stop |-> Elsewhere] \in Message
      BY StackNumbers DEF Message
    <3>2. CASE debugger
      BY <3>1, <3>2, SafeSendType
    <3>3. CASE ~debugger
      BY <3>3, TypeUnchanged
    <3> QED
      BY <3>2, <3>3
  <2>3. ReceiverTypeOK'
    BY AdvanceType DEF Doing
  <2>4. ClientTypeOK' /\ DebuggerTypeOK' /\ HistoryTypeOK'
    BY TypeUnchanged
  <2> QED
    BY <2>1, <2>2, <2>3, <2>4
<1>11. CASE EmitExited
  <2> USE <1>11 DEF EmitExited
  <2>1. FlagsTypeOK'
    BY DEF FlagsTypeOK
  <2>2. ChannelTypeOK'
    BY SafeSendType DEF Message
  <2>3. ReceiverTypeOK'
    BY AdvanceType DEF Doing
  <2>4. ClientTypeOK' /\ DebuggerTypeOK' /\ HistoryTypeOK'
    BY TypeUnchanged
  <2> QED
    BY <2>1, <2>2, <2>3, <2>4
<1>12. CASE TerminateSession
  <2> USE <1>12 DEF TerminateSession
  <2>1. FlagsTypeOK'
    BY DEF FlagsTypeOK
  <2>2. ReceiverTypeOK'
    BY AdvanceType DEF Doing
  <2>3. ClientTypeOK' /\ ChannelTypeOK' /\ DebuggerTypeOK' /\ HistoryTypeOK'
    BY TypeUnchanged
  <2> QED
    BY <2>1, <2>2, <2>3
<1>13. CASE ExitProcess
  <2> USE <1>13 DEF ExitProcess
  <2>1. FlagsTypeOK'
    BY DEF FlagsTypeOK
  <2>2. ReceiverTypeOK'
    BY AdvanceType DEF Doing
  <2>3. ClientTypeOK' /\ ChannelTypeOK' /\ DebuggerTypeOK' /\ HistoryTypeOK'
    BY TypeUnchanged
  <2> QED
    BY <2>1, <2>2, <2>3
<1>14. CASE ConfigureDebugger
  <2> USE <1>14 DEF ConfigureDebugger
  <2>1. FlagsTypeOK'
    BY DEF FlagsTypeOK
  <2>2. DebuggerTypeOK'
    BY DEF DebuggerTypeOK
  <2>3. ClientTypeOK' /\ ChannelTypeOK' /\ ReceiverTypeOK' /\ HistoryTypeOK'
    BY TypeUnchanged
  <2> QED
    BY <2>1, <2>2, <2>3
<1>15. CASE StartProgram
  <2> USE <1>15 DEF StartProgram
  <2>1. FlagsTypeOK'
    BY DEF FlagsTypeOK
  <2>2. DebuggerTypeOK'
    BY DEF DebuggerTypeOK
  <2>3. ClientTypeOK' /\ ChannelTypeOK' /\ ReceiverTypeOK' /\ HistoryTypeOK'
    BY TypeUnchanged
  <2> QED
    BY <2>1, <2>2, <2>3
<1>16. CASE HitBreakpoint
  <2> USE <1>16 DEF HitBreakpoint
  <2>1. FlagsTypeOK'
    BY DEF FlagsTypeOK, TraceEvent, BeginStop
  <2>2. DebuggerTypeOK'
    <3>1. PICK e \in {"breakpoint", "exception", "function"} :
                TraceEvent(e) /\ BeginStop(IF e = "function" THEN "function breakpoint" ELSE e)
      OBVIOUS
    <3>2. lines' \in 0..MaxLines
      BY <3>1, TraceEventLines
    <3>3. (IF e = "function" THEN "function breakpoint" ELSE e) \in Reasons
      BY <3>1 DEF Reasons
    <3> QED
      BY <3>1, <3>2, <3>3, BeginStopType DEF DebuggerTypeOK
  <2>3. ClientTypeOK' /\ ChannelTypeOK' /\ ReceiverTypeOK' /\ HistoryTypeOK'
    BY TypeUnchanged DEF TraceEvent, BeginStop
  <2> QED
    BY <2>1, <2>2, <2>3
<1>17. CASE SkipBreakpoint
  <2> USE <1>17 DEF SkipBreakpoint
  <2>1. FlagsTypeOK'
    BY DEF FlagsTypeOK, TraceEvent, BeginStop
  <2>2. DebuggerTypeOK'
    BY DEF DebuggerTypeOK, TraceEvent
  <2>3. ClientTypeOK' /\ ChannelTypeOK' /\ ReceiverTypeOK' /\ HistoryTypeOK'
    BY TypeUnchanged DEF TraceEvent, BeginStop
  <2> QED
    BY <2>1, <2>2, <2>3
<1>18. CASE ReachLine
  <2> USE <1>18 DEF ReachLine
  <2>1. FlagsTypeOK'
    BY DEF FlagsTypeOK, TraceEvent, BeginStop
  <2>2. DebuggerTypeOK'
    <3>1. lines' \in 0..MaxLines
      BY TraceEventLines
    <3>2. CASE stopOnEntry \/ stepping
      <4>1. (IF stopOnEntry THEN "entry" ELSE "step") \in Reasons
        BY DEF Reasons
      <4> QED
        BY <3>1, <3>2, <4>1, BeginStopType DEF DebuggerTypeOK
    <3>3. CASE ~(stopOnEntry \/ stepping)
      BY <3>1, <3>3 DEF DebuggerTypeOK
    <3> QED
      BY <3>2, <3>3
  <2>3. ClientTypeOK' /\ ChannelTypeOK' /\ ReceiverTypeOK' /\ HistoryTypeOK'
    BY TypeUnchanged DEF TraceEvent, BeginStop
  <2> QED
    BY <2>1, <2>2, <2>3
<1>19. CASE WatchChanged
  <2> USE <1>19 DEF WatchChanged
  <2>1. FlagsTypeOK'
    BY DEF FlagsTypeOK, TraceEvent, BeginStop
  <2>2. DebuggerTypeOK'
    <3>1. lines' \in 0..MaxLines
      BY TraceEventLines
    <3>2. CASE BeginStop("data breakpoint")
      BY <3>1, <3>2, BeginStopType DEF DebuggerTypeOK, Reasons, TraceEvent
    <3>3. CASE UNCHANGED <<main, reason, currentFrame, stopped, frames>>
      BY <3>1, <3>3 DEF DebuggerTypeOK
    <3> QED
      BY <3>2, <3>3
  <2>3. ClientTypeOK' /\ ChannelTypeOK' /\ ReceiverTypeOK' /\ HistoryTypeOK'
    BY TypeUnchanged DEF TraceEvent, BeginStop
  <2> QED
    BY <2>1, <2>2, <2>3
<1>20. CASE EmitStopped
  <2> USE <1>20 DEF EmitStopped
  <2>1. FlagsTypeOK'
    BY DEF FlagsTypeOK
  <2>2. ChannelTypeOK'
    BY SafeSendType, StackNumbers DEF Message, DebuggerTypeOK
  <2>3. DebuggerTypeOK'
    BY DEF DebuggerTypeOK
  <2>4. HistoryTypeOK'
    <3>1. stops' = stops \/ stops' = stops + 0 \/ stops' = stops + 1
      OBVIOUS
    <3>2. stops \in Nat /\ resumeAcks' = resumeAcks
      BY DEF HistoryTypeOK
    <3> HIDE <1>20 DEF EmitStopped, TypeOK
    <3>3. stops' = stops \/ stops' = stops + 1
      BY <3>1, <3>2
    <3> QED
      BY <3>2, <3>3, CountersType DEF TypeOK
  <2>5. ClientTypeOK' /\ ReceiverTypeOK'
    BY TypeUnchanged
  <2> QED
    BY <2>1, <2>2, <2>3, <2>4, <2>5
<1>21. CASE EnterWait
  <2> USE <1>21 DEF EnterWait
  <2>1. FlagsTypeOK'
    BY DEF FlagsTypeOK
  <2>2. DebuggerTypeOK'
    BY DEF DebuggerTypeOK
  <2>3. ClientTypeOK' /\ ChannelTypeOK' /\ ReceiverTypeOK' /\ HistoryTypeOK'
    BY TypeUnchanged
  <2> QED
    BY <2>1, <2>2, <2>3
<1>22. CASE LeaveWait
  <2> USE <1>22 DEF LeaveWait
  <2>1. FlagsTypeOK'
    BY DEF FlagsTypeOK
  <2>2. DebuggerTypeOK'
    BY DEF DebuggerTypeOK
  <2>3. ClientTypeOK' /\ ChannelTypeOK' /\ ReceiverTypeOK' /\ HistoryTypeOK'
    BY TypeUnchanged
  <2> QED
    BY <2>1, <2>2, <2>3
<1>23. CASE ResumeProgram
  <2> USE <1>23 DEF ResumeProgram
  <2>1. FlagsTypeOK'
    BY DEF FlagsTypeOK
  <2>2. DebuggerTypeOK'
    BY StackNumbers DEF DebuggerTypeOK
  <2>3. ClientTypeOK' /\ ChannelTypeOK' /\ ReceiverTypeOK' /\ HistoryTypeOK'
    BY TypeUnchanged
  <2> QED
    BY <2>1, <2>2, <2>3
<1>24. CASE EndProgram
  <2> USE <1>24 DEF EndProgram
  <2>1. FlagsTypeOK'
    BY DEF FlagsTypeOK
  <2>2. DebuggerTypeOK'
    BY DEF DebuggerTypeOK
  <2>3. ClientTypeOK' /\ ChannelTypeOK' /\ ReceiverTypeOK' /\ HistoryTypeOK'
    BY TypeUnchanged
  <2> QED
    BY <2>1, <2>2, <2>3
<1>25. CASE SendExitEvents
  <2> USE <1>25 DEF SendExitEvents
  <2>1. FlagsTypeOK'
    BY DEF FlagsTypeOK
  <2>2. ChannelTypeOK'
    BY SafeSendType DEF Message
  <2>3. DebuggerTypeOK'
    BY DEF DebuggerTypeOK
  <2>4. ClientTypeOK' /\ ReceiverTypeOK' /\ HistoryTypeOK'
    BY TypeUnchanged
  <2> QED
    BY <2>1, <2>2, <2>3, <2>4
<1>26. CASE InterpreterExit
  <2> USE <1>26 DEF InterpreterExit
  <2>1. FlagsTypeOK'
    BY DEF FlagsTypeOK
  <2>2. ClientTypeOK' /\ ChannelTypeOK' /\ ReceiverTypeOK' /\ DebuggerTypeOK' /\ HistoryTypeOK'
    BY TypeUnchanged
  <2> QED
    BY <2>1, <2>2
<1>27. CASE UNCHANGED vars
  BY <1>27, TypeUnchanged DEF vars, FlagsTypeOK
<1> QED
  BY <1>1, <1>2, <1>3, <1>4, <1>5, <1>6, <1>7, <1>8, <1>9, <1>10, <1>11, <1>12, <1>13, <1>14, <1>15, <1>16, <1>17, <1>18, <1>19, <1>20, <1>21, <1>22, <1>23, <1>24, <1>25, <1>26, <1>27 DEF Next, Receiver, MainThread

\* Whatever the adapter sends and the program does, every variable keeps its
\* type and the receiver thread never runs off the end of a handler.
THEOREM TypeCorrect == Spec => []TypeOK
BY TypeInit, TypeNext, PTL DEF Spec

-----------------------------------------------------------------------------
(***************************************************************************)
(* One resume command, one stop.  StopNeedsAck is not inductive: it has to *)
(* be known where the answers to resume commands have gone.  Each of them  *)
(* is still to be signalled, waits in the resume event for the thread that *)
(* waits for it, has ended an earlier stop, or was lost.                   *)
(***************************************************************************)
SignalPending == step # 0 /\ Script(request)[step] = "signalResume"

WakeUpPending == main = "waiting" /\ resumeEvent

\* Answers that can still end a stop.
Owed == (IF SignalPending THEN 1 ELSE 0) + (IF WakeUpPending THEN 1 ELSE 0)

AckCredit ==
    ~isTerminated => stops + Owed <= resumeAcks + (IF Halted THEN 1 ELSE 0)

\* A handler comes to signal the resume event from nothing but the answer to a
\* resume command, and never signals it twice.
LEMMA SignalFollowsResponse ==
    ASSUME ReceiverTypeOK, step # 0, Advance, request' = request
    PROVE  /\ SignalPending' <=> Resuming /\ Script(request)[step] = "respond"
           /\ SignalPending => step' = 0
BY DEF ReceiverTypeOK, Advance, SignalPending, Script, Resuming

\* No handler begins by signalling.
LEMMA NoSignalAtStart ==
    ASSUME NEW c \in AllCommands
    PROVE  Script(c)[1] # "signalResume"
BY DEF Script
\* A step that touches neither the counts nor the wait spends no credit.
LEMMA CreditKept ==
    ASSUME HistoryTypeOK, AckCredit, stops' = stops, resumeAcks' = resumeAcks,
           isTerminated' = isTerminated, Halted' <=> Halted,
           SignalPending' => SignalPending, WakeUpPending' => WakeUpPending
    PROVE  AckCredit'
BY DEF AckCredit, Owed, HistoryTypeOK

LEMMA CreditNext == TypeOK /\ AckCredit /\ [Next]_vars => AckCredit'
<1> SUFFICES ASSUME TypeOK, AckCredit, [Next]_vars PROVE AckCredit'
  OBVIOUS
<1> USE DEF clientVars, channelVars, sessionVars, receiverVars, dbgVars, historyVars,
            UnchangedByTrace
<1>t. HistoryTypeOK /\ ReceiverTypeOK /\ ChannelTypeOK
  BY DEF TypeOK
<1>1. ASSUME NEW c \in Commands, SendCommand(c) PROVE AckCredit'
  BY <1>1, <1>t, CreditKept DEF SendCommand, Halted, SignalPending, WakeUpPending
<1>2. CASE ReadMessage
  BY <1>2, <1>t, CreditKept DEF ReadMessage, Halted, SignalPending, WakeUpPending
<1>3. CASE CloseConnection
  BY <1>3, <1>t, CreditKept DEF CloseConnection, Halted, SignalPending, WakeUpPending
<1>4. CASE ReceiveCommand
  <2>1. Head(toDebuggee).cmd \in AllCommands
    <3>1. Head(toDebuggee) \in Command
      BY <1>4, <1>t DEF ReceiveCommand, ChannelTypeOK
    <3> QED
      BY <3>1 DEF Command
  <2>2. ~SignalPending'
    BY <1>4, <2>1, NoSignalAtStart DEF ReceiveCommand, SignalPending
  <2> QED
    BY <1>4, <1>t, <2>2, CreditKept DEF ReceiveCommand, Halted, WakeUpPending
<1>5. CASE ReceiveEOF
  BY <1>5, <1>t, CreditKept DEF ReceiveEOF, Halted, SignalPending, WakeUpPending
<1>6. CASE SendResponse
  <2>1. SignalPending' <=> Resuming
    BY <1>6, <1>t, SignalFollowsResponse DEF SendResponse, Doing
  <2>2. ~SignalPending /\ UNCHANGED <<stops, main, resumeEvent, isTerminated>>
    BY <1>6 DEF SendResponse, Doing, SignalPending
  <2>3. (Halted' <=> Halted) /\ (WakeUpPending' <=> WakeUpPending)
    BY <2>2 DEF Halted, WakeUpPending
  <2>4. resumeAcks' = resumeAcks + (IF request \in ResumeCommands THEN 1 ELSE 0)
    BY <1>6 DEF SendResponse
  <2>5. CASE Resuming
    <3>1. resumeAcks' = resumeAcks + 1
      BY <2>4, <2>5 DEF Resuming
    <3> QED
      BY <1>t, <2>1, <2>2, <2>3, <2>5, <3>1 DEF AckCredit, Owed, HistoryTypeOK
  <2>6. CASE ~Resuming
    <3>1. resumeAcks' = resumeAcks \/ resumeAcks' = resumeAcks + 1
      BY <1>t, <2>4 DEF HistoryTypeOK
    <3> QED
      BY <1>t, <2>1, <2>2, <2>3, <2>6, <3>1 DEF AckCredit, Owed, HistoryTypeOK
  <2> QED
    BY <2>5, <2>6
<1>7. CASE SignalResume
  <2>1. SignalPending /\ ~SignalPending'
    BY <1>7, <1>t, SignalFollowsResponse DEF SignalResume, Doing, SignalPending
  <2>2. UNCHANGED <<stops, resumeAcks, main, isTerminated>>
    BY <1>7 DEF SignalResume
  <2>3. Halted' <=> Halted
    BY <2>2 DEF Halted
  <2> QED
    BY <1>t, <2>1, <2>2, <2>3 DEF AckCredit, Owed, HistoryTypeOK
<1>8. CASE TerminateSession
  BY <1>8 DEF TerminateSession, AckCredit
<1>9. CASE HandlerImpl
  <2>1. ~SignalPending'
    BY <1>9, <1>t, SignalFollowsResponse DEF HandlerImpl, Doing
  <2> QED
    BY <1>9, <1>t, <2>1, CreditKept DEF HandlerImpl, Halted, WakeUpPending
<1>10. CASE SetConfigurationDone
  <2>1. ~SignalPending'
    BY <1>10, <1>t, SignalFollowsResponse DEF SetConfigurationDone, Doing
  <2> QED
    BY <1>10, <1>t, <2>1, CreditKept DEF SetConfigurationDone, Halted, WakeUpPending
<1>11. CASE EmitPaused
  <2>1. ~SignalPending'
    BY <1>11, <1>t, SignalFollowsResponse DEF EmitPaused, Doing
  <2> QED
    BY <1>11, <1>t, <2>1, CreditKept DEF EmitPaused, Halted, WakeUpPending
<1>12. CASE EmitExited
  <2>1. ~SignalPending'
    BY <1>12, <1>t, SignalFollowsResponse DEF EmitExited, Doing
  <2> QED
    BY <1>12, <1>t, <2>1, CreditKept DEF EmitExited, Halted, WakeUpPending
<1>13. CASE ExitProcess
  <2>1. ~SignalPending'
    BY <1>13, <1>t, SignalFollowsResponse DEF ExitProcess, Doing
  <2> QED
    BY <1>13, <1>t, <2>1, CreditKept DEF ExitProcess, Halted, WakeUpPending
<1>14. CASE ConfigureDebugger
  BY <1>14, <1>t, CreditKept DEF ConfigureDebugger, Halted, SignalPending, WakeUpPending
<1>15. CASE StartProgram
  BY <1>15, <1>t, CreditKept DEF StartProgram, Halted, SignalPending, WakeUpPending
<1>16. CASE HitBreakpoint
  BY <1>16, <1>t, CreditKept DEF HitBreakpoint, TraceEvent, BeginStop, Halted, SignalPending, WakeUpPending
<1>17. CASE SkipBreakpoint
  BY <1>17, <1>t, CreditKept DEF SkipBreakpoint, TraceEvent, BeginStop, Halted, SignalPending, WakeUpPending
<1>18. CASE ReachLine
  BY <1>18, <1>t, CreditKept DEF ReachLine, TraceEvent, BeginStop, Halted, SignalPending, WakeUpPending
<1>19. CASE WatchChanged
  BY <1>19, <1>t, CreditKept DEF WatchChanged, TraceEvent, BeginStop, Halted, SignalPending, WakeUpPending
<1>20. CASE EnterWait
  BY <1>20, <1>t, CreditKept DEF EnterWait, Halted, SignalPending, WakeUpPending
<1>21. CASE ResumeProgram
  BY <1>21, <1>t, CreditKept DEF ResumeProgram, Halted, SignalPending, WakeUpPending
<1>22. CASE EndProgram
  BY <1>22, <1>t, CreditKept DEF EndProgram, Halted, SignalPending, WakeUpPending
<1>23. CASE SendExitEvents
  BY <1>23, <1>t, CreditKept DEF SendExitEvents, Halted, SignalPending, WakeUpPending
<1>24. CASE InterpreterExit
  BY <1>24, <1>t, CreditKept DEF InterpreterExit, Halted, SignalPending, WakeUpPending
<1>25. CASE EmitStopped
  <2>1. ~Halted /\ ~WakeUpPending /\ ~WakeUpPending'
    BY <1>25 DEF EmitStopped, Halted, WakeUpPending
  <2>2. (SignalPending' <=> SignalPending) /\ UNCHANGED <<isTerminated, resumeAcks>>
    BY <1>25 DEF EmitStopped, SignalPending
  <2>3. (~Halted' /\ stops' = stops) \/ (Halted' /\ stops' = stops + 1)
    <3>1. stops \in Nat
      BY <1>t DEF HistoryTypeOK
    <3>2. \/ main' = "stopped" /\ stops' = stops + 1
          \/ main' = "running" /\ stops' = stops + 0
          \/ main' = "ending" /\ stops' = stops
      BY <1>25 DEF EmitStopped
    <3> QED
      BY <3>1, <3>2 DEF Halted
  <2> QED
    BY <1>t, <2>1, <2>2, <2>3 DEF AckCredit, Owed, HistoryTypeOK
<1>26. CASE LeaveWait
  <2>1. Halted /\ ~Halted' /\ ~WakeUpPending' /\ (isTerminated \/ WakeUpPending)
    BY <1>26 DEF LeaveWait, Halted, WakeUpPending
  <2>2. (SignalPending' <=> SignalPending) /\ UNCHANGED <<isTerminated, stops, resumeAcks>>
    BY <1>26 DEF LeaveWait, SignalPending
  <2> QED
    BY <1>t, <2>1, <2>2 DEF AckCredit, Owed, HistoryTypeOK
<1>27. CASE UNCHANGED vars
  BY <1>27, <1>t, CreditKept DEF vars, Halted, SignalPending, WakeUpPending
<1> QED
  BY <1>1, <1>2, <1>3, <1>4, <1>5, <1>6, <1>7, <1>8, <1>9, <1>10, <1>11, <1>12, <1>13, <1>14, <1>15, <1>16, <1>17, <1>18, <1>19, <1>20, <1>21, <1>22, <1>23, <1>24, <1>25, <1>26, <1>27 DEF Next, Receiver, MainThread

\* Whatever the client, the program and the interleaving of the two threads,
\* the client has the answer to the command that leads to a stop before the
\* stop, and a resume command never buys more than one.
THEOREM OneStopPerResume == Spec => []StopNeedsAck
<1>1. Init => AckCredit
  BY DEF Init, AckCredit, Owed, SignalPending, WakeUpPending, Halted
<1>2. TypeOK /\ AckCredit => StopNeedsAck
  BY DEF TypeOK, HistoryTypeOK, AckCredit, Owed, Halted, StopNeedsAck
<1> QED
  BY <1>1, <1>2, TypeCorrect, CreditNext, PTL DEF Spec

-----------------------------------------------------------------------------
(***************************************************************************)
(* The answer to configurationDone comes before the first stop: the event  *)
(* that lets the program start is set after the answer, and no stop is     *)
(* possible before the start.                                              *)
(***************************************************************************)
ConfigFirst ==
    /\ configDone => configAcked
    /\ step # 0 /\ Script(request)[step] = "setConfigurationDone" => configAcked
    /\ main \notin {"boot", "awaitConfiguration"} => configAcked \/ startedAnyway
    /\ main \in {"boot", "awaitConfiguration"} => stops = 0

\* The first step of a handler is not to release the program, and only the
\* answer to configurationDone leads to it.
LEMMA ReleaseFollowsResponse ==
    /\ \A c \in AllCommands : Script(c)[1] # "setConfigurationDone"
    /\ ReceiverTypeOK /\ step # 0 /\ Advance /\ request' = request
         => (step' # 0 /\ Script(request')[step'] = "setConfigurationDone"
               => request = "configurationDone" /\ Script(request)[step] = "respond")
BY DEF ReceiverTypeOK, Advance, Script

LEMMA ConfigFirstNext == TypeOK /\ ConfigFirst /\ [Next]_vars => ConfigFirst'
<1> SUFFICES ASSUME TypeOK, ConfigFirst, [Next]_vars PROVE ConfigFirst'
  OBVIOUS
<1> USE DEF clientVars, channelVars, sessionVars, receiverVars, dbgVars, historyVars,
            UnchangedByTrace
<1>t. ReceiverTypeOK /\ ChannelTypeOK
  BY DEF TypeOK
<1>1. ASSUME NEW c \in Commands, SendCommand(c) PROVE ConfigFirst'
  BY <1>1 DEF SendCommand, ConfigFirst
<1>2. CASE ReadMessage
  BY <1>2 DEF ReadMessage, ConfigFirst
<1>3. CASE CloseConnection
  BY <1>3 DEF CloseConnection, ConfigFirst
<1>4. CASE ReceiveCommand
  <2>1. Head(toDebuggee) \in Command
    BY <1>4, <1>t DEF ReceiveCommand, ChannelTypeOK
  <2>2. Head(toDebuggee).cmd \in AllCommands
    BY <2>1 DEF Command
  <2> QED
    BY <1>4, <2>2, ReleaseFollowsResponse DEF ReceiveCommand, ConfigFirst
<1>5. CASE ReceiveEOF
  BY <1>5 DEF ReceiveEOF, ConfigFirst
<1>6. CASE HandlerImpl
  BY <1>6, <1>t, ReleaseFollowsResponse DEF HandlerImpl, Doing, ConfigFirst
<1>7. CASE SendResponse
  BY <1>7, <1>t, ReleaseFollowsResponse DEF SendResponse, Doing, ConfigFirst
<1>8. CASE SignalResume
  BY <1>8, <1>t, ReleaseFollowsResponse DEF SignalResume, Doing, ConfigFirst
<1>9. CASE SetConfigurationDone
  BY <1>9, <1>t, ReleaseFollowsResponse DEF SetConfigurationDone, Doing, ConfigFirst
<1>10. CASE EmitPaused
  BY <1>10, <1>t, ReleaseFollowsResponse DEF EmitPaused, Doing, ConfigFirst
<1>11. CASE EmitExited
  BY <1>11, <1>t, ReleaseFollowsResponse DEF EmitExited, Doing, ConfigFirst
<1>12. CASE TerminateSession
  BY <1>12, <1>t, ReleaseFollowsResponse DEF TerminateSession, Doing, ConfigFirst
<1>13. CASE ExitProcess
  BY <1>13, <1>t, ReleaseFollowsResponse DEF ExitProcess, Doing, ConfigFirst
<1>14. CASE ConfigureDebugger
  BY <1>14 DEF ConfigureDebugger, ConfigFirst
<1>15. CASE StartProgram
  BY <1>15 DEF StartProgram, ConfigFirst
<1>16. CASE HitBreakpoint
  BY <1>16 DEF HitBreakpoint, TraceEvent, BeginStop, ConfigFirst
<1>17. CASE SkipBreakpoint
  BY <1>17 DEF SkipBreakpoint, TraceEvent, BeginStop, ConfigFirst
<1>18. CASE ReachLine
  BY <1>18 DEF ReachLine, TraceEvent, BeginStop, ConfigFirst
<1>19. CASE WatchChanged
  BY <1>19 DEF WatchChanged, TraceEvent, BeginStop, ConfigFirst
<1>20. CASE EmitStopped
  BY <1>20 DEF EmitStopped, ConfigFirst
<1>21. CASE EnterWait
  BY <1>21 DEF EnterWait, ConfigFirst
<1>22. CASE LeaveWait
  BY <1>22 DEF LeaveWait, ConfigFirst
<1>23. CASE ResumeProgram
  BY <1>23 DEF ResumeProgram, ConfigFirst
<1>24. CASE EndProgram
  BY <1>24 DEF EndProgram, ConfigFirst
<1>25. CASE SendExitEvents
  BY <1>25 DEF SendExitEvents, ConfigFirst
<1>26. CASE InterpreterExit
  BY <1>26 DEF InterpreterExit, ConfigFirst
<1>27. CASE UNCHANGED vars
  BY <1>27 DEF vars, ConfigFirst
<1> QED
  BY <1>1, <1>2, <1>3, <1>4, <1>5, <1>6, <1>7, <1>8, <1>9, <1>10, <1>11, <1>12, <1>13, <1>14, <1>15, <1>16, <1>17, <1>18, <1>19, <1>20, <1>21, <1>22, <1>23, <1>24, <1>25, <1>26, <1>27 DEF Next, Receiver, MainThread

\* No interleaving of the receiver and the main thread reports a stop ahead of
\* the answer to configurationDone, unless the wait for it timed out.
THEOREM AckBeforeFirstStop == Spec => []ConfigAckBeforeStop
<1>1. Init => ConfigFirst
  BY DEF Init, ConfigFirst
<1>2. TypeOK /\ ConfigFirst => ConfigAckBeforeStop
  BY DEF ConfigFirst, ConfigAckBeforeStop
<1> QED
  BY <1>1, <1>2, TypeCorrect, ConfigFirstNext, PTL DEF Spec

\* No stop overtakes the answer to the command that led to it, the first stop or a later
\* one (dispatch_debug_command, process_queued_commands_launcher).
THEOREM StopsAlwaysFollowAnswers == Spec => []StopsFollowAnswers
<1>1. StopNeedsAck /\ ConfigAckBeforeStop => StopsFollowAnswers
  BY DEF StopsFollowAnswers
<1> QED
  BY <1>1, OneStopPerResume, AckBeforeFirstStop, PTL

-----------------------------------------------------------------------------
(***************************************************************************)
(* The stack the client sees.  The right to move goes round: from the      *)
(* message that reports a stop to the client that has read it, to the      *)
(* resume command, to the handler, to the wake-up of the main thread and   *)
(* to the program until it stops again.  At most one of them has it, so    *)
(* the program stands where the client was told.                           *)
(***************************************************************************)
ResumeMessages == {m \in Command : m.cmd \in StepCommands \cup {"continue"}}
StopMessages == {m \in Message : m.kind = "stopped"}

None(q, s) == \A i \in DOMAIN q : q[i] \notin s
One(q, s) == \A i, j \in DOMAIN q : q[i] \in s /\ q[j] \in s => i = j

Handling == step # 0 /\ Resuming
Going == ~Halted \/ WakeUpPending

\* Whoever has the right to move has it alone.
Turns ==
    /\ One(toClient, StopMessages) /\ One(toDebuggee, ResumeMessages)
    /\ view = "stopped" => /\ None(toClient, StopMessages)
                           /\ None(toDebuggee, ResumeMessages) /\ ~Handling /\ ~Going
    /\ ~None(toClient, StopMessages) => None(toDebuggee, ResumeMessages) /\ ~Handling /\ ~Going
    /\ ~None(toDebuggee, ResumeMessages) => ~Handling /\ ~Going
    /\ Handling => ~Going

\* A stop is reported, and seen, with the number of the line the program stands at.
Reported ==
    /\ \A i \in DOMAIN toClient : toClient[i] \in StopMessages => toClient[i].stop = lines
    /\ view = "stopped" => seenStop = lines

Standing ==
    /\ main \in {"emitting", "stopped", "waiting"} => frames = lines /\ currentFrame = lines
    /\ reason # "data breakpoint"
    /\ request # "pause" /\ \A i \in DOMAIN toDebuggee : toDebuggee[i].cmd # "pause"

StackInv == Standing /\ (~isTerminated => Turns /\ Reported)

\* Putting a message at the end of a sequence, and taking one from its head.
LEMMA AppendMarked ==
    ASSUME NEW T, NEW s, NEW q \in Seq(T), NEW m \in T
    PROVE  /\ m \notin s => /\ None(q, s) => None(Append(q, m), s)
                            /\ One(q, s) => One(Append(q, m), s)
           /\ None(q, s) => One(Append(q, m), s)
<1> DEFINE r == Append(q, m)
<1>1. /\ Len(q) \in Nat /\ DOMAIN q = 1..Len(q) /\ DOMAIN r = 1..(Len(q) + 1)
      /\ \A i \in 1..Len(q) : r[i] = q[i]
      /\ r[Len(q) + 1] = m
  BY AppendProperties, LenProperties
<1> HIDE DEF r
<1>2. \A i \in DOMAIN r : (i \in DOMAIN q /\ r[i] = q[i]) \/ (i = Len(q) + 1 /\ r[i] = m)
  BY <1>1
<1>3. m \notin s => (None(q, s) => None(r, s)) /\ (One(q, s) => One(r, s))
  BY <1>2 DEF None, One
<1>4. None(q, s) => One(r, s)
  BY <1>2 DEF None, One
<1> QED
  BY <1>3, <1>4 DEF r

LEMMA AppendElements ==
    ASSUME NEW T, NEW q \in Seq(T), NEW m \in T
    PROVE  \A i \in DOMAIN Append(q, m) :
              Append(q, m)[i] = m \/ \E j \in DOMAIN q : q[j] = Append(q, m)[i]
<1> DEFINE r == Append(q, m)
<1>1. /\ Len(q) \in Nat /\ DOMAIN q = 1..Len(q) /\ DOMAIN r = 1..(Len(q) + 1)
      /\ \A i \in 1..Len(q) : r[i] = q[i]
      /\ r[Len(q) + 1] = m
  BY AppendProperties, LenProperties
<1> HIDE DEF r
<1>2. \A i \in DOMAIN r : (i \in DOMAIN q /\ r[i] = q[i]) \/ (i = Len(q) + 1 /\ r[i] = m)
  BY <1>1
<1> QED
  BY <1>2 DEF r

LEMMA TailMarked ==
    ASSUME NEW T, NEW s, NEW q \in Seq(T), q # <<>>
    PROVE  /\ None(q, s) => None(Tail(q), s) /\ Head(q) \notin s
           /\ One(q, s) => One(Tail(q), s) /\ (Head(q) \in s => None(Tail(q), s))
<1> DEFINE r == Tail(q)
<1>1. /\ Len(q) \in Nat /\ Len(q) > 0 /\ DOMAIN q = 1..Len(q) /\ DOMAIN r = 1..(Len(q) - 1)
      /\ \A i \in 1..(Len(q) - 1) : r[i] = q[i + 1]
      /\ Head(q) = q[1]
  BY HeadTailProperties, LenProperties, EmptySeq
<1> HIDE DEF r
<1>2. \A i \in DOMAIN r : i \in Nat /\ i > 0 /\ i + 1 \in DOMAIN q /\ r[i] = q[i + 1]
  BY <1>1
<1>3. 1 \in DOMAIN q /\ Head(q) = q[1]
  BY <1>1
<1>4. None(q, s) => None(r, s) /\ Head(q) \notin s
  BY <1>2, <1>3 DEF None
<1>5. One(q, s) => One(r, s)
  BY <1>2 DEF One
<1>6. One(q, s) /\ Head(q) \in s => None(r, s)
  BY <1>2, <1>3 DEF One, None
<1> QED
  BY <1>4, <1>5, <1>6 DEF r

LEMMA TailElements ==
    ASSUME NEW T, NEW q \in Seq(T), q # <<>>
    PROVE  /\ \E j \in DOMAIN q : q[j] = Head(q)
           /\ \A i \in DOMAIN Tail(q) : \E j \in DOMAIN q : q[j] = Tail(q)[i]
<1> DEFINE r == Tail(q)
<1>1. /\ Len(q) \in Nat /\ Len(q) > 0 /\ DOMAIN q = 1..Len(q) /\ DOMAIN r = 1..(Len(q) - 1)
      /\ \A i \in 1..(Len(q) - 1) : r[i] = q[i + 1]
      /\ Head(q) = q[1]
  BY HeadTailProperties, LenProperties, EmptySeq
<1> HIDE DEF r
<1>2. \A i \in DOMAIN r : i + 1 \in DOMAIN q /\ r[i] = q[i + 1]
  BY <1>1
<1>3. 1 \in DOMAIN q /\ Head(q) = q[1]
  BY <1>1
<1> QED
  BY <1>2, <1>3 DEF r

\* A step that hands nothing on keeps the turns.
LEMMA TurnKept ==
    ASSUME Turns, Reported, UNCHANGED <<view, seenStop, lines>>,
           Handling' => Handling, Going' => Going,
           None(toDebuggee, ResumeMessages) => None(toDebuggee', ResumeMessages),
           One(toDebuggee', ResumeMessages),
           None(toClient, StopMessages) => None(toClient', StopMessages),
           One(toClient', StopMessages),
           \A i \in DOMAIN toClient' : toClient'[i] \in StopMessages => toClient'[i].stop = lines
    PROVE  Turns' /\ Reported'
BY DEF Turns, Reported

\* The same when both directions of the connection are left alone.
LEMMA TurnKeptQuiet ==
    ASSUME Turns, Reported, UNCHANGED <<view, seenStop, lines, toDebuggee, toClient>>,
           Handling' => Handling, Going' => Going
    PROVE  Turns' /\ Reported'
BY TurnKept DEF Turns, Reported

\* The same when a message that reports no stop is sent.
LEMMA TurnKeptSent ==
    ASSUME ChannelTypeOK, Turns, Reported, UNCHANGED <<view, seenStop, lines, toDebuggee>>,
           NEW m \in Message, m \notin StopMessages, SafeSend(m),
           Handling' => Handling, Going' => Going
    PROVE  Turns' /\ Reported'
<1>1. CASE toClient' = toClient
  BY <1>1, TurnKeptQuiet
<1>2. CASE toClient' = Append(toClient, m)
  <2>1. toClient \in Seq(Message)
    BY DEF ChannelTypeOK
  <2>2. /\ None(toClient, StopMessages) => None(toClient', StopMessages)
        /\ One(toClient, StopMessages) => One(toClient', StopMessages)
        /\ \A i \in DOMAIN toClient' :
              toClient'[i] = m \/ \E j \in DOMAIN toClient : toClient[j] = toClient'[i]
    BY <1>2, <2>1, AppendMarked, AppendElements
  <2> QED
    BY <2>2, TurnKept DEF Turns, Reported
<1> QED
  BY <1>1, <1>2 DEF SafeSend

\* The messages that report no stop.
LEMMA PlainMessages ==
    /\ \A n \in 1..MaxCommands : LET m == [kind |-> "response", id |-> n]
                                 IN  m \in Message /\ m \notin StopMessages
    /\ [kind |-> "exited"] \in Message /\ [kind |-> "exited"] \notin StopMessages
    /\ [kind |-> "terminated"] \in Message /\ [kind |-> "terminated"] \notin StopMessages
BY DEF Message, StopMessages

\* A handler that goes on handles what it handled; a resume command is handled until it has
\* signalled.
LEMMA HandlingGoesOn ==
    ASSUME ReceiverTypeOK, step # 0, Advance, request' = request
    PROVE  /\ Handling' => Handling
           /\ Script(request)[step] = "signalResume" => ~Handling' /\ Handling
<1>1. Handling' => Handling
  BY DEF Handling, Resuming
<1>2. Script(request)[step] = "signalResume" => Resuming
  BY DEF ReceiverTypeOK, Script, Resuming
<1>3. Script(request)[step] = "signalResume" => step' = 0
  BY SignalFollowsResponse DEF SignalPending
<1> QED
  BY <1>1, <1>2, <1>3 DEF Handling

LEMMA StandingNext ==
    ASSUME "pause" \notin Commands, "watch" \notin TraceEvents, TypeOK, Standing, [Next]_vars
    PROVE  Standing'
<1> USE DEF clientVars, channelVars, sessionVars, receiverVars, dbgVars, historyVars,
            UnchangedByTrace
<1>1. ASSUME NEW c \in Commands, SendCommand(c) PROVE Standing'
  <2>1. toDebuggee \in Seq(Command) /\ sent \in 0..MaxCommands
    BY DEF TypeOK, ChannelTypeOK, ClientTypeOK
  <2>2. PICK m : m = [id |-> sent + 1, cmd |-> c]
    OBVIOUS
  <2>3. sent + 1 \in 1..MaxCommands /\ c \in AllCommands /\ c # "pause"
    <3>1. sent < MaxCommands /\ MaxCommands \in Nat
      BY <1>1 DEF SendCommand
    <3>2. sent + 1 \in 1..MaxCommands
      BY <2>1, <3>1
    <3> QED
      BY <1>1, <3>2
  <2>4. m \in Command /\ m.cmd # "pause"
    BY <2>2, <2>3 DEF Command
  <2>5. toDebuggee' = Append(toDebuggee, m)
    BY <1>1, <2>2 DEF SendCommand
  <2>6. \A i \in DOMAIN toDebuggee' : \/ toDebuggee'[i] = m
                                      \/ \E j \in DOMAIN toDebuggee : toDebuggee[j] = toDebuggee'[i]
    <3>1. PICK q : q = toDebuggee
      OBVIOUS
    <3>2. \A i \in DOMAIN Append(q, m) :
             Append(q, m)[i] = m \/ \E j \in DOMAIN q : q[j] = Append(q, m)[i]
      BY <2>1, <2>4, <3>1, AppendElements
    <3> QED
      BY <2>5, <3>1, <3>2
  <2>7. \A i \in DOMAIN toDebuggee' : toDebuggee'[i].cmd # "pause"
    BY <2>4, <2>6 DEF Standing
  <2> QED
    BY <1>1, <2>7 DEF SendCommand, Standing
<1>2. CASE ReceiveCommand
  <2>1. toDebuggee \in Seq(Command) /\ toDebuggee # <<>> /\ toDebuggee' = Tail(toDebuggee)
    BY <1>2 DEF ReceiveCommand, TypeOK, ChannelTypeOK
  <2>2. /\ \E j \in DOMAIN toDebuggee : toDebuggee[j] = Head(toDebuggee)
        /\ \A i \in DOMAIN toDebuggee' : \E j \in DOMAIN toDebuggee : toDebuggee[j] = toDebuggee'[i]
    BY <2>1, TailElements
  <2>3. Head(toDebuggee).cmd # "pause" /\ \A i \in DOMAIN toDebuggee' : toDebuggee'[i].cmd # "pause"
    BY <2>2 DEF Standing
  <2> QED
    BY <1>2, <2>3 DEF ReceiveCommand, Standing
<1>3. CASE CloseConnection
  <2>1. \A i \in DOMAIN toDebuggee' : toDebuggee'[i].cmd # "pause"
    <3>1. toDebuggee' = toDebuggee \/ toDebuggee' = <<>>
      BY <1>3 DEF CloseConnection
    <3>2. CASE toDebuggee' = <<>>
      <4>1. DOMAIN toDebuggee' = {}
        BY <3>2
      <4> QED
        BY <4>1
    <3> QED
      BY <3>1, <3>2 DEF Standing
  <2> QED
    BY <1>3, <2>1 DEF CloseConnection, Standing
<1>4. CASE HandlerImpl
  <2>1. UNCHANGED <<currentFrame, frames>>
    BY <1>4 DEF HandlerImpl, ContinueImpl, StepImpl, Standing
  <2> QED
    BY <1>4, <2>1 DEF HandlerImpl, Standing
<1>5. CASE HitBreakpoint
  BY <1>5 DEF HitBreakpoint, TraceEvent, BeginStop, Standing
<1>6. CASE SkipBreakpoint
  BY <1>6 DEF SkipBreakpoint, TraceEvent, Standing
<1>7. CASE ReachLine
  BY <1>7 DEF ReachLine, TraceEvent, BeginStop, Standing
<1>8. CASE WatchChanged
  BY <1>8 DEF WatchChanged, TraceEvent, Standing
<1>9. CASE EmitStopped
  BY <1>9 DEF EmitStopped, Standing
<1>10. CASE EnterWait \/ LeaveWait \/ ResumeProgram \/ EndProgram \/ SendExitEvents \/ InterpreterExit
  BY <1>10 DEF EnterWait, LeaveWait, ResumeProgram, EndProgram, SendExitEvents, InterpreterExit, Standing
<1>11. CASE \/ ReadMessage \/ ReceiveEOF \/ SendResponse \/ SignalResume \/ SetConfigurationDone
            \/ EmitPaused \/ EmitExited \/ TerminateSession \/ ExitProcess
            \/ ConfigureDebugger \/ StartProgram \/ UNCHANGED vars
  BY <1>11 DEF ReadMessage, ReceiveEOF, SendResponse, SignalResume, SetConfigurationDone, EmitPaused,
               EmitExited, TerminateSession, ExitProcess, ConfigureDebugger, StartProgram, vars, Standing
<1> QED
  BY <1>1, <1>2, <1>3, <1>4, <1>5, <1>6, <1>7, <1>8, <1>9, <1>10, <1>11 DEF Next, Receiver, MainThread

LEMMA TurnsNext ==
    ASSUME "watch" \notin TraceEvents, TypeOK, Standing, Turns, Reported, ~isTerminated',
           [Next]_vars
    PROVE  Turns' /\ Reported'
<1> USE DEF clientVars, channelVars, sessionVars, receiverVars, dbgVars, historyVars,
            UnchangedByTrace
<1>t. ReceiverTypeOK /\ ChannelTypeOK /\ toDebuggee \in Seq(Command) /\ toClient \in Seq(Message)
  BY DEF TypeOK, ChannelTypeOK
<1>1. ASSUME NEW c \in Commands, SendCommand(c) PROVE Turns' /\ Reported'
  <2>1. PICK m : m = [id |-> sent + 1, cmd |-> c]
    OBVIOUS
  <2>2. m \in Command /\ (m \in ResumeMessages <=> c \in StepCommands \cup {"continue"})
    BY <1>1, <2>1 DEF SendCommand, Command, ResumeMessages, TypeOK, ClientTypeOK
  <2>3. UNCHANGED <<seenStop, lines, toClient, step, request, main, resumeEvent>>
    BY <1>1 DEF SendCommand
  <2>4. (Handling' <=> Handling) /\ (Going' <=> Going)
    BY <2>3 DEF Handling, Resuming, Going, Halted, WakeUpPending
  <2>5. /\ None(toDebuggee, ResumeMessages) => One(toDebuggee', ResumeMessages)
        /\ m \notin ResumeMessages =>
              /\ None(toDebuggee, ResumeMessages) => None(toDebuggee', ResumeMessages)
              /\ One(toDebuggee, ResumeMessages) => One(toDebuggee', ResumeMessages)
    BY <1>1, <1>t, <2>1, <2>2, AppendMarked DEF SendCommand
  <2>6. CASE m \in ResumeMessages
    <3>1. view = "stopped" /\ view' = "running"
      BY <1>1, <2>2, <2>6 DEF SendCommand, Allowed
    <3> QED
      BY <2>3, <2>4, <2>5, <3>1 DEF Turns, Reported
  <2>7. CASE m \notin ResumeMessages
    <3>1. view' = view \/ view' = "running"
      BY <1>1 DEF SendCommand
    <3> QED
      BY <2>3, <2>4, <2>5, <2>7, <3>1 DEF Turns, Reported
  <2> QED
    BY <2>6, <2>7
<1>2. CASE ReadMessage
  <2>1. UNCHANGED <<lines, toDebuggee, step, request, main, resumeEvent>> /\ toClient # <<>>
    BY <1>2 DEF ReadMessage
  <2>2. (Handling' <=> Handling) /\ (Going' <=> Going)
    BY <2>1 DEF Handling, Resuming, Going, Halted, WakeUpPending
  <2>3. PICK h : h = Head(toClient)
    OBVIOUS
  <2>4. /\ None(toClient, StopMessages) => None(toClient', StopMessages) /\ h \notin StopMessages
        /\ One(toClient, StopMessages) => /\ One(toClient', StopMessages)
                                          /\ h \in StopMessages => None(toClient', StopMessages)
        /\ \E j \in DOMAIN toClient : toClient[j] = h
        /\ \A i \in DOMAIN toClient' : \E j \in DOMAIN toClient : toClient[j] = toClient'[i]
    BY <1>2, <1>t, <2>1, <2>3, TailMarked, TailElements DEF ReadMessage
  <2>5. h \in Message
    BY <1>t, <2>1, <2>3
  <2>6. CASE h \in StopMessages
    <3>1. view' = "stopped" /\ seenStop' = h.stop
      BY <1>2, <2>3, <2>6 DEF ReadMessage, StopMessages
    <3>2. h.stop = lines
      BY <2>4, <2>6 DEF Reported
    <3> QED
      BY <2>1, <2>2, <2>4, <2>6, <3>1, <3>2 DEF Turns, Reported
  <2>7. CASE h \notin StopMessages
    <3>1. UNCHANGED <<view, seenStop>>
      BY <1>2, <2>3, <2>5, <2>7 DEF ReadMessage, StopMessages
    <3> QED
      BY <2>1, <2>2, <2>4, <2>7, <3>1, TurnKept DEF Turns, Reported
  <2> QED
    BY <2>6, <2>7
<1>3. CASE CloseConnection
  <2>1. UNCHANGED <<view, seenStop, lines, step, request, main, resumeEvent>>
    BY <1>3 DEF CloseConnection
  <2>2. (Handling' <=> Handling) /\ (Going' <=> Going)
    BY <2>1 DEF Handling, Resuming, Going, Halted, WakeUpPending
  <2>3. /\ None(toDebuggee, ResumeMessages) => None(toDebuggee', ResumeMessages)
        /\ One(toDebuggee', ResumeMessages)
        /\ None(toClient', StopMessages) /\ One(toClient', StopMessages) /\ DOMAIN toClient' = {}
    BY <1>3 DEF CloseConnection, None, One, Turns
  <2> QED
    BY <2>1, <2>2, <2>3, TurnKept
<1>4. CASE ReceiveCommand
  <2>1. /\ UNCHANGED <<view, seenStop, lines, toClient, main, resumeEvent>>
        /\ step = 0 /\ toDebuggee # <<>> /\ toDebuggee' = Tail(toDebuggee)
    BY <1>4 DEF ReceiveCommand
  <2>2. ~Handling /\ (Going' <=> Going)
    BY <2>1 DEF Handling, Going, Halted, WakeUpPending
  <2>3. PICK h : h = Head(toDebuggee)
    OBVIOUS
  <2>4. h \in Command /\ step' = 1 /\ request' = h.cmd
    BY <1>4, <1>t, <2>1, <2>3 DEF ReceiveCommand
  <2>5. Handling' <=> h \in ResumeMessages
    BY <2>4 DEF Handling, Resuming, ResumeMessages
  <2>6. /\ None(toDebuggee, ResumeMessages) => None(toDebuggee', ResumeMessages) /\ h \notin ResumeMessages
        /\ One(toDebuggee, ResumeMessages) => /\ One(toDebuggee', ResumeMessages)
                                              /\ h \in ResumeMessages => None(toDebuggee', ResumeMessages)
    BY <1>t, <2>1, <2>3, TailMarked
  <2> QED
    BY <2>1, <2>2, <2>5, <2>6 DEF Turns, Reported
<1>5. CASE HandlerImpl \/ SetConfigurationDone \/ EmitExited \/ SendResponse \/ ExitProcess
  <2>1. step # 0 /\ Advance /\ UNCHANGED <<view, seenStop, lines, toDebuggee, request, main, resumeEvent>>
    BY <1>5 DEF HandlerImpl, SetConfigurationDone, EmitExited, SendResponse, ExitProcess, Doing
  <2>2. (Handling' => Handling) /\ (Going' <=> Going)
    BY <1>t, <2>1, HandlingGoesOn DEF Going, Halted, WakeUpPending
  <2>3. CASE UNCHANGED toClient
    BY <2>1, <2>2, <2>3, TurnKeptQuiet
  <2>4. CASE EmitExited
    BY <1>t, <2>1, <2>2, <2>4, PlainMessages, TurnKeptSent DEF EmitExited
  <2>5. CASE SendResponse
    <3>1. current \in 1..MaxCommands
      BY <1>t, <2>1 DEF ReceiverTypeOK
    <3> QED
      BY <1>t, <2>1, <2>2, <2>5, <3>1, PlainMessages, TurnKeptSent DEF SendResponse
  <2> QED
    BY <1>5, <2>3, <2>4, <2>5 DEF HandlerImpl, SetConfigurationDone, ExitProcess
<1>6. CASE SignalResume
  <2>1. /\ step # 0 /\ Advance /\ Script(request)[step] = "signalResume"
        /\ UNCHANGED <<view, seenStop, lines, toDebuggee, toClient, request, main>>
    BY <1>6 DEF SignalResume, Doing
  <2>2. Handling /\ ~Handling'
    BY <1>t, <2>1, HandlingGoesOn
  <2> QED
    BY <2>1, <2>2 DEF Turns, Reported
<1>7. CASE TerminateSession
  BY <1>7 DEF TerminateSession
<1>8. CASE EmitPaused
  <2>1. step # 0 /\ Script(request)[step] = "emitPaused" /\ request # "pause"
    BY <1>8 DEF EmitPaused, Doing, Standing
  <2>2. step \in 1..Len(Script(request)) /\ request \in AllCommands
    BY <1>t, <2>1 DEF ReceiverTypeOK
  <2> QED
    BY <2>1, <2>2 DEF Script
<1>9. CASE \/ HitBreakpoint \/ SkipBreakpoint \/ ReachLine \/ WatchChanged
           \/ EndProgram \/ ConfigureDebugger \/ StartProgram \/ ResumeProgram
  <2>1. UNCHANGED <<view, seenStop, toDebuggee, toClient, step, request>> /\ ~Halted
    BY <1>9 DEF HitBreakpoint, SkipBreakpoint, ReachLine, WatchChanged, EndProgram, TraceEvent,
                ConfigureDebugger, StartProgram, ResumeProgram, Halted
  <2>2. Handling' <=> Handling
    BY <2>1 DEF Handling, Resuming
  <2>3. Going
    BY <2>1 DEF Going
  <2>4. None(toClient, StopMessages) /\ view # "stopped"
    BY <2>3 DEF Turns
  <2> QED
    BY <2>1, <2>2, <2>3, <2>4 DEF Turns, Reported, None
<1>10. CASE SendExitEvents
  <2>1. /\ UNCHANGED <<view, seenStop, lines, toDebuggee, step, request>> /\ ~Halted
        /\ SafeSend([kind |-> "exited"]) \/ SafeSend([kind |-> "terminated"])
    BY <1>10 DEF SendExitEvents, Halted
  <2>2. (Handling' <=> Handling) /\ Going
    BY <2>1 DEF Handling, Resuming, Going
  <2> QED
    BY <1>t, <2>1, <2>2, PlainMessages, TurnKeptSent
<1>11. CASE EmitStopped
  <2>1. /\ UNCHANGED <<view, seenStop, lines, toDebuggee, step, request>> /\ main = "emitting"
        /\ SafeSend([kind |-> "stopped", stop |-> lines])
    BY <1>11 DEF EmitStopped
  <2>2. (Handling' <=> Handling) /\ Going
    BY <2>1 DEF Handling, Resuming, Going, Halted
  <2>3. None(toClient, StopMessages) /\ view # "stopped" /\ ~Handling /\ None(toDebuggee, ResumeMessages)
    BY <2>2 DEF Turns
  <2>4. CASE toClient' = toClient
    BY <2>1, <2>2, <2>4, TurnKeptQuiet
  <2>5. CASE toClient' = Append(toClient, [kind |-> "stopped", stop |-> lines]) /\ connOpen
    <3>1. PICK m : m = [kind |-> "stopped", stop |-> lines]
      OBVIOUS
    <3>2. lines \in 0..MaxLines
      BY DEF TypeOK, DebuggerTypeOK
    <3>3. m \in Message /\ m.stop = lines
      BY <3>1, <3>2, StackNumbers DEF Message
    <3>4. /\ One(toClient', StopMessages)
          /\ \A i \in DOMAIN toClient' :
                toClient'[i] = m \/ \E j \in DOMAIN toClient : toClient[j] = toClient'[i]
      BY <1>t, <2>3, <2>5, <3>1, <3>3, AppendMarked, AppendElements
    <3>5. \A i \in DOMAIN toClient' : toClient'[i] \in StopMessages => toClient'[i].stop = lines
      BY <2>3, <3>3, <3>4 DEF None
    <3>6. main' = "stopped"
      BY <1>11, <2>5 DEF EmitStopped, Standing
    <3>7. ~Going'
      BY <3>6 DEF Going, Halted, WakeUpPending
    <3> QED
      BY <2>1, <2>2, <2>3, <3>4, <3>5, <3>7 DEF Turns, Reported
  <2> QED
    BY <2>1, <2>4, <2>5 DEF SafeSend
<1>12. CASE EnterWait
  <2>1. /\ UNCHANGED <<view, seenStop, lines, toDebuggee, toClient, step, request>>
        /\ main' = "waiting" /\ resumeEvent' = FALSE
    BY <1>12 DEF EnterWait
  <2>2. (Handling' <=> Handling) /\ ~Going'
    BY <2>1 DEF Handling, Resuming, Going, Halted, WakeUpPending
  <2> QED
    BY <2>1, <2>2, TurnKeptQuiet
<1>13. CASE LeaveWait
  <2>1. UNCHANGED <<view, seenStop, lines, toDebuggee, toClient, step, request, isTerminated>>
    BY <1>13 DEF LeaveWait
  <2>2. (Handling' <=> Handling) /\ Going
    BY <1>13, <2>1 DEF LeaveWait, Handling, Resuming, Going, WakeUpPending
  <2> QED
    BY <2>1, <2>2, TurnKeptQuiet
<1>14. CASE ReceiveEOF \/ InterpreterExit \/ UNCHANGED vars
  <2>1. UNCHANGED <<view, seenStop, lines, toDebuggee, toClient, step, request, main, resumeEvent>>
    BY <1>14 DEF ReceiveEOF, InterpreterExit, vars
  <2>2. (Handling' <=> Handling) /\ (Going' <=> Going)
    BY <2>1 DEF Handling, Resuming, Going, Halted, WakeUpPending
  <2> QED
    BY <2>1, <2>2, TurnKeptQuiet
<1> QED
  BY <1>1, <1>2, <1>3, <1>4, <1>5, <1>6, <1>7, <1>8, <1>9, <1>10, <1>11, <1>12, <1>13, <1>14
     DEF Next, Receiver, MainThread

\* A client that does not pause the program, debugging one whose watches do not report a
\* stop that is none, is shown the stack of the stop it has seen.
THEOREM StackIsOfSeenStop ==
    ASSUME "pause" \notin Commands, "watch" \notin TraceEvents
    PROVE  Spec => []StackOfSeenStop
<1>1. Init => StackInv
  BY DEF Init, StackInv, Standing, Turns, Reported, One, None, Handling, Going, Halted
<1>2. StackInv => StackOfSeenStop
  BY DEF StackInv, Standing, Turns, Reported, Going, Halted, StackOfSeenStop
<1>3. TypeOK /\ StackInv /\ [Next]_vars => StackInv'
  <2> SUFFICES ASSUME TypeOK, StackInv, [Next]_vars PROVE StackInv'
    OBVIOUS
  <2>1. isTerminated => isTerminated'
    BY DEF Next, Receiver, MainThread, SendCommand, ReadMessage, CloseConnection, ReceiveCommand, ReceiveEOF,
           HandlerImpl, SendResponse, SignalResume, SetConfigurationDone, EmitPaused, EmitExited,
           TerminateSession, ExitProcess, ConfigureDebugger, StartProgram, HitBreakpoint, SkipBreakpoint,
           ReachLine, WatchChanged, EmitStopped, EnterWait, LeaveWait, ResumeProgram, EndProgram,
           SendExitEvents, InterpreterExit, vars, sessionVars, UnchangedByTrace
  <2> QED
    BY <2>1, StandingNext, TurnsNext DEF StackInv
<1> QED
  BY <1>1, <1>2, <1>3, TypeCorrect, PTL DEF Spec

-----------------------------------------------------------------------------
(***************************************************************************)
(* ExceptionBreakpoints: the exceptions the program stops at.              *)
(***************************************************************************)

USE CoversAssumption, NothingAssumption, ExceptionBounds

Configs == [raised : BOOLEAN, uncaught : BOOLEAN,
            raisedCondition : Conditions \union {NoCondition},
            uncaughtCondition : Conditions \union {NoCondition}]

Deciding == {"enabled?", "raised?", "raised condition?", "uncaught?", "uncaught condition?",
             "stop", "announcing"}
Stops == {"configuring", "stopped", "stoppedAtException"}
InTrace == Deciding \union Stops \union {"continuing", "clearing"}

FiltersOK ==
    /\ config \in Configs /\ inForce \in Configs
    /\ writing \in [field : 0..4, to : Configs]

FrameRecords == [traced : BOOLEAN, user : BOOLEAN, covered : BOOLEAN]

CallsOK == calls \in Seq(FrameRecords) /\ Len(calls) >= 1

FlagsOK ==
    lineBreaks \in BOOLEAN /\ tracing \in BOOLEAN /\ quiet \in BOOLEAN /\ shownHere \in BOOLEAN

\* The fields the receiver has written are those of its request; the others are those in force.
Written ==
    /\ writing.field \in {0, 1} => config = inForce
    /\ writing.field >= 2 => config.raised = writing.to.raised
    /\ writing.field >= 3 => config.uncaught = writing.to.uncaught
    /\ writing.field >= 4 => config.raisedCondition = writing.to.raisedCondition

\* While all is quiet no field has been written and filters keep the trace function.
QuietIsSafe ==
    quiet /\ phase \notin Stops =>
        /\ writing.field \in {0, 1}
        /\ is_enabled(inForce) => tracing /\ (phase = "clearing" => lineBreaks)

TracedInTrace == phase \in InTrace => tracing

CoveredAreTraced == \A i \in DOMAIN calls : calls[i].covered => calls[i].traced

\* What the checks made so far say of the outcome.
RaisedWanted == inForce.raised /\ _matches_condition(inForce.raisedCondition, flying)

DueIsComing ==
    phase \in Deciding /\ due.known =>
        /\ writing.field \in {0, 1}
        /\ due.mode = get_break_mode(inForce)
        /\ due.stop <=> Wants(inForce, flying, judged)
        /\ phase = "raised condition?" => inForce.raised
        /\ phase \in {"uncaught?", "uncaught condition?"} => ~RaisedWanted
        /\ phase = "uncaught condition?" => inForce.uncaught /\ judged = "leaves"
        /\ phase \in {"stop", "announcing"} => due.stop

NotYetShown == phase \in Deciding => ~shownHere

Explained ==
    phase \in {"announcing", "stoppedAtException"} =>
        /\ info.number = raised /\ info.depth = Len(calls)
        /\ due.known => info.mode = due.mode

ExceptionInvariant ==
    /\ FiltersOK /\ CallsOK /\ FlagsOK
    /\ Written
    /\ QuietIsSafe
    /\ TracedInTrace
    /\ CoveredAreTraced
    /\ DueIsComing
    /\ NotYetShown
    /\ Explained
    /\ FiltersDecide

-----------------------------------------------------------------------------

\* It holds of the debuggee that waits for its configuration.
LEMMA ExceptionInitially == ExceptionInit => ExceptionInvariant
<1> SUFFICES ASSUME ExceptionInit PROVE ExceptionInvariant
  OBVIOUS
<1> USE DEF ExceptionInit
<1>1. FiltersOK
  BY DEF FiltersOK, Configs, NoFilters
<1>2. CallsOK /\ CoveredAreTraced
  BY DEF CallsOK, CoveredAreTraced, Frame, FrameRecords
<1>3. FlagsOK /\ Written /\ QuietIsSafe /\ TracedInTrace
  BY DEF FlagsOK, Written, QuietIsSafe, TracedInTrace
<1>4. DueIsComing /\ NotYetShown /\ Explained /\ FiltersDecide
  BY DEF DueIsComing, NotYetShown, Explained, FiltersDecide, Deciding
<1> QED  BY <1>1, <1>2, <1>3, <1>4 DEF ExceptionInvariant

\* There is a frame, or there are several.
LEMMA OneCallOrMore ==
    ASSUME CallsOK
    PROVE  Len(calls) = 1 \/ Len(calls) > 1
<1>1. Len(calls) \in Nat /\ Len(calls) >= 1
  BY DEF CallsOK
<1> DEFINE n == Len(calls)
<1>2. n \in Nat /\ n >= 1
  BY <1>1
<1> HIDE DEF n
<1>3. n = 1 \/ n > 1
  BY <1>2
<1> QED  BY <1>3 DEF n

\* The innermost frame is one of the frames.
LEMMA InnerIsTraced ==
    ASSUME CallsOK, CoveredAreTraced
    PROVE  /\ Inner \in FrameRecords
           /\ Inner.covered => Inner.traced
  BY DEF CallsOK, CoveredAreTraced, Inner, Last

\* What can be asked for is a configuration.
LEMMA AskedAreConfigs == AskedFor \subseteq Configs
<1> SUFFICES ASSUME NEW r \in FilterRequests PROVE Asked(r) \in Configs
  BY DEF AskedFor
<1>1. \A f \in DOMAIN r.options : r.options[f] \in Conditions \union {NoCondition}
  BY FilterRequestsAssumption DEF SomeOptions
<1> QED  BY <1>1 DEF Asked, Configs

LEMMA NamesAreConfigs ==
    ASSUME NEW names \in SUBSET FilterNames
    PROVE  Asked([filters |-> names, options |-> <<>>]) \in Configs
<1>1. DOMAIN [filters |-> names, options |-> <<>>].options = {}
  OBVIOUS
<1> QED  BY <1>1 DEF Asked, Configs

USE DEF Deciding, Stops, InTrace

\* A request begins to be written: no field has been yet.
LEMMA RequestKeeps ==
    ASSUME ExceptionInvariant, ReceiverIdle, NEW c \in Configs,
           writing' = [field |-> 1, to |-> c],
           UNCHANGED <<config, inForce, traceVars, calls, raised, flying, phase, judged, info,
                       shownHere, due, quiet>>
    PROVE  ExceptionInvariant'
<1> USE DEF ReceiverIdle, ExceptionInvariant, traceVars
<1>1. FiltersOK' /\ CallsOK' /\ FlagsOK'
  BY DEF FiltersOK, CallsOK, FlagsOK
<1>2. Written'
  BY DEF Written
<1>3. QuietIsSafe' /\ TracedInTrace' /\ CoveredAreTraced'
  BY DEF QuietIsSafe, TracedInTrace, CoveredAreTraced, is_enabled
<1>4. DueIsComing'
  BY DEF DueIsComing, get_break_mode, Wants, RaisedWanted, _matches_condition
<1>5. NotYetShown' /\ Explained' /\ FiltersDecide'
  BY DEF NotYetShown, Explained, FiltersDecide
<1> QED  BY <1>1, <1>2, <1>3, <1>4, <1>5

LEMMA WriteFieldKeeps ==
    ASSUME ExceptionInvariant, WriteField
    PROVE  ExceptionInvariant'
<1> USE DEF ExceptionInvariant, traceVars, WriteField, Waiting
<1>0. /\ writing.field \in 1..4 /\ writing.to \in Configs /\ config \in Configs
      /\ Fields[1] = "raised" /\ Fields[2] = "uncaught" /\ Fields[3] = "raisedCondition"
      /\ Fields[4] = "uncaughtCondition" /\ Len(Fields) = 4
  BY DEF FiltersOK, Fields, ReceiverIdle
<1>1. /\ config' \in Configs
      /\ writing.field = 1 => config' = [config EXCEPT !.raised = writing.to.raised]
      /\ writing.field = 2 => config' = [config EXCEPT !.uncaught = writing.to.uncaught]
      /\ writing.field = 3 =>
            config' = [config EXCEPT !.raisedCondition = writing.to.raisedCondition]
      /\ writing.field = 4 =>
            config' = [config EXCEPT !.uncaughtCondition = writing.to.uncaughtCondition]
  <2>1. CASE writing.field = 1  BY <1>0, <2>1 DEF Configs
  <2>2. CASE writing.field = 2  BY <1>0, <2>2 DEF Configs
  <2>3. CASE writing.field = 3  BY <1>0, <2>3 DEF Configs
  <2>4. CASE writing.field = 4  BY <1>0, <2>4 DEF Configs
  <2> QED  BY <1>0, <2>1, <2>2, <2>3, <2>4
<1>2. FiltersOK' /\ CallsOK' /\ FlagsOK'
  <2>1. FiltersOK'
    BY <1>0, <1>1 DEF FiltersOK
  <2>2. CallsOK'
    BY DEF CallsOK
  <2>3. FlagsOK'
    BY DEF FlagsOK
  <2> QED  BY <2>1, <2>2, <2>3
<1>3. Written'
  BY <1>0, <1>1 DEF FiltersOK, Written, Configs
<1>4. QuietIsSafe' /\ TracedInTrace' /\ CoveredAreTraced'
  BY DEF QuietIsSafe, TracedInTrace, CoveredAreTraced
<1>5. DueIsComing' /\ NotYetShown' /\ Explained' /\ FiltersDecide'
  BY DEF DueIsComing, NotYetShown, Explained, FiltersDecide, Open
<1> QED  BY <1>2, <1>3, <1>4, <1>5

LEMMA CommandKeeps ==
    ASSUME ExceptionInvariant, Control
    PROVE  ExceptionInvariant'
<1> USE DEF ExceptionInvariant, filterVars, traceVars
<1>1. CASE SetLineBreaks
  <2> USE <1>1 DEF SetLineBreaks
  <2>1. FiltersOK' /\ CallsOK' /\ FlagsOK' /\ Written'
    BY DEF FiltersOK, CallsOK, FlagsOK, Written
  <2>2. QuietIsSafe' /\ TracedInTrace' /\ CoveredAreTraced'
    BY DEF QuietIsSafe, TracedInTrace, CoveredAreTraced, is_enabled
  <2>3. DueIsComing' /\ NotYetShown' /\ Explained' /\ FiltersDecide'
    BY DEF DueIsComing, get_break_mode, Wants, RaisedWanted, _matches_condition, NotYetShown,
           Explained, FiltersDecide
  <2> QED  BY <2>1, <2>2, <2>3
<1>2. ASSUME \/ handle_continue_impl
             \/ handle_step_in_impl
             \/ configurationDone
      PROVE  ExceptionInvariant'
  <2> USE <1>2 DEF handle_continue_impl, handle_step_in_impl, GoOn, configurationDone
  <2>0. /\ phase' \in {"running", "passed"}
        /\ phase' = "passed" => phase = "stoppedAtException"
        /\ UNCHANGED <<due, shownHere>>
    OBVIOUS
  <2>1. FiltersOK' /\ CallsOK' /\ FlagsOK' /\ Written'
    BY DEF FiltersOK, CallsOK, FlagsOK, Written
  <2>2. QuietIsSafe' /\ TracedInTrace' /\ CoveredAreTraced'
    BY DEF ReceiverIdle, QuietIsSafe, TracedInTrace, CoveredAreTraced, is_enabled
  <2>3. DueIsComing' /\ NotYetShown' /\ Explained' /\ FiltersDecide'
    BY <2>0 DEF DueIsComing, NotYetShown, Explained, FiltersDecide
  <2> QED  BY <2>1, <2>2, <2>3
<1> QED  BY <1>1, <1>2 DEF Control

LEMMA ExecuteKeeps ==
    ASSUME ExceptionInvariant, Execute
    PROVE  ExceptionInvariant'
<1> USE DEF ExceptionInvariant, filterVars, traceVars
<1>1. CASE dispatch_call
  <2>1. PICK user \in BOOLEAN, inFile \in {FALSE, lineBreaks} :
          calls' = Append(calls, Frame(tracing /\ (bdbMode = "step" \/ break_anywhere(inFile)), user,
                                       quiet /\ is_enabled(inForce)))
    BY <1>1 DEF dispatch_call
  <2> DEFINE traced == tracing /\ (bdbMode = "step" \/ break_anywhere(inFile))
             covered == quiet /\ is_enabled(inForce)
  <2>2. covered => traced
    BY <1>1 DEF dispatch_call, QuietIsSafe, Written, break_anywhere, _needs_tracing_active, is_enabled
  <2>3. Frame(traced, user, covered) \in FrameRecords
    BY DEF Frame, FrameRecords
  <2> HIDE DEF traced, covered
  <2>4. calls' = Append(calls, Frame(traced, user, covered))
    BY <2>1 DEF traced, covered
  <2>5. FiltersOK' /\ CallsOK' /\ FlagsOK' /\ Written'
    BY <1>1, <2>3, <2>4 DEF dispatch_call, FiltersOK, CallsOK, FlagsOK, Written
  <2>6. CoveredAreTraced'
    BY <2>2, <2>3, <2>4 DEF CallsOK, CoveredAreTraced, Frame
  <2>7. QuietIsSafe' /\ TracedInTrace'
    BY <1>1 DEF dispatch_call, QuietIsSafe, TracedInTrace, is_enabled
  <2>8. DueIsComing' /\ NotYetShown' /\ Explained' /\ FiltersDecide'
    BY <1>1 DEF dispatch_call, DueIsComing, NotYetShown, Explained, FiltersDecide
  <2> QED  BY <2>5, <2>6, <2>7, <2>8
<1>2. CASE Leave
  <2> USE <1>2 DEF Leave
  <2>1. FiltersOK' /\ CallsOK' /\ FlagsOK' /\ Written'
    BY DEF FiltersOK, CallsOK, FlagsOK, Written, Front
  <2>2. QuietIsSafe' /\ TracedInTrace' /\ CoveredAreTraced'
    BY DEF CallsOK, QuietIsSafe, TracedInTrace, CoveredAreTraced, is_enabled, Front
  <2>3. DueIsComing' /\ NotYetShown' /\ Explained' /\ FiltersDecide'
    BY DEF DueIsComing, NotYetShown, Explained, FiltersDecide
  <2> QED  BY <2>1, <2>2, <2>3
<1>3. ASSUME \/ \E hit \in BOOLEAN : LineEvent(hit)
             \/ set_continue
             \/ bdb_set_continue
      PROVE  ExceptionInvariant'
  <2>0. /\ phase \in {"running", "continuing", "clearing"}
        /\ phase' \in {"running", "stopped", "continuing", "clearing"}
        /\ UNCHANGED <<filterVars, lineBreaks, calls, raised, flying, judged, info, shownHere, due,
                       quiet>>
    BY <1>3 DEF LineEvent, set_continue, bdb_set_continue
  <2>1. \/ phase = "running" /\ tracing /\ tracing' = tracing /\ phase' \in {"stopped", "continuing"}
        \/ phase = "continuing" /\ tracing' = tracing
           /\ (phase' = "clearing" => lineBreaks \/ ~is_enabled(config))
        \/ phase = "clearing" /\ tracing' = lineBreaks /\ phase' = "running"
    BY <1>3 DEF LineEvent, set_continue, bdb_set_continue, _needs_tracing_active
  <2>2. FiltersOK' /\ CallsOK' /\ FlagsOK' /\ Written'
    BY <2>0, <2>1 DEF FiltersOK, CallsOK, FlagsOK, Written
  <2>3. QuietIsSafe'
    BY <2>0, <2>1 DEF Written, QuietIsSafe, is_enabled
  <2>4. TracedInTrace' /\ CoveredAreTraced'
    BY <2>0, <2>1 DEF TracedInTrace, CoveredAreTraced
  <2>5. DueIsComing' /\ NotYetShown' /\ Explained' /\ FiltersDecide'
    BY <2>0 DEF DueIsComing, NotYetShown, Explained, FiltersDecide
  <2> QED  BY <2>2, <2>3, <2>4, <2>5
<1> QED  BY <1>1, <1>2, <1>3 DEF Execute

LEMMA DispatchKeeps ==
    ASSUME ExceptionInvariant, NEW site \in Sites, dispatch_exception(site)
    PROVE  ExceptionInvariant'
<1> USE DEF ExceptionInvariant, filterVars, traceVars, dispatch_exception
<1>0. /\ Inner \in FrameRecords
      /\ Inner.covered => Inner.traced
  BY InnerIsTraced
<1>1. due'.known => /\ quiet /\ Inner.covered /\ config = inForce /\ writing.field \in {0, 1}
                    /\ is_enabled(inForce) => tracing
                    /\ due'.mode = get_break_mode(inForce)
                    /\ due'.stop <=> Inner.user /\ Wants(inForce, flying, judged')
  BY DEF QuietIsSafe, Written, Open
<1>2. Wants(inForce, flying, judged') => is_enabled(inForce)
  BY DEF Wants, is_enabled
<1>4. FiltersOK' /\ CallsOK' /\ FlagsOK' /\ Written'
  BY DEF FiltersOK, CallsOK, FlagsOK, Written
<1>5. QuietIsSafe' /\ TracedInTrace' /\ CoveredAreTraced'
  BY DEF QuietIsSafe, TracedInTrace, CoveredAreTraced, is_enabled
<1>6. DueIsComing'
  <2> SUFFICES ASSUME phase' = "enabled?", due'.known
               PROVE  /\ writing.field \in {0, 1}
                      /\ due'.mode = get_break_mode(inForce)
                      /\ due'.stop <=> Wants(inForce, flying, judged')
    BY DEF DueIsComing, get_break_mode, Wants, _matches_condition
  <2> QED  BY <1>1
<1>7. NotYetShown' /\ Explained'
  BY DEF NotYetShown, Explained
<1>8. FiltersDecide'
  BY <1>0, <1>1, <1>2 DEF FiltersDecide
<1> QED  BY <1>4, <1>5, <1>6, <1>7, <1>8

LEMMA ShouldBreakKeeps ==
    ASSUME ExceptionInvariant, should_break
    PROVE  ExceptionInvariant'
<1> USE DEF ExceptionInvariant, filterVars, traceVars
<1>1. /\ UNCHANGED <<config, writing, inForce, lineBreaks, tracing, calls, raised, flying, judged, info,
                     shownHere, due, quiet>>
      /\ phase \in Deciding \ {"stop", "announcing"}
      /\ phase' \in (Deciding \ {"announcing"}) \union {"passed"}
  BY DEF should_break, Check
<1>2. FiltersOK' /\ CallsOK' /\ FlagsOK' /\ Written'
  BY <1>1 DEF FiltersOK, CallsOK, FlagsOK, Written
<1>3. QuietIsSafe' /\ TracedInTrace' /\ CoveredAreTraced'
  BY <1>1 DEF QuietIsSafe, TracedInTrace, CoveredAreTraced, is_enabled
<1>4. NotYetShown' /\ Explained'
  BY <1>1 DEF NotYetShown, Explained
<1>5. CASE ~due.known
  BY <1>1, <1>2, <1>3, <1>4, <1>5 DEF DueIsComing, FiltersDecide
<1>6. CASE due.known
  <2>1. /\ config = inForce /\ ~shownHere
        /\ writing.field \in {0, 1} /\ due.mode = get_break_mode(inForce)
        /\ due.stop <=> Wants(inForce, flying, judged)
        /\ phase = "raised condition?" => inForce.raised
        /\ phase \in {"uncaught?", "uncaught condition?"} => ~RaisedWanted
        /\ phase = "uncaught condition?" => inForce.uncaught /\ judged = "leaves"
    BY <1>1, <1>6 DEF DueIsComing, Written, NotYetShown
  <2>2. /\ phase' = "raised condition?" => inForce.raised
        /\ phase' \in {"uncaught?", "uncaught condition?"} => ~RaisedWanted
        /\ phase' = "uncaught condition?" => inForce.uncaught /\ judged = "leaves"
        /\ phase' = "stop" => Wants(inForce, flying, judged)
        /\ phase' = "passed" => ~Wants(inForce, flying, judged)
    BY <2>1 DEF should_break, Check, Wants, RaisedWanted, is_enabled
  <2>3. DueIsComing'
    BY <1>1, <2>1, <2>2 DEF DueIsComing, Wants, RaisedWanted, get_break_mode, _matches_condition
  <2>4. FiltersDecide'
    BY <1>1, <2>1, <2>2 DEF FiltersDecide
  <2> QED  BY <1>2, <1>3, <1>4, <2>3, <2>4
<1> QED  BY <1>5, <1>6

LEMMA ExceptKeeps ==
    ASSUME ExceptionInvariant, Except
    PROVE  ExceptionInvariant'
<1> USE DEF ExceptionInvariant, filterVars, traceVars
<1>1. ASSUME NEW type \in Types, Raise(type) PROVE ExceptionInvariant'
  <2> USE <1>1 DEF Raise
  <2>1. FiltersOK' /\ CallsOK' /\ FlagsOK' /\ Written'
    BY DEF FiltersOK, CallsOK, FlagsOK, Written
  <2>2. QuietIsSafe' /\ TracedInTrace' /\ CoveredAreTraced'
    BY DEF QuietIsSafe, TracedInTrace, CoveredAreTraced
  <2>3. DueIsComing' /\ NotYetShown' /\ Explained' /\ FiltersDecide'
    BY DEF DueIsComing, NotYetShown, Explained, FiltersDecide
  <2> QED  BY <2>1, <2>2, <2>3
<1>2. CASE store_exception_info
  <2> USE <1>2 DEF store_exception_info
  <2>1. FiltersOK' /\ CallsOK' /\ FlagsOK' /\ Written'
    BY DEF FiltersOK, CallsOK, FlagsOK, Written
  <2>2. QuietIsSafe' /\ TracedInTrace' /\ CoveredAreTraced'
    BY DEF QuietIsSafe, TracedInTrace, CoveredAreTraced
  <2>3. DueIsComing' /\ NotYetShown' /\ FiltersDecide'
    BY DEF DueIsComing, NotYetShown, FiltersDecide, Wants, RaisedWanted, get_break_mode,
           _matches_condition
  <2>4. Explained'
    BY DEF Explained, DueIsComing, Written, build_exception_info
  <2> QED  BY <2>1, <2>2, <2>3, <2>4
<1>3. CASE user_exception
  <2> USE <1>3 DEF user_exception
  <2>1. FiltersOK' /\ CallsOK' /\ FlagsOK' /\ Written'
    BY DEF FiltersOK, CallsOK, FlagsOK, Written
  <2>2. QuietIsSafe' /\ TracedInTrace' /\ CoveredAreTraced'
    BY DEF QuietIsSafe, TracedInTrace, CoveredAreTraced
  <2>3. DueIsComing' /\ NotYetShown' /\ Explained' /\ FiltersDecide'
    BY DEF DueIsComing, NotYetShown, Explained, FiltersDecide
  <2> QED  BY <2>1, <2>2, <2>3
<1>4. CASE Caught
  <2> USE <1>4 DEF Caught
  <2>1. FiltersOK' /\ CallsOK' /\ FlagsOK' /\ Written'
    BY DEF FiltersOK, CallsOK, FlagsOK, Written
  <2>2. QuietIsSafe' /\ TracedInTrace' /\ CoveredAreTraced'
    BY DEF QuietIsSafe, TracedInTrace, CoveredAreTraced
  <2>3. DueIsComing' /\ NotYetShown' /\ Explained' /\ FiltersDecide'
    BY DEF DueIsComing, NotYetShown, Explained, FiltersDecide
  <2> QED  BY <2>1, <2>2, <2>3
<1>5. CASE Unwind
  <2>a. Len(calls) = 1 \/ Len(calls) > 1
    BY OneCallOrMore
  <2> USE <1>5 DEF Unwind
  <2>0. \/ phase' = "ended" /\ calls' = calls
        \/ phase' = "raising" /\ Len(calls) > 1 /\ calls' = SubSeq(calls, 1, Len(calls) - 1)
    <3>1. CASE Len(calls) = 1
      BY <3>1
    <3>2. CASE Len(calls) # 1
      <4>1. phase' = "raising" /\ calls' = Front(calls)
        BY <3>2
      <4>2. calls' = SubSeq(calls, 1, Len(calls) - 1)
        BY <4>1 DEF Front
      <4> QED  BY <2>a, <3>2, <4>1, <4>2
    <3> QED  BY <3>1, <3>2
  <2>1. CallsOK' /\ CoveredAreTraced'
    BY <2>0 DEF CallsOK, CoveredAreTraced
  <2>2. FiltersOK' /\ FlagsOK' /\ Written' /\ QuietIsSafe' /\ TracedInTrace'
    BY <2>0 DEF FiltersOK, FlagsOK, Written, QuietIsSafe, TracedInTrace, is_enabled
  <2>3. DueIsComing' /\ NotYetShown' /\ Explained' /\ FiltersDecide'
    BY <2>0 DEF DueIsComing, NotYetShown, Explained, FiltersDecide
  <2> QED  BY <2>1, <2>2, <2>3
<1> QED  BY <1>1, <1>2, <1>3, <1>4, <1>5, DispatchKeeps, ShouldBreakKeeps DEF Except

\* Every step keeps the invariant.
LEMMA ExceptionStep == ExceptionInvariant /\ [ExceptionNext]_exceptionVars => ExceptionInvariant'
<1> SUFFICES ASSUME ExceptionInvariant, [ExceptionNext]_exceptionVars PROVE ExceptionInvariant'
  OBVIOUS
<1>1. ASSUME NEW c \in AskedFor, handle_set_exception_breakpoints_impl(c)
      PROVE  ExceptionInvariant'
  BY <1>1, AskedAreConfigs, RequestKeeps DEF handle_set_exception_breakpoints_impl
<1>2. ASSUME NEW names \in SUBSET FilterNames, set_exception_breakpoints(names)
      PROVE  ExceptionInvariant'
  BY <1>2, NamesAreConfigs, RequestKeeps DEF set_exception_breakpoints
<1>3. ASSUME \/ \E c \in AskedFor : _handle_set_exception_breakpoints(c)
             \/ UNCHANGED exceptionVars
      PROVE  ExceptionInvariant'
  <2>1. UNCHANGED <<config, writing, inForce, traceVars, calls, raised, flying, phase, judged, info,
                    shownHere, due, quiet>>
    BY <1>3 DEF _handle_set_exception_breakpoints, exceptionVars, filterVars
  <2> USE <2>1 DEF ExceptionInvariant, traceVars
  <2>2. FiltersOK' /\ CallsOK' /\ FlagsOK' /\ Written'
    BY DEF FiltersOK, CallsOK, FlagsOK, Written
  <2>3. QuietIsSafe' /\ TracedInTrace' /\ CoveredAreTraced'
    BY DEF QuietIsSafe, TracedInTrace, CoveredAreTraced, is_enabled
  <2>4. DueIsComing'
    BY DEF DueIsComing, get_break_mode, Wants, RaisedWanted, _matches_condition
  <2>5. NotYetShown' /\ Explained' /\ FiltersDecide'
    BY DEF NotYetShown, Explained, FiltersDecide
  <2> QED  BY <2>2, <2>3, <2>4, <2>5
<1> QED
  BY <1>1, <1>2, <1>3, WriteFieldKeeps, CommandKeeps, ExecuteKeeps, ExceptKeeps
  DEF ExceptionNext, SetFilters

\* The invariant holds throughout.
LEMMA ExceptionAlways == ExceptionSpec => []ExceptionInvariant
  BY ExceptionInitially, ExceptionStep, PTL DEF ExceptionSpec

\* In every frame called while filters were set, an exception stops the program exactly when the
\* filters in force ask for it, whatever types and conditions there are and however many frames,
\* exceptions and requests (ExceptionHandler.should_break, DebuggerBDB.set_continue).
THEOREM FiltersDecideAlways == ExceptionSpec => []FiltersDecide
<1>1. ExceptionInvariant => FiltersDecide
  BY DEF ExceptionInvariant
<1> QED  BY <1>1, ExceptionAlways, PTL

\* While the program stands at an exception, exceptionInfo answers with this one, in this frame and
\* with the mode of the filters that stopped it (store_exception_info, cmd_exception_info).
THEOREM ExceptionIsExplainedAlways == ExceptionSpec => []ExceptionIsExplained
<1>1. ExceptionInvariant => ExceptionIsExplained
  BY DEF ExceptionInvariant, Explained, ExceptionIsExplained, cmd_exception_info
<1> QED  BY <1>1, ExceptionAlways, PTL

-----------------------------------------------------------------------------
(***************************************************************************)
(* Watches: what a line and a read tell of the values watched.             *)
(***************************************************************************)

USE TargetsAssumption, ValuesAssumption, AssignedAssumption, MeaningAssumption,
    WatchRequestsAssumption
USE DEF Targets, Given

\* The steps of a registration by what has been put into the tables when they come.
AfterExpressionMetas == {"sync", "restart"}
AfterReads == {"expressions", "expressionMetas", "expressionMeta"} \union AfterExpressionMetas
AfterMetas == {"writes", "readNames"} \union AfterReads
RegistrationSteps == {"idle", "names", "reads", "metas", "meta"} \union AfterMetas

WatchesTyped ==
    /\ registering \in [at : RegistrationSteps, metas : SUBSET DataBreakpoints,
                        left : SUBSET DataBreakpoints]
    /\ inEffect \subseteq DataBreakpoints
    /\ watch_names \subseteq VariableNames /\ read_watch_names \subseteq VariableNames
    /\ watch_expressions \subseteq Expressions
    /\ value \in [VariableNames -> Given]
    /\ inFrame \in [Targets -> Given] /\ everywhere \in [Targets -> Given]
    /\ baseline \in [Targets -> Given \union {Unknown}]
    /\ readsSupported \in BOOLEAN /\ monitoring \in BOOLEAN /\ overlapped \in BOOLEAN

\* The breakpoints of names are in the table but for those left to append.
NameMetas(metas, left) ==
    /\ DOMAIN watch_meta = NamesOf(metas, Accesses)
    /\ \A n \in DOMAIN watch_meta : watch_meta[n] = Of(metas, n) \ left

ExpressionMetas(metas, left) ==
    /\ DOMAIN watch_expression_meta = ExpressionsOf(metas)
    /\ \A e \in DOMAIN watch_expression_meta : watch_expression_meta[e] = Of(metas, e) \ left

\* The tables say what the breakpoints say.
Settled(metas) ==
    /\ watch_names = NamesOf(metas, Writes) /\ read_watch_names = NamesOf(metas, Reads)
    /\ NameMetas(metas, {})
    /\ watch_expressions = ExpressionsOf(metas)
    /\ ExpressionMetas(metas, {})
    /\ monitored = IF monitoring THEN NamesOf(metas, Reads) ELSE {}

LeftOver ==
    LET metas == registering.metas
        left == registering.left
    IN /\ registering.at \notin {"meta", "expressionMeta"} => left = {}
       /\ registering.at = "meta" => left \subseteq {m \in metas : m.target \in VariableNames}
       /\ registering.at = "expressionMeta" => left \subseteq {m \in metas : m.target \in Expressions}

\* How far a registration got says what the tables hold.
TablesFilled ==
    LET at == registering.at
        metas == registering.metas
        left == registering.left
    IN /\ LeftOver
       /\ at \in {"reads", "metas"} => watch_names = NamesOf(metas, Accesses)
       /\ at = "metas" => read_watch_names = {}
       /\ at \in {"meta"} \union AfterMetas => NameMetas(metas, left)
       /\ at \in AfterMetas \ {"writes"} => watch_names = NamesOf(metas, Writes)
       /\ at \in AfterReads => read_watch_names = NamesOf(metas, Reads)
       /\ at \in AfterReads \ {"expressions"} => watch_expressions = ExpressionsOf(metas)
       /\ at \in {"expressionMeta"} \union AfterExpressionMetas => ExpressionMetas(metas, left)
       /\ ~monitoring => monitored = {}
       /\ at = "restart" => monitoring /\ monitored = read_watch_names
       /\ at = "idle" => registering = Registered /\ Settled(inEffect)

\* A read to report that sys.monitoring does not call back for was silenced while a request was
\* under way, or the back end is about to have all of them called back.
NotDeaf == registering.at # "restart" => silenced \intersect monitored \subseteq lost

LineSteps ==
    {"changes", "expression changes", "names?", "frame", "global", "expressions?", "expressions",
     "judging"}
ReadSteps == {"instruction", "disable", "read?", "judging read"}

\* Which event the program's thread is at, and what it may have found by then.
EventShape ==
    /\ activity \in {"running", "told"} \union LineSteps \union ReadSteps
    /\ activity \in {"running"} \union LineSteps => reading = {}
    /\ activity \in ReadSteps => reading # {}
    /\ reading \subseteq VariableNames /\ \A m, n \in reading : m = n
    /\ changed \subseteq Targets /\ told \subseteq Targets
    /\ activity \notin {"judging", "told"} => told = {}
    /\ activity \in {"running", "told", "changes"} \union ReadSteps => changed = {}

Known(t) == baseline[t] # Unknown
Watched(t) == t \in watch_names \union watch_expressions

\* The next line would compare target t with b.
Holds(t, b) == b # Unknown => everywhere[t] = b /\ inFrame[t] \in {Unbound, b}

\* No line has begun to keep new values.
Untouched ==
    activity \in {"running", "changes", "expression changes", "names?", "frame"} \/ reading # {}

NewValue(t) == IF Now(t) # Unbound /\ Watched(t) THEN Now(t) ELSE baseline[t]

\* The names have been looked at once, or as often as they are.
HalfKept(t) == activity = "global" /\ t \in VariableNames
FullyKept(t) ==
    \/ activity \in {"judging", "told"}
    \/ t \in VariableNames /\ activity \in {"expressions?", "expressions"}

\* The values kept are those of the last line until this one keeps its own.
Kept(t) ==
    /\ HalfKept(t) => /\ Known(t) => everywhere[t] = baseline[t]
                      /\ inFrame[t] = IF Watched(t) THEN Now(t) ELSE Unbound
    /\ FullyKept(t) => Holds(t, NewValue(t))
    /\ ~HalfKept(t) /\ ~FullyKept(t) => Holds(t, baseline[t])

LookedAt(t) == IF activity = "expression changes" THEN t \in watch_names ELSE Watched(t)

\* What is found changed did change; what changed is found, judged and told.
Found(t) ==
    /\ t \in changed => LookedAt(t) /\ (Known(t) => Moved(t))
    /\ t \in told => LookedAt(t) /\ Wanted(t, "write") /\ (Known(t) => Moved(t))
    /\ Known(t) /\ Moved(t) /\ LookedAt(t) /\ t \notin changed /\ activity # "changes" =>
          activity \in {"judging", "told"} /\ (Wanted(t, "write") => t \in told)

ReadFound ==
    /\ activity = "disable" => reading \intersect monitored = {}
    /\ activity \in {"read?", "judging read"} => reading \subseteq monitored
    /\ activity = "told" => ReadsTell

\* An event that no request has overlapped so far.
QuietEvent ==
    /\ registering = Registered
    /\ reading = {} => \A t \in Targets : Kept(t) /\ Found(t)
    /\ ReadFound

\* The inductive invariant.
WatchesInv ==
    /\ WatchesTyped /\ TablesFilled /\ NotDeaf /\ EventShape
    /\ Untouched => \A t \in Targets : Holds(t, baseline[t])
    /\ activity # "running" /\ ~overlapped => QuietEvent

-----------------------------------------------------------------------------

LEMMA ValuesTyped ==
    ASSUME WatchesTyped, NEW t \in Targets
    PROVE  Now(t) \in Given
BY DEF WatchesTyped, Now

LEMMA WatchesInitially == WatchesInit => WatchesInv
<1> SUFFICES ASSUME WatchesInit
             PROVE  WatchesInv
  OBVIOUS
<1>1. WatchesTyped
  BY DEF WatchesInit, WatchesTyped, Registered, RegistrationSteps, DataBreakpoints
<1>2. Settled({})
  BY DEF WatchesInit, Settled, NameMetas, ExpressionMetas, NamesOf, ExpressionsOf, Of
<1>3. TablesFilled
  BY <1>2 DEF WatchesInit, TablesFilled, LeftOver, Registered, AfterMetas, AfterReads,
     AfterExpressionMetas
<1>4. NotDeaf /\ EventShape
  BY DEF WatchesInit, NotDeaf, EventShape, Registered, LineSteps, ReadSteps
<1>5. \A t \in Targets : Holds(t, baseline[t])
  BY DEF WatchesInit, Holds
<1> QED
  BY <1>1, <1>3, <1>4, <1>5 DEF WatchesInit, WatchesInv

-----------------------------------------------------------------------------
(* Requests: what an event under way found no longer counts.               *)

LEMMA RequestOverlaps ==
    ASSUME WatchesInv, UNCHANGED <<value, watching>>, overlapped' = TRUE,
           WatchesTyped', TablesFilled', NotDeaf'
    PROVE  WatchesInv'
<1>1. EventShape'
  BY DEF WatchesInv, EventShape, watching, event, snapshots
<1>2. Untouched' => \A t \in Targets : Holds(t, baseline[t])'
  BY DEF WatchesInv, Untouched, Holds, watching, event, snapshots
<1> QED
  BY <1>1, <1>2 DEF WatchesInv

LEMMA BuiltMetas ==
    ASSUME NEW bps \in WatchRequests
    PROVE  {_build_watch_meta(bp) : bp \in bps} \subseteq DataBreakpoints
<1> SUFFICES ASSUME NEW bp \in bps
             PROVE  _build_watch_meta(bp) \in DataBreakpoints
  OBVIOUS
<1>1. bp \in DataBreakpoints
  OBVIOUS
<1>2. PICK access \in Accesses : access = _effective_access_type(bp.access)
  BY <1>1 DEF DataBreakpoints, _effective_access_type, Accesses
<1>3. _build_watch_meta(bp) = [bp EXCEPT !.access = access]
  BY <1>2 DEF _build_watch_meta
<1> QED
  BY <1>1, <1>3 DEF DataBreakpoints

\* What a step of the registration leaves as it is, besides the tables.
LEMMA StepTyped ==
    ASSUME WatchesTyped, UNCHANGED <<reads, value, watching>>, overlapped' \in BOOLEAN,
           inEffect' \subseteq DataBreakpoints,
           registering' \in [at : RegistrationSteps, metas : SUBSET DataBreakpoints,
                             left : SUBSET DataBreakpoints],
           watch_names' \subseteq VariableNames, read_watch_names' \subseteq VariableNames,
           watch_expressions' \subseteq Expressions
    PROVE  WatchesTyped'
BY DEF WatchesTyped, reads, watching, event, snapshots

LEMMA NamesAreNames ==
    ASSUME NEW metas, NEW accesses
    PROVE  NamesOf(metas, accesses) \subseteq VariableNames
BY DEF NamesOf

\* A quiet step changes nothing but the count of the requests.
LEMMA QuietRequest ==
    ASSUME WatchesInv, UNCHANGED <<reads, registering, watchTables, monitored, inEffect, deafness,
                                   value, watching, overlapped>>
    PROVE  WatchesInv'
<1> USE DEF WatchesInv, reads, watchTables, deafness, watching, event, snapshots
<1>1. WatchesTyped'
  BY DEF WatchesTyped
<1>2. TablesFilled'
  BY DEF TablesFilled, LeftOver, Settled, NameMetas, ExpressionMetas
<1>3. NotDeaf' /\ EventShape'
  BY DEF NotDeaf, EventShape
<1>4. Untouched' => \A t \in Targets : Holds(t, baseline[t])'
  BY DEF Untouched, Holds
<1>5. ASSUME QuietEvent
      PROVE  QuietEvent'
  <2>1. \A t \in Targets : Kept(t) => Kept(t)'
    BY SMTT(30) DEF Kept, HalfKept, FullyKept, Holds, Known, Watched, NewValue, Now
  <2>2. ASSUME NEW t \in Targets, Found(t)
        PROVE  Found(t)'
    <3>1. Wanted(t, "write")' <=> Wanted(t, "write")
      BY DEF Wanted
    <3>2. Moved(t)' <=> Moved(t)
      BY DEF Moved, Now
    <3>3. (Known(t)' <=> Known(t)) /\ (LookedAt(t)' <=> LookedAt(t))
      BY DEF Known, LookedAt, Watched
    <3> QED
      BY <2>2, <3>1, <3>2, <3>3 DEF Found
  <2>3. ReadFound => ReadFound'
    BY DEF ReadFound, ReadsTell, Wanted
  <2> QED
    BY <1>5, <2>1, <2>2, <2>3 DEF QuietEvent
<1> QED
  BY <1>1, <1>2, <1>3, <1>4, <1>5

LEMMA RequestKeepsWatches ==
    ASSUME WatchesInv, NEW bps \in WatchRequests, handle_set_data_breakpoints_impl(bps)
    PROVE  WatchesInv'
<1>1. CASE bps = {}
  BY <1>1, QuietRequest DEF handle_set_data_breakpoints_impl
<1>2. CASE bps # {}
  <2>1. /\ registering' = [at |-> "names", metas |-> {_build_watch_meta(bp) : bp \in bps}, left |-> {}]
        /\ overlapped' = TRUE
        /\ UNCHANGED <<reads, watchTables, monitored, inEffect, deafness, value, watching>>
        /\ registering = Registered
    BY <1>2 DEF handle_set_data_breakpoints_impl
  <2>2. WatchesTyped'
    BY <2>1, BuiltMetas, StepTyped DEF WatchesInv, WatchesTyped, RegistrationSteps, watchTables
  <2>3. TablesFilled'
    BY <2>1 DEF WatchesInv, TablesFilled, LeftOver, AfterMetas, AfterReads,
       AfterExpressionMetas, Registered, reads
  <2>4. NotDeaf'
    BY <2>1 DEF WatchesInv, NotDeaf, Registered, deafness
  <2> QED
    BY <2>1, <2>2, <2>3, <2>4, RequestOverlaps
<1> QED
  BY <1>1, <1>2

-----------------------------------------------------------------------------
(* The steps of a registration.                                            *)

LEMMA ThenKeeps ==
    ASSUME WatchesInv, NEW here, NEW next \in RegistrationSteps, Then(here, next),
           UNCHANGED <<monitored, inEffect>>,
           watch_names' \subseteq VariableNames, read_watch_names' \subseteq VariableNames,
           watch_expressions' \subseteq Expressions
    PROVE  /\ WatchesTyped'
           /\ registering'.at = next /\ registering'.metas = registering.metas
           /\ registering'.left = registering.left
           /\ here # "restart" => NotDeaf'
<1>1. /\ registering' \in [at : RegistrationSteps, metas : SUBSET DataBreakpoints,
                            left : SUBSET DataBreakpoints]
      /\ registering'.at = next /\ registering'.metas = registering.metas
      /\ registering'.left = registering.left
  BY DEF Then, WatchesInv, WatchesTyped
<1>2. WatchesTyped'
  BY <1>1, StepTyped DEF Then, WatchesInv, WatchesTyped
<1> QED
  BY <1>1, <1>2 DEF WatchesInv, NotDeaf, Then, deafness

LEMMA TableKeeps ==
    ASSUME WatchesInv, WatchAll \/ ForgetReads \/ WatchWrites \/ WatchReads \/ WatchExpressions
    PROVE  WatchesInv'
<1> USE DEF AfterMetas, AfterReads, AfterExpressionMetas, RegistrationSteps
<1>1. CASE WatchAll
  <2>1. /\ Then("names", "reads") /\ UNCHANGED <<monitored, inEffect>>
        /\ watch_names' \subseteq VariableNames /\ read_watch_names' \subseteq VariableNames
        /\ watch_expressions' \subseteq Expressions
    BY <1>1, NamesAreNames DEF WatchAll, WatchesInv, WatchesTyped, ExpressionsOf
  <2>2. /\ WatchesTyped' /\ NotDeaf'
        /\ registering'.at = "reads" /\ registering'.metas = registering.metas
        /\ registering'.left = registering.left
    BY <2>1, ThenKeeps
  <2>3. TablesFilled'
    BY <1>1, <2>1, <2>2 DEF WatchAll, Then, WatchesInv, TablesFilled, LeftOver, NameMetas,
       ExpressionMetas, reads
  <2> QED
    BY <2>1, <2>2, <2>3, RequestOverlaps DEF Then
<1>2. CASE ForgetReads
  <2>1. /\ Then("reads", "metas") /\ UNCHANGED <<monitored, inEffect>>
        /\ watch_names' \subseteq VariableNames /\ read_watch_names' \subseteq VariableNames
        /\ watch_expressions' \subseteq Expressions
    BY <1>2, NamesAreNames DEF ForgetReads, WatchesInv, WatchesTyped, ExpressionsOf
  <2>2. /\ WatchesTyped' /\ NotDeaf'
        /\ registering'.at = "metas" /\ registering'.metas = registering.metas
        /\ registering'.left = registering.left
    BY <2>1, ThenKeeps
  <2>3. TablesFilled'
    BY <1>2, <2>1, <2>2 DEF ForgetReads, Then, WatchesInv, TablesFilled, LeftOver, NameMetas,
       ExpressionMetas, reads
  <2> QED
    BY <2>1, <2>2, <2>3, RequestOverlaps DEF Then
<1>3. CASE WatchWrites
  <2>1. /\ Then("writes", "readNames") /\ UNCHANGED <<monitored, inEffect>>
        /\ watch_names' \subseteq VariableNames /\ read_watch_names' \subseteq VariableNames
        /\ watch_expressions' \subseteq Expressions
    BY <1>3, NamesAreNames DEF WatchWrites, WatchesInv, WatchesTyped, ExpressionsOf
  <2>2. /\ WatchesTyped' /\ NotDeaf'
        /\ registering'.at = "readNames" /\ registering'.metas = registering.metas
        /\ registering'.left = registering.left
    BY <2>1, ThenKeeps
  <2>3. TablesFilled'
    BY <1>3, <2>1, <2>2 DEF WatchWrites, Then, WatchesInv, TablesFilled, LeftOver, NameMetas,
       ExpressionMetas, reads
  <2> QED
    BY <2>1, <2>2, <2>3, RequestOverlaps DEF Then
<1>4. CASE WatchReads
  <2>1. /\ Then("readNames", "expressions") /\ UNCHANGED <<monitored, inEffect>>
        /\ watch_names' \subseteq VariableNames /\ read_watch_names' \subseteq VariableNames
        /\ watch_expressions' \subseteq Expressions
    BY <1>4, NamesAreNames DEF WatchReads, WatchesInv, WatchesTyped, ExpressionsOf
  <2>2. /\ WatchesTyped' /\ NotDeaf'
        /\ registering'.at = "expressions" /\ registering'.metas = registering.metas
        /\ registering'.left = registering.left
    BY <2>1, ThenKeeps
  <2>3. TablesFilled'
    BY <1>4, <2>1, <2>2 DEF WatchReads, Then, WatchesInv, TablesFilled, LeftOver, NameMetas,
       ExpressionMetas, reads
  <2> QED
    BY <2>1, <2>2, <2>3, RequestOverlaps DEF Then
<1>5. CASE WatchExpressions
  <2>1. /\ Then("expressions", "expressionMetas") /\ UNCHANGED <<monitored, inEffect>>
        /\ watch_names' \subseteq VariableNames /\ read_watch_names' \subseteq VariableNames
        /\ watch_expressions' \subseteq Expressions
    BY <1>5, NamesAreNames DEF WatchExpressions, WatchesInv, WatchesTyped, ExpressionsOf
  <2>2. /\ WatchesTyped' /\ NotDeaf'
        /\ registering'.at = "expressionMetas" /\ registering'.metas = registering.metas
        /\ registering'.left = registering.left
    BY <2>1, ThenKeeps
  <2>3. TablesFilled'
    BY <1>5, <2>1, <2>2 DEF WatchExpressions, Then, WatchesInv, TablesFilled, LeftOver, NameMetas,
       ExpressionMetas, reads
  <2> QED
    BY <2>1, <2>2, <2>3, RequestOverlaps DEF Then
<1> QED
  BY <1>1, <1>2, <1>3, <1>4, <1>5

LEMMA NoNames ==
    ASSUME NEW metas \in SUBSET DataBreakpoints, NamesOf(metas, Accesses) = {}
    PROVE  /\ NamesOf(metas, Writes) = {} /\ NamesOf(metas, Reads) = {}
           /\ {m \in metas : m.target \in VariableNames} = {}
BY DEF NamesOf, Of, DataBreakpoints, Writes, Reads, Accesses

LEMMA ForgetMetasKeeps ==
    ASSUME WatchesInv, ForgetMetas
    PROVE  WatchesInv'
<1> DEFINE metas == registering.metas
           names == NamesOf(metas, Accesses)
           left == {m \in metas : m.target \in VariableNames}
<1> USE DEF AfterMetas, AfterReads, AfterExpressionMetas, RegistrationSteps
<1>1. /\ registering.at = "metas" /\ registering.left = {} /\ metas \subseteq DataBreakpoints
      /\ watch_names = names /\ read_watch_names = {}
  BY DEF WatchesInv, WatchesTyped, TablesFilled, LeftOver, ForgetMetas
<1>2. /\ registering' = [registering EXCEPT !.at = IF names = {} THEN "expressions" ELSE "meta",
                                            !.left = left]
      /\ watch_meta' = [n \in names |-> {}] /\ overlapped' = TRUE
      /\ UNCHANGED <<reads, registrations, watch_names, read_watch_names, watch_expressions,
                     watch_expression_meta, monitored, inEffect, deafness, value, watching>>
  <2>1. registering.left \union metas = metas
    BY <1>1
  <2> QED
    BY <2>1 DEF ForgetMetas
<1>3. /\ registering' \in [at : RegistrationSteps, metas : SUBSET DataBreakpoints,
                            left : SUBSET DataBreakpoints]
      /\ registering'.metas = metas /\ registering'.left = left
      /\ registering'.at = IF names = {} THEN "expressions" ELSE "meta"
  BY <1>1, <1>2 DEF WatchesInv, WatchesTyped
<1>4. WatchesTyped'
  BY <1>2, <1>3, StepTyped DEF WatchesInv, WatchesTyped
<1>5. NameMetas(metas, left)'
  <2>1. \A n \in names : Of(metas, n) \ left = {}
    BY DEF NamesOf, Of
  <2> QED
    BY <1>2, <1>3, <2>1 DEF NameMetas
<1>6. CASE names = {}
  <2>1. left = {} /\ watch_names' = NamesOf(metas, Writes) /\ read_watch_names' = NamesOf(metas, Reads)
    BY <1>1, <1>2, <1>6, NoNames
  <2>2. registering'.at = "expressions"
    BY <1>3, <1>6
  <2>3. TablesFilled'
    BY <1>2, <1>3, <1>5, <2>1, <2>2 DEF WatchesInv, TablesFilled, LeftOver, reads
  <2>4. NotDeaf'
    BY <1>1, <1>2, <2>2 DEF WatchesInv, NotDeaf, deafness
  <2> QED
    BY <1>2, <1>4, <2>3, <2>4, RequestOverlaps
<1>7. CASE names # {}
  BY <1>1, <1>2, <1>3, <1>4, <1>5, <1>7, RequestOverlaps
     DEF WatchesInv, TablesFilled, LeftOver, NotDeaf, reads, deafness
<1> QED
  BY <1>6, <1>7

LEMMA AppendMetaKeeps ==
    ASSUME WatchesInv, NEW m \in registering.left, AppendMeta(m)
    PROVE  WatchesInv'
<1> DEFINE metas == registering.metas
           left == registering.left \ {m}
<1> USE DEF AfterMetas, AfterReads, AfterExpressionMetas, RegistrationSteps
<1>1. /\ registering.at = "meta" /\ NameMetas(metas, registering.left)
      /\ registering.left \subseteq {b \in metas : b.target \in VariableNames}
      /\ metas \subseteq DataBreakpoints
  BY DEF WatchesInv, WatchesTyped, TablesFilled, LeftOver, AppendMeta, TakeNext
<1>2. /\ registering' = [registering EXCEPT !.left = left, !.at = IF left = {} THEN "writes" ELSE "meta"]
      /\ watch_meta' = [watch_meta EXCEPT ![m.target] = @ \union {m}] /\ overlapped' = TRUE
      /\ UNCHANGED <<reads, registrations, watch_names, read_watch_names, watch_expressions,
                     watch_expression_meta, monitored, inEffect, deafness, value, watching>>
  BY DEF AppendMeta, TakeNext
<1>3. /\ registering' \in [at : RegistrationSteps, metas : SUBSET DataBreakpoints,
                            left : SUBSET DataBreakpoints]
      /\ registering'.metas = metas /\ registering'.left = left
      /\ registering'.at = IF left = {} THEN "writes" ELSE "meta"
  BY <1>2 DEF WatchesInv, WatchesTyped
<1>4. WatchesTyped'
  BY <1>2, <1>3, StepTyped DEF WatchesInv, WatchesTyped
<1>5. NameMetas(metas, left)'
  <2>1. DOMAIN watch_meta' = NamesOf(metas, Accesses)
    BY <1>1, <1>2 DEF NameMetas
  <2>2. ASSUME NEW n \in NamesOf(metas, Accesses)
        PROVE  watch_meta'[n] = Of(metas, n) \ left
    <3>1. watch_meta[n] = Of(metas, n) \ registering.left
      BY <1>1, <2>2 DEF NameMetas
    <3>2. watch_meta'[n] = IF n = m.target THEN watch_meta[n] \union {m} ELSE watch_meta[n]
      BY <1>1, <1>2, <2>2 DEF NameMetas
    <3> QED
      BY <1>1, <3>1, <3>2 DEF Of
  <2> QED
    BY <1>3, <2>1, <2>2 DEF NameMetas
<1> QED
  BY <1>1, <1>2, <1>3, <1>4, <1>5, RequestOverlaps
     DEF WatchesInv, TablesFilled, LeftOver, NotDeaf, reads, deafness

\* The breakpoints of expressions are not those of names.
LEMMA NamesApart ==
    ASSUME NEW metas, NEW left \in SUBSET {m \in metas : m.target \in Expressions},
           NEW n \in VariableNames
    PROVE  Of(metas, n) \ left = Of(metas, n)
BY DEF Of

LEMMA ForgetExpressionMetasKeeps ==
    ASSUME WatchesInv, ForgetExpressionMetas
    PROVE  WatchesInv'
<1> DEFINE metas == registering.metas
           expressions == ExpressionsOf(metas)
           left == {m \in metas : m.target \in Expressions}
           next == IF expressions = {} THEN "sync" ELSE "expressionMeta"
<1> USE DEF AfterMetas, AfterReads, AfterExpressionMetas, RegistrationSteps
<1>1. /\ registering.at = "expressionMetas" /\ registering.left = {} /\ metas \subseteq DataBreakpoints
      /\ NameMetas(metas, {})
  BY DEF WatchesInv, WatchesTyped, TablesFilled, LeftOver, ForgetExpressionMetas
<1>2. /\ registering' = [registering EXCEPT !.at = next, !.left = left]
      /\ watch_expression_meta' = [e \in expressions |-> {}] /\ overlapped' = TRUE
      /\ UNCHANGED <<reads, registrations, watch_names, read_watch_names, watch_meta,
                     watch_expressions, monitored, inEffect, deafness, value, watching>>
  <2>1. registering.left \union metas = metas
    BY <1>1
  <2> QED
    BY <2>1 DEF ForgetExpressionMetas
<1>3. /\ registering' \in [at : RegistrationSteps, metas : SUBSET DataBreakpoints,
                            left : SUBSET DataBreakpoints]
      /\ registering'.metas = metas /\ registering'.left = left /\ registering'.at = next
  BY <1>1, <1>2 DEF WatchesInv, WatchesTyped
<1>4. WatchesTyped'
  BY <1>2, <1>3, StepTyped DEF WatchesInv, WatchesTyped
<1>5. ExpressionMetas(metas, left)'
  <2>1. \A e \in expressions : Of(metas, e) \ left = {}
    BY DEF ExpressionsOf, Of
  <2> QED
    BY <1>2, <1>3, <2>1 DEF ExpressionMetas
<1>6. NameMetas(metas, left)'
  <2>1. \A n \in VariableNames : Of(metas, n) \ left = Of(metas, n)
    BY NamesApart
  <2>2. \A n \in DOMAIN watch_meta : n \in VariableNames
    BY <1>1, NamesAreNames DEF NameMetas
  <2>3. NameMetas(metas, left)
    BY <1>1, <2>1, <2>2 DEF NameMetas
  <2>4. watch_meta' = watch_meta /\ metas' = metas
    BY <1>2, <1>3
  <2> QED
    BY <1>3, <2>3, <2>4 DEF NameMetas
<1>7. expressions = {} => left = {}
  BY <1>1 DEF ExpressionsOf, Of
<1>8. TablesFilled'
  BY <1>1, <1>2, <1>3, <1>5, <1>6, <1>7 DEF WatchesInv, TablesFilled, LeftOver, reads
<1>9. NotDeaf'
  BY <1>1, <1>2 DEF WatchesInv, NotDeaf, deafness
<1> QED
  BY <1>2, <1>4, <1>8, <1>9, RequestOverlaps

LEMMA AppendExpressionMetaKeeps ==
    ASSUME WatchesInv, NEW m \in registering.left, AppendExpressionMeta(m)
    PROVE  WatchesInv'
<1> DEFINE metas == registering.metas
           left == registering.left \ {m}
           next == IF left = {} THEN "sync" ELSE "expressionMeta"
<1> USE DEF AfterMetas, AfterReads, AfterExpressionMetas, RegistrationSteps
<1>1. /\ registering.at = "expressionMeta" /\ ExpressionMetas(metas, registering.left)
      /\ NameMetas(metas, registering.left)
      /\ registering.left \subseteq {b \in metas : b.target \in Expressions}
      /\ metas \subseteq DataBreakpoints
  BY DEF WatchesInv, WatchesTyped, TablesFilled, LeftOver, AppendExpressionMeta, TakeNext
<1>2. /\ registering' = [registering EXCEPT !.left = left, !.at = next]
      /\ watch_expression_meta' = [watch_expression_meta EXCEPT ![m.target] = @ \union {m}]
      /\ overlapped' = TRUE
      /\ UNCHANGED <<reads, registrations, watch_names, read_watch_names, watch_meta,
                     watch_expressions, monitored, inEffect, deafness, value, watching>>
  BY DEF AppendExpressionMeta, TakeNext
<1>3. /\ registering' \in [at : RegistrationSteps, metas : SUBSET DataBreakpoints,
                            left : SUBSET DataBreakpoints]
      /\ registering'.metas = metas /\ registering'.left = left /\ registering'.at = next
  BY <1>2 DEF WatchesInv, WatchesTyped
<1>4. WatchesTyped'
  BY <1>2, <1>3, StepTyped DEF WatchesInv, WatchesTyped
<1>5. ExpressionMetas(metas, left)'
  <2>1. DOMAIN watch_expression_meta' = ExpressionsOf(metas)
    BY <1>1, <1>2 DEF ExpressionMetas
  <2>2. ASSUME NEW e \in ExpressionsOf(metas)
        PROVE  watch_expression_meta'[e] = Of(metas, e) \ left
    <3>1. watch_expression_meta[e] = Of(metas, e) \ registering.left
      BY <1>1, <2>2 DEF ExpressionMetas
    <3>2. watch_expression_meta'[e] = IF e = m.target THEN watch_expression_meta[e] \union {m}
                                      ELSE watch_expression_meta[e]
      BY <1>1, <1>2, <2>2 DEF ExpressionMetas
    <3> QED
      BY <1>1, <3>1, <3>2 DEF Of
  <2> QED
    BY <1>3, <2>1, <2>2 DEF ExpressionMetas
<1>6. NameMetas(metas, left)'
  <2>1. \A n \in VariableNames : /\ Of(metas, n) \ registering.left = Of(metas, n)
                                 /\ Of(metas, n) \ left = Of(metas, n)
    <3>1. left \subseteq {b \in metas : b.target \in Expressions}
      BY <1>1
    <3> QED
      BY <1>1, <3>1, NamesApart
  <2>2. \A n \in DOMAIN watch_meta : n \in VariableNames
    BY <1>1, NamesAreNames DEF NameMetas
  <2>3. NameMetas(metas, registering.left) => NameMetas(metas, left)
    BY <2>1, <2>2 DEF NameMetas
  <2>4. watch_meta' = watch_meta /\ metas' = metas
    BY <1>2, <1>3
  <2> QED
    BY <1>1, <1>3, <2>3, <2>4 DEF NameMetas
<1>7. TablesFilled'
  BY <1>1, <1>2, <1>3, <1>5, <1>6 DEF WatchesInv, TablesFilled, LeftOver, reads
<1>8. NotDeaf'
  BY <1>1, <1>2 DEF WatchesInv, NotDeaf, deafness
<1> QED
  BY <1>2, <1>4, <1>7, <1>8, RequestOverlaps

\* The last step puts the breakpoints into effect.
LEMMA ThroughSettles ==
    ASSUME WatchesInv, Through, registering.at \in AfterExpressionMetas,
           UNCHANGED <<reads, watchTables, value, watching>>,
           monitored' = IF monitoring THEN read_watch_names ELSE {},
           silenced' \intersect monitored' \subseteq lost'
    PROVE  WatchesInv'
<1> USE DEF AfterMetas, AfterReads, AfterExpressionMetas, RegistrationSteps
<1>1. registering.metas \subseteq DataBreakpoints /\ registering.left = {}
  BY DEF WatchesInv, WatchesTyped, TablesFilled, LeftOver
<1>2. WatchesTyped'
  BY <1>1, StepTyped DEF WatchesInv, WatchesTyped, Through, Registered, watchTables
<1>3. Settled(inEffect)'
  <2>1. /\ watch_names = NamesOf(registering.metas, Writes)
        /\ read_watch_names = NamesOf(registering.metas, Reads)
        /\ NameMetas(registering.metas, {}) /\ ExpressionMetas(registering.metas, {})
        /\ watch_expressions = ExpressionsOf(registering.metas)
    BY <1>1 DEF WatchesInv, TablesFilled
  <2> QED
    BY <2>1 DEF Settled, NameMetas, ExpressionMetas, Through, watchTables, reads
<1>4. TablesFilled'
  BY <1>3 DEF WatchesInv, WatchesTyped, TablesFilled, LeftOver, Through, Registered, reads
<1>5. NotDeaf'
  BY DEF NotDeaf
<1> QED
  BY <1>2, <1>4, <1>5, RequestOverlaps DEF Through

LEMMA SyncKeeps ==
    ASSUME WatchesInv, SyncReads
    PROVE  WatchesInv'
<1> USE DEF AfterMetas, AfterReads, AfterExpressionMetas, RegistrationSteps
<1>1. CASE RestartReads
  BY <1>1, ThroughSettles DEF RestartReads, WatchesInv, TablesFilled, watchTables, reads
<1>2. CASE SyncNames /\ ~(monitoring /\ monitored # read_watch_names)
  BY <1>2, ThroughSettles DEF SyncNames, WatchesInv, TablesFilled, NotDeaf, deafness
<1>3. CASE SyncNames /\ monitoring /\ monitored # read_watch_names
  <2>1. /\ registering.at = "sync" /\ registering' = [registering EXCEPT !.at = "restart"]
        /\ monitored' = read_watch_names /\ overlapped' = TRUE
        /\ UNCHANGED <<inEffect, reads, registrations, watchTables, deafness, value, watching>>
    BY <1>3 DEF SyncNames
  <2>2. /\ registering' \in [at : RegistrationSteps, metas : SUBSET DataBreakpoints,
                              left : SUBSET DataBreakpoints]
        /\ registering'.metas = registering.metas /\ registering'.left = registering.left
        /\ registering'.at = "restart"
    BY <2>1 DEF WatchesInv, WatchesTyped
  <2>3. WatchesTyped'
    BY <2>1, <2>2, StepTyped DEF WatchesInv, WatchesTyped, watchTables
  <2>4. TablesFilled'
    BY <1>3, <2>1, <2>2 DEF WatchesInv, TablesFilled, LeftOver, NameMetas, ExpressionMetas, reads,
       watchTables
  <2> QED
    BY <2>1, <2>2, <2>3, <2>4, RequestOverlaps DEF NotDeaf
<1> QED
  BY <1>1, <1>2, <1>3 DEF SyncReads

LEMMA RegistrationKeeps ==
    ASSUME WatchesInv, register_data_watches
    PROVE  WatchesInv'
BY TableKeeps, ForgetMetasKeeps, AppendMetaKeeps, ForgetExpressionMetasKeeps,
   AppendExpressionMetaKeeps, SyncKeeps
   DEF register_data_watches, register_watches, register_expression_watches

-----------------------------------------------------------------------------
(* The program's thread: what an event leaves alone.                       *)

LEMMA EventKeepsTables ==
    ASSUME WatchesInv, UNCHANGED <<reads, receiving>>
    PROVE  TablesFilled'
BY DEF WatchesInv, TablesFilled, LeftOver, Settled, NameMetas, ExpressionMetas, reads, receiving,
   watchTables

\* What is to be shown of a step of an event.
LEMMA EventStep ==
    ASSUME WatchesInv, UNCHANGED <<reads, receiving, value>>, NotDeaf', EventShape',
           overlapped' \in BOOLEAN,
           inFrame' \in [Targets -> Given], everywhere' \in [Targets -> Given],
           baseline' \in [Targets -> Given \union {Unknown}],
           Untouched' => \A t \in Targets : Holds(t, baseline[t])',
           activity' # "running" /\ ~overlapped' => QuietEvent'
    PROVE  WatchesInv'
<1>1. WatchesTyped'
  BY DEF WatchesInv, WatchesTyped, reads, receiving, watchTables
<1> QED
  BY <1>1, EventKeepsTables DEF WatchesInv

\* Most steps also leave the tables, the values kept and what reads are called back alone.
LEMMA QuietStep ==
    ASSUME WatchesInv, UNCHANGED <<outside, snapshots, baseline>>, EventShape',
           overlapped' \in BOOLEAN,
           Untouched' => Untouched,
           activity' # "running" /\ ~overlapped' => QuietEvent'
    PROVE  WatchesInv'
<1>1. NotDeaf' /\ UNCHANGED <<reads, receiving, value, inFrame, everywhere, baseline>>
  BY DEF WatchesInv, NotDeaf, outside, receiving, deafness, snapshots
<1>2. Untouched' => \A t \in Targets : Holds(t, baseline[t])'
  BY <1>1 DEF WatchesInv, Holds
<1>3. /\ inFrame' \in [Targets -> Given] /\ everywhere' \in [Targets -> Given]
      /\ baseline' \in [Targets -> Given \union {Unknown}]
  BY <1>1 DEF WatchesInv, WatchesTyped
<1> QED
  BY <1>1, <1>2, <1>3, EventStep

LEMMA StatementKeeps ==
    ASSUME WatchesInv, NEW n \in Assigned, NEW v \in Given, Statement(n, v)
    PROVE  WatchesInv'
<1>1. /\ activity = "running" /\ value' = [value EXCEPT ![n] = v]
      /\ UNCHANGED <<reads, receiving, deafness, watching, overlapped>>
  BY DEF Statement
<1>2. WatchesTyped'
  BY <1>1 DEF WatchesInv, WatchesTyped, reads, receiving, watchTables, watching, snapshots, event
<1>3. NotDeaf' /\ EventShape' /\ activity' = "running"
  BY <1>1 DEF WatchesInv, NotDeaf, EventShape, receiving, deafness, watching, event
<1>4. \A t \in Targets : Holds(t, baseline[t])'
  BY <1>1 DEF WatchesInv, Untouched, Holds, watching, snapshots, event
<1> QED
  BY <1>1, <1>2, <1>3, <1>4, EventKeepsTables DEF WatchesInv

\* What a line compares with is what the last one looked at, as long as that is known.
LEMMA DiffersIfMoved ==
    ASSUME NEW t \in Targets, Holds(t, baseline[t]), Known(t)
    PROVE  Differs(t) <=> Moved(t)
BY DEF Holds, Known, Differs, Moved, Old

\* A quiet event finds the tables as the last request left them.
LEMMA QuietTables ==
    ASSUME WatchesInv, activity # "running", ~overlapped
    PROVE  registering = Registered /\ Settled(inEffect) /\ QuietEvent
           /\ inEffect \subseteq DataBreakpoints
BY DEF WatchesInv, WatchesTyped, QuietEvent, TablesFilled, Registered

\* What is watched stops the program as the breakpoints in effect want it.
LEMMA NamesStopAsWanted ==
    ASSUME Settled(inEffect), NEW n \in VariableNames, NEW access \in {"read", "write"},
           n \in IF access = "read" THEN read_watch_names ELSE watch_names
    PROVE  _should_stop_for_data_breakpoint(n, access) <=> Wanted(n, access)
<1>1. PICK m \in Of(inEffect, n) : m.access \in IF access = "read" THEN Reads ELSE Writes
  BY DEF Settled, NamesOf
<1>2. n \in NamesOf(inEffect, Accesses)
  BY <1>1 DEF NamesOf, Reads, Writes, Accesses
<1>3. get_meta_for_name(n) = Of(inEffect, n)
  BY <1>2 DEF Settled, NameMetas, get_meta_for_name
<1>4. n \notin Expressions
  OBVIOUS
<1> QED
  BY <1>1, <1>3, <1>4 DEF _should_stop_for_data_breakpoint, _meta_matches_access_type, Wanted, Of

LEMMA ExpressionsStopAsWanted ==
    ASSUME Settled(inEffect), NEW e \in watch_expressions
    PROVE  _should_stop_for_expression_breakpoint(e) <=> Wanted(e, "write")
<1>1. e \in Expressions /\ Of(inEffect, e) # {}
  BY DEF Settled, ExpressionsOf
<1>2. get_meta_for_expression(e) = Of(inEffect, e)
  BY <1>1 DEF Settled, ExpressionMetas, ExpressionsOf, get_meta_for_expression
<1> QED
  BY <1>1, <1>2 DEF _should_stop_for_expression_breakpoint, Wanted, Of

-----------------------------------------------------------------------------
(* A line.                                                                 *)

LEMMA UserLineKeeps ==
    ASSUME WatchesInv, NEW conditions, user_line(conditions)
    PROVE  WatchesInv'
<1>1. /\ activity = "running" /\ activity' = "changes"
      /\ overlapped' = (registering # Registered)
      /\ UNCHANGED <<outside, snapshots, reading, baseline, changed, told>>
  BY DEF user_line
<1>2. EventShape' /\ reading = {} /\ changed = {} /\ told = {}
  BY <1>1 DEF WatchesInv, EventShape, LineSteps, ReadSteps
<1>3. ASSUME ~overlapped'
      PROVE  QuietEvent'
  <2>1. registering' = Registered
    BY <1>1, <1>3 DEF outside, receiving
  <2>2. \A t \in Targets : Kept(t)' /\ Found(t)'
    BY <1>1, <1>2 DEF WatchesInv, Untouched, Kept, HalfKept, FullyKept, Holds, Found, snapshots
  <2> QED
    BY <1>1, <2>1, <2>2 DEF QuietEvent, ReadFound
<1> QED
  BY <1>1, <1>2, <1>3, QuietStep DEF Untouched

LEMMA ChangesKeep ==
    ASSUME WatchesInv, check_for_changes
    PROVE  WatchesInv'
<1>1. /\ activity = "changes" /\ activity' = "expression changes"
      /\ changed' = {n \in watch_names : Differs(n)}
      /\ UNCHANGED <<outside, snapshots, event, told, overlapped>>
  BY DEF check_for_changes
<1>2. EventShape' /\ reading = {} /\ changed = {} /\ told = {}
  BY <1>1 DEF WatchesInv, WatchesTyped, EventShape, LineSteps, ReadSteps, event
<1>3. ASSUME ~overlapped
      PROVE  QuietEvent'
  <2>1. registering = Registered /\ \A t \in Targets : Kept(t) /\ Found(t)
    BY <1>1, <1>2, <1>3, QuietTables DEF QuietEvent
  <2>2. \A t \in Targets : Kept(t)'
    BY <1>1, <2>1 DEF Kept, HalfKept, FullyKept, Holds, snapshots, event
  <2>3. ASSUME NEW t \in Targets
        PROVE  Found(t)'
    <3>1. Holds(t, baseline[t])
      BY <1>1, <2>1 DEF Kept, HalfKept, FullyKept
    <3>2. Known(t) => (Differs(t) <=> Moved(t))
      BY <3>1, DiffersIfMoved
    <3>3. (Known(t)' <=> Known(t)) /\ (Moved(t)' <=> Moved(t)) /\ (LookedAt(t)' <=> t \in watch_names)
      BY <1>1 DEF Known, Moved, Now, LookedAt, outside, receiving, watchTables, event
    <3> QED
      BY <1>1, <1>2, <3>2, <3>3 DEF Found
  <2> QED
    BY <1>1, <1>2, <2>1, <2>2, <2>3 DEF QuietEvent, ReadFound, outside, receiving
<1> QED
  BY <1>1, <1>2, <1>3, QuietStep DEF WatchesInv, WatchesTyped, Untouched, event

LEMMA ExpressionChangesKeep ==
    ASSUME WatchesInv, check_expression_changes
    PROVE  WatchesInv'
<1>1. /\ activity = "expression changes" /\ activity' = "names?"
      /\ changed' = changed \union {e \in watch_expressions : Differs(e)}
      /\ UNCHANGED <<outside, snapshots, event, told, overlapped>>
  BY DEF check_expression_changes
<1>2. EventShape' /\ reading = {} /\ told = {}
  BY <1>1 DEF WatchesInv, WatchesTyped, EventShape, LineSteps, ReadSteps, event
<1>3. ASSUME ~overlapped
      PROVE  QuietEvent'
  <2>1. registering = Registered /\ \A t \in Targets : Kept(t) /\ Found(t)
    BY <1>1, <1>2, <1>3, QuietTables DEF QuietEvent
  <2>2. \A t \in Targets : Kept(t)'
    BY <1>1, <2>1 DEF Kept, HalfKept, FullyKept, Holds, snapshots, event
  <2>3. ASSUME NEW t \in Targets
        PROVE  Found(t)'
    <3>1. Holds(t, baseline[t])
      BY <1>1, <2>1 DEF Kept, HalfKept, FullyKept
    <3>2. Known(t) => (Differs(t) <=> Moved(t))
      BY <3>1, DiffersIfMoved
    <3>3. /\ (Known(t)' <=> Known(t)) /\ (Moved(t)' <=> Moved(t))
          /\ LookedAt(t)' <=> t \in watch_names \/ t \in watch_expressions
      BY <1>1 DEF Known, Moved, Now, LookedAt, Watched, outside, receiving, watchTables, event
    <3>4. LookedAt(t) <=> t \in watch_names
      BY <1>1 DEF LookedAt
    <3> QED
      BY <1>1, <1>2, <2>1, <3>2, <3>3, <3>4 DEF Found
  <2> QED
    BY <1>1, <1>2, <2>1, <2>2, <2>3 DEF QuietEvent, ReadFound, outside, receiving
<1> QED
  BY <1>1, <1>2, <1>3, QuietStep DEF WatchesInv, WatchesTyped, Untouched, event

\* What a line found changed stays found while the values are kept.
LEMMA StaysFound ==
    ASSUME UNCHANGED <<outside, event, changed, told>>, NEW t \in Targets, Found(t),
           activity \notin {"changes", "expression changes", "judging", "told"},
           activity' \notin {"changes", "expression changes"}
    PROVE  Found(t)'
BY DEF Found, Known, Moved, Now, LookedAt, Watched, Wanted, outside, receiving, watchTables, event

\* Keeping the values takes an event on from one quiet state to another.
LEMMA StepOfKeeping ==
    ASSUME WatchesInv, UNCHANGED <<outside, event, changed, told, overlapped>>,
           activity \in {"names?", "frame", "global", "expressions?", "expressions"},
           activity' \in {"frame", "global", "expressions?", "expressions", Judgement},
           inFrame' \in [Targets -> Given], everywhere' \in [Targets -> Given],
           Untouched' => \A t \in Targets : Holds(t, baseline[t])',
           \A t \in Targets : Settled(inEffect) /\ Kept(t) => Kept(t)'
    PROVE  WatchesInv'
<1>1. reading = {} /\ told = {} /\ EventShape'
  BY DEF WatchesInv, EventShape, LineSteps, ReadSteps, Judgement, event
<1>2. NotDeaf' /\ baseline' \in [Targets -> Given \union {Unknown}] /\ overlapped' \in BOOLEAN
  BY DEF WatchesInv, WatchesTyped, NotDeaf, outside, receiving, deafness, event
<1>3. ASSUME ~overlapped
      PROVE  QuietEvent'
  <2>1. /\ registering = Registered /\ Settled(inEffect)
        /\ \A t \in Targets : Kept(t) /\ Found(t)
    BY <1>1, <1>3, QuietTables DEF QuietEvent
  <2>2. \A t \in Targets : Found(t)'
    BY <2>1, StaysFound DEF Judgement
  <2>3. ReadFound'
    BY <1>1 DEF ReadFound, ReadsTell, Judgement, event
  <2> QED
    BY <2>1, <2>2, <2>3 DEF QuietEvent, outside, receiving
<1> QED
  BY <1>1, <1>2, <1>3, EventStep DEF outside

LEMMA KeepingKeeps ==
    ASSUME WatchesInv, update_snapshots \/ update_expression_snapshots
    PROVE  WatchesInv'
<1> USE DEF Kept, HalfKept, FullyKept, Holds, Known, Watched, NewValue
<1>1. /\ inFrame \in [Targets -> Given] /\ everywhere \in [Targets -> Given]
      /\ watch_names \subseteq VariableNames /\ watch_expressions \subseteq Expressions
      /\ \A t \in Targets : Now(t) \in Given
  BY ValuesTyped DEF WatchesInv, WatchesTyped
<1>2. UNCHANGED <<outside, event>> => /\ UNCHANGED <<watch_names, watch_expressions, baseline>>
                                      /\ \A t \in Targets : Now(t)' = Now(t)
  BY DEF Now, outside, receiving, watchTables, event
<1>3. CASE AnyNames
  <2>1. /\ activity = "names?"
        /\ activity' = IF watch_names = {} THEN "expressions?" ELSE "frame"
        /\ UNCHANGED <<outside, inFrame, everywhere, event, changed, told, overlapped>>
    BY <1>3 DEF AnyNames, snapshots
  <2>2. \A t \in Targets : Kept(t) => Kept(t)'
    BY <1>1, <1>2, <2>1
  <2>3. Untouched' => \A t \in Targets : Holds(t, baseline[t])'
    BY <1>2, <2>1 DEF WatchesInv, Untouched
  <2> QED
    BY <1>1, <2>1, <2>2, <2>3, StepOfKeeping
<1>4. CASE SnapshotFrame
  <2>1. /\ activity = "frame" /\ activity' = "global"
        /\ inFrame' = [t \in Targets |-> IF t \notin VariableNames THEN inFrame[t]
                                         ELSE IF t \in watch_names THEN Now(t) ELSE Unbound]
        /\ UNCHANGED <<outside, everywhere, event, changed, told, overlapped>>
    BY <1>4 DEF SnapshotFrame, Replace
  <2>2. \A t \in Targets : Kept(t) => Kept(t)'
    BY <1>1, <1>2, <2>1
  <2>3. inFrame' \in [Targets -> Given] /\ everywhere' \in [Targets -> Given]
    BY <1>1, <2>1
  <2>4. Untouched' => \A t \in Targets : Holds(t, baseline[t])'
    BY <2>1 DEF WatchesInv, EventShape, Untouched, event, LineSteps
  <2> QED
    BY <2>1, <2>2, <2>3, <2>4, StepOfKeeping
<1>5. CASE SnapshotGlobal
  <2>1. /\ activity = "global" /\ activity' = "expressions?"
        /\ everywhere' = [t \in Targets |-> IF t \in watch_names /\ Now(t) # Unbound THEN Now(t)
                                            ELSE everywhere[t]]
        /\ UNCHANGED <<outside, inFrame, event, changed, told, overlapped>>
    BY <1>5 DEF SnapshotGlobal, Keep
  <2>2. \A t \in Targets : Kept(t) => Kept(t)'
    BY <1>1, <1>2, <2>1
  <2>3. inFrame' \in [Targets -> Given] /\ everywhere' \in [Targets -> Given]
    BY <1>1, <2>1
  <2>4. Untouched' => \A t \in Targets : Holds(t, baseline[t])'
    BY <2>1 DEF WatchesInv, EventShape, Untouched, event, LineSteps
  <2> QED
    BY <2>1, <2>2, <2>3, <2>4, StepOfKeeping
<1>6. CASE AnyExpressions
  <2>1. /\ activity = "expressions?"
        /\ activity' = IF watch_expressions = {} THEN Judgement ELSE "expressions"
        /\ Judgement \in {"told", "judging"}
        /\ UNCHANGED <<outside, inFrame, everywhere, event, changed, told, overlapped>>
    BY <1>6 DEF AnyExpressions, snapshots, Judgement
  <2>2. \A t \in Targets : Kept(t) => Kept(t)'
    BY <1>1, <1>2, <2>1
  <2>3. Untouched' => \A t \in Targets : Holds(t, baseline[t])'
    BY <2>1 DEF WatchesInv, EventShape, Untouched, event, LineSteps
  <2> QED
    BY <1>1, <2>1, <2>2, <2>3, StepOfKeeping
<1>7. CASE SnapshotExpressions
  <2>1. /\ activity = "expressions" /\ activity' = Judgement /\ Judgement \in {"told", "judging"}
        /\ inFrame' = [t \in Targets |-> IF t \notin Expressions THEN inFrame[t]
                                         ELSE IF t \in watch_expressions THEN Now(t) ELSE Unbound]
        /\ everywhere' = [t \in Targets |-> IF t \in watch_expressions /\ Now(t) # Unbound
                                            THEN Now(t) ELSE everywhere[t]]
        /\ UNCHANGED <<outside, event, changed, told, overlapped>>
    BY <1>7 DEF SnapshotExpressions, Replace, Keep, Judgement
  <2>2. \A t \in Targets : Kept(t) => Kept(t)'
    BY <1>1, <1>2, <2>1
  <2>3. inFrame' \in [Targets -> Given] /\ everywhere' \in [Targets -> Given]
    BY <1>1, <2>1
  <2>4. Untouched' => \A t \in Targets : Holds(t, baseline[t])'
    BY <2>1 DEF WatchesInv, EventShape, Untouched, event, LineSteps
  <2> QED
    BY <2>1, <2>2, <2>3, <2>4, StepOfKeeping
<1> QED
  BY <1>3, <1>4, <1>5, <1>6, <1>7 DEF update_snapshots, update_expression_snapshots

LEMMA JudgeKeeps ==
    ASSUME WatchesInv, NEW t \in changed, Judge(t)
    PROVE  WatchesInv'
<1> DEFINE wants == IF t \in VariableNames THEN _should_stop_for_data_breakpoint(t, "write")
                    ELSE _should_stop_for_expression_breakpoint(t)
<1>1. /\ activity = "judging" /\ changed' = changed \ {t}
      /\ activity' = IF changed' = {} THEN "told" ELSE "judging"
      /\ told' = IF wants THEN told \union {t} ELSE told
      /\ UNCHANGED <<outside, snapshots, event, overlapped>>
  BY DEF Judge
<1>2. EventShape' /\ reading = {} /\ t \in Targets
  BY <1>1 DEF WatchesInv, EventShape, LineSteps, ReadSteps, event
<1>3. ASSUME ~overlapped
      PROVE  QuietEvent'
  <2>1. /\ registering = Registered /\ Settled(inEffect)
        /\ \A u \in Targets : Kept(u) /\ Found(u)
    BY <1>1, <1>2, <1>3, QuietTables DEF QuietEvent
  <2>2. \A u \in Targets : Kept(u)'
    BY <1>1, <2>1 DEF Kept, HalfKept, FullyKept, Holds, Known, Watched, NewValue, Now, snapshots,
       event, outside, receiving, watchTables
  <2>3. wants <=> Wanted(t, "write")
    <3>1. Watched(t)
      BY <1>1, <1>2, <2>1 DEF Found, LookedAt
    <3>2. CASE t \in VariableNames
      <4>1. t \in watch_names
        BY <3>1, <3>2 DEF Watched, WatchesInv, WatchesTyped
      <4> QED
        BY <2>1, <3>2, <4>1, NamesStopAsWanted
    <3>3. CASE t \notin VariableNames
      <4>1. t \in watch_expressions
        BY <3>1, <3>3 DEF Watched, WatchesInv, WatchesTyped
      <4> QED
        BY <2>1, <3>3, <4>1, ExpressionsStopAsWanted
    <3> QED
      BY <3>2, <3>3
  <2>4. ASSUME NEW u \in Targets
        PROVE  Found(u)'
    <3>1. /\ Known(u)' <=> Known(u)
          /\ Moved(u)' <=> Moved(u)
          /\ Wanted(u, "write")' <=> Wanted(u, "write")
          /\ LookedAt(u)' <=> LookedAt(u)
      BY <1>1 DEF Known, Moved, Now, LookedAt, Watched, Wanted, outside, receiving, watchTables,
         event
    <3> QED
      BY <1>1, <2>1, <2>3, <3>1 DEF Found
  <2> QED
    BY <1>1, <1>2, <2>1, <2>2, <2>4 DEF QuietEvent, ReadFound, ReadsTell, event, outside, receiving
<1> QED
  BY <1>1, <1>2, <1>3, QuietStep DEF WatchesInv, WatchesTyped, Untouched, event

-----------------------------------------------------------------------------
(* A read.                                                                 *)

\* While it goes on only its own findings matter.
LEMMA ReadStep ==
    ASSUME WatchesInv, UNCHANGED <<outside, snapshots, event, changed, overlapped>>,
           activity \in ReadSteps, activity' \in ReadSteps \union {"told"},
           activity' # "told" => told' = told, told' \subseteq reading,
           QuietEvent /\ Settled(inEffect) => ReadFound'
    PROVE  WatchesInv'
<1>1. EventShape' /\ reading # {}
  BY DEF WatchesInv, EventShape, LineSteps, ReadSteps, event
<1>2. ASSUME ~overlapped
      PROVE  QuietEvent'
  BY <1>1, <1>2, QuietTables DEF QuietEvent, ReadSteps, event, outside, receiving
<1> QED
  BY <1>1, <1>2, QuietStep DEF WatchesInv, WatchesTyped, Untouched, event

LEMMA ReadAccessKeeps ==
    ASSUME WatchesInv, NEW n \in VariableNames, NEW conditions, ReadAccess(n, conditions)
    PROVE  WatchesInv'
<1>1. /\ activity = "running"
      /\ activity' = IF monitored = {} \/ n \in silenced THEN "told" ELSE "instruction"
      /\ reading' = {n} /\ overlapped' = (registering # Registered)
      /\ UNCHANGED <<outside, snapshots, baseline, changed, told>>
  BY DEF ReadAccess
<1>2. EventShape' /\ told = {}
  BY <1>1 DEF WatchesInv, EventShape, LineSteps, ReadSteps
<1>3. ASSUME ~overlapped'
      PROVE  QuietEvent'
  <2>1. /\ registering = Registered /\ Settled(inEffect) /\ registering.at = "idle"
    <3>1. registering = Registered
      BY <1>1, <1>3, Zenon
    <3> QED
      BY <3>1 DEF WatchesInv, TablesFilled, Registered
  <2>2. activity' = "told" => ReadsTell'
    <3> SUFFICES ASSUME activity' = "told", n \notin lost
                 PROVE  ~(monitoring /\ Wanted(n, "read")')
      BY <1>1, <1>2 DEF ReadsTell, outside, deafness, reads
    <3>1. n \notin monitored
      BY <1>1, <2>1 DEF WatchesInv, NotDeaf
    <3>2. monitoring => n \notin NamesOf(inEffect, Reads)
      BY <2>1, <3>1 DEF Settled
    <3> QED
      BY <1>1, <3>2 DEF NamesOf, Of, Wanted, outside, receiving
  <2> QED
    BY <1>1, <2>1, <2>2 DEF QuietEvent, ReadFound, outside, receiving
<1> QED
  BY <1>1, <1>2, <1>3, QuietStep DEF Untouched

LEMMA OnInstructionKeeps ==
    ASSUME WatchesInv, _on_instruction
    PROVE  WatchesInv'
<1>1. /\ activity = "instruction"
      /\ activity' = IF reading \subseteq monitored THEN "read?" ELSE "disable"
      /\ UNCHANGED <<outside, snapshots, event, changed, told, overlapped>>
  BY DEF _on_instruction
<1>2. ReadFound' /\ told = {}
  BY <1>1 DEF WatchesInv, EventShape, ReadSteps, LineSteps, ReadFound, event, outside, receiving
<1> QED
  BY <1>1, <1>2, ReadStep DEF ReadSteps

LEMMA DisableKeeps ==
    ASSUME WatchesInv, DisableRead
    PROVE  WatchesInv'
<1>1. /\ activity = "disable" /\ activity' = "told"
      /\ silenced' = silenced \union reading
      /\ lost' = IF overlapped THEN lost \union reading ELSE lost
      /\ UNCHANGED <<reads, receiving, value, snapshots, event, changed, told, overlapped>>
  BY DEF DisableRead
<1>2. EventShape' /\ reading # {} /\ told = {}
  BY <1>1 DEF WatchesInv, EventShape, LineSteps, ReadSteps, event
<1>3. NotDeaf'
  <2>1. ~overlapped => reading \intersect monitored = {}
    BY <1>1, QuietTables DEF QuietEvent, ReadFound
  <2> QED
    BY <1>1, <2>1 DEF WatchesInv, WatchesTyped, NotDeaf, receiving
<1>4. ASSUME ~overlapped
      PROVE  QuietEvent'
  <2>1. registering = Registered /\ Settled(inEffect) /\ reading \intersect monitored = {}
    BY <1>1, <1>4, QuietTables DEF QuietEvent, ReadFound
  <2>2. \A n \in reading : ~(monitoring /\ Wanted(n, "read"))
    <3> SUFFICES ASSUME NEW n \in reading, monitoring
                 PROVE  ~Wanted(n, "read")
      OBVIOUS
    <3>1. n \in VariableNames
      BY DEF WatchesInv, EventShape
    <3> QED
      BY <2>1, <3>1 DEF Settled, NamesOf, Of, Wanted
  <2> QED
    BY <1>1, <1>2, <2>1, <2>2 DEF QuietEvent, ReadFound, ReadsTell, Wanted, event, reads, receiving
<1>5. \A t \in Targets : Holds(t, baseline[t])'
  BY <1>1, <1>2 DEF WatchesInv, Untouched, Holds, snapshots, event
<1>6. /\ inFrame' \in [Targets -> Given] /\ everywhere' \in [Targets -> Given]
      /\ baseline' \in [Targets -> Given \union {Unknown}] /\ overlapped' \in BOOLEAN
  BY <1>1 DEF WatchesInv, WatchesTyped, snapshots, event
<1> QED
  BY <1>1, <1>2, <1>3, <1>4, <1>5, <1>6, EventStep

LEMMA ReadIsJudged ==
    ASSUME WatchesInv, handle_read_watch_access
    PROVE  WatchesInv'
<1> USE DEF event, outside, receiving, reads
<1>1. \A n \in reading : n \in VariableNames
  BY DEF WatchesInv, EventShape
<1>2. ASSUME QuietEvent, Settled(inEffect), activity \in {"read?", "judging read"}
      PROVE  monitoring /\ reading \subseteq read_watch_names
  BY <1>2 DEF QuietEvent, ReadFound, Settled, WatchesInv, EventShape, ReadSteps
<1>3. CASE is_read_watching
  <2>1. /\ activity = "read?"
        /\ activity' = IF reading \subseteq read_watch_names THEN "judging read" ELSE "told"
        /\ UNCHANGED <<outside, snapshots, event, changed, told, overlapped>>
    BY <1>3 DEF is_read_watching
  <2>2. QuietEvent /\ Settled(inEffect) => ReadFound'
    BY <1>2, <2>1 DEF QuietEvent, ReadFound
  <2>3. told = {}
    BY <2>1 DEF WatchesInv, EventShape
  <2> QED
    BY <2>1, <2>2, <2>3, ReadStep DEF ReadSteps
<1>4. CASE JudgeRead
  <2>1. /\ activity = "judging read" /\ activity' = "told"
        /\ told' = {n \in reading : _should_stop_for_data_breakpoint(n, "read")}
        /\ UNCHANGED <<outside, snapshots, event, changed, overlapped>>
    BY <1>4 DEF JudgeRead
  <2>2. ASSUME QuietEvent, Settled(inEffect)
        PROVE  ReadFound'
    <3>1. monitoring /\ reading \subseteq read_watch_names
      BY <1>2, <2>1, <2>2
    <3>2. \A n \in reading : _should_stop_for_data_breakpoint(n, "read") <=> Wanted(n, "read")
      BY <1>1, <2>2, <3>1, NamesStopAsWanted
    <3> QED
      BY <2>1, <3>1, <3>2 DEF ReadFound, ReadsTell, Wanted
  <2> QED
    BY <2>1, <2>2, ReadStep DEF ReadSteps
<1> QED
  BY <1>3, <1>4 DEF handle_read_watch_access

-----------------------------------------------------------------------------
(* The end of an event, and the whole.                                     *)

LEMMA EndEventKeeps ==
    ASSUME WatchesInv, EndEvent
    PROVE  WatchesInv'
<1>1. /\ activity = "told" /\ activity' = "running"
      /\ baseline' = [t \in Targets |-> NextBaseline(t)]
      /\ reading' = {} /\ told' = {} /\ overlapped' = FALSE
      /\ UNCHANGED <<outside, snapshots, changed>>
  BY DEF EndEvent
<1>2. EventShape' /\ NotDeaf'
  BY <1>1 DEF WatchesInv, EventShape, NotDeaf, LineSteps, ReadSteps, outside, receiving, deafness
<1>3. \A t \in Targets : NextBaseline(t) \in Given \union {Unknown}
  BY ValuesTyped DEF NextBaseline, WatchesInv, WatchesTyped
<1>4. ASSUME NEW t \in Targets
      PROVE  Holds(t, NextBaseline(t))
  <2>1. CASE reading # {}
    BY <2>1 DEF WatchesInv, Untouched, NextBaseline
  <2>2. CASE reading = {} /\ overlapped
    BY <2>2 DEF NextBaseline, Holds
  <2>3. CASE reading = {} /\ ~overlapped
    <3>1. Kept(t)
      BY <1>1, <2>3, QuietTables DEF QuietEvent
    <3>2. NextBaseline(t) = NewValue(t)
      BY <2>3 DEF NextBaseline, NewValue, Watched
    <3> QED
      BY <1>1, <3>1, <3>2 DEF Kept, FullyKept
  <2> QED
    BY <2>1, <2>2, <2>3 DEF WatchesInv, WatchesTyped
<1>5. \A t \in Targets : Holds(t, baseline[t])'
  BY <1>1, <1>4 DEF Holds, snapshots
<1>6. /\ inFrame' \in [Targets -> Given] /\ everywhere' \in [Targets -> Given]
      /\ baseline' \in [Targets -> Given \union {Unknown}]
  BY <1>1, <1>3 DEF WatchesInv, WatchesTyped, snapshots
<1> QED
  BY <1>1, <1>2, <1>5, <1>6, EventStep DEF outside

LEMMA WatchesStep == WatchesInv /\ [WatchesNext]_watchesVars => WatchesInv'
<1> SUFFICES ASSUME WatchesInv, [WatchesNext]_watchesVars
             PROVE  WatchesInv'
  OBVIOUS
<1>1. CASE SetWatches
  BY <1>1, RequestKeepsWatches, RegistrationKeeps DEF SetWatches
<1>2. CASE Look
  BY <1>2, UserLineKeeps, ReadAccessKeeps, ChangesKeep, ExpressionChangesKeep, KeepingKeeps,
     JudgeKeeps, OnInstructionKeeps, DisableKeeps, ReadIsJudged, EndEventKeeps DEF Look
<1>3. CASE \E n \in Assigned, v \in Given : Statement(n, v)
  BY <1>3, StatementKeeps
<1>4. CASE UNCHANGED watchesVars
  BY <1>4, QuietRequest DEF watchesVars, outside, receiving
<1> QED
  BY <1>1, <1>2, <1>3, <1>4 DEF WatchesNext

LEMMA WatchesAreDecided == WatchesInv => WatchesDecide
<1> SUFFICES ASSUME WatchesInv
             PROVE  WatchesDecide
  OBVIOUS
<1>1. ASSUME activity = "told", ~overlapped
      PROVE  LinesTell /\ ReadsTell
  <2>1. QuietEvent /\ Settled(inEffect) /\ inEffect \subseteq DataBreakpoints
    BY <1>1, QuietTables
  <2>2. ASSUME reading = {}, NEW t \in Targets
        PROVE  /\ t \in told => Wanted(t, "write")
               /\ Known(t) => (t \in told <=> Moved(t) /\ Wanted(t, "write"))
    <3>1. Found(t) /\ changed = {}
      BY <1>1, <2>1, <2>2 DEF QuietEvent, WatchesInv, EventShape
    <3>2. Wanted(t, "write") => Watched(t)
      BY <2>1, <2>2 DEF Wanted, Watched, Settled, NamesOf, ExpressionsOf, Of
    <3> QED
      BY <1>1, <3>1, <3>2 DEF Found, LookedAt
  <2> QED
    BY <1>1, <2>1, <2>2 DEF LinesTell, Known, QuietEvent, ReadFound
<1>2. ASSUME registering = Registered
      PROVE  NamesAreMarked
  <2>1. Settled(inEffect) /\ inEffect \subseteq DataBreakpoints
    BY <1>2 DEF WatchesInv, WatchesTyped, TablesFilled, Registered
  <2>2. \A n \in VariableNames : n \in NamesOf(inEffect, Accesses) <=> \E m \in inEffect : m.target = n
    BY <2>1 DEF NamesOf, Of, DataBreakpoints
  <2>3. NamesOf(inEffect, Writes) \subseteq NamesOf(inEffect, Accesses)
    BY DEF NamesOf, Writes, Accesses
  <2> QED
    BY <2>1, <2>2, <2>3 DEF NamesAreMarked, has_data_breakpoint_for_name, Settled, NameMetas
<1> QED
  BY <1>1, <1>2 DEF WatchesDecide

\* Whatever is watched, the program does and the client asks for while it does: a line and a read
\* that no request overlapped announce exactly the changes and the reads that breakpoints want.
THEOREM WatchesDecideAlways == WatchesSpec => []WatchesDecide
<1>1. WatchesInv => WatchesDecide
  BY WatchesAreDecided
<1> QED
  BY <1>1, WatchesInitially, WatchesStep, PTL DEF WatchesSpec

===========================================================================
