------------------------ MODULE AdapterSession_proofs ------------------------
(***************************************************************************)
(* The adapter's session for any number of requests, stops and controller  *)
(* operations: one operation at a time, every pending command with its     *)
(* waiter, every reply with its command, and one report of the end.  Then  *)
(* what is asked of the program, for any number of stops and inquiries:    *)
(* every answer is of the stop its asker saw, or of a later one.           *)
(***************************************************************************)
EXTENDS AdapterSession, Inquiries, FiniteSetTheorems, SequenceTheorems, TLAPS

USE RequestsAssumption, EntryAssumption, BoundsAssumption

-----------------------------------------------------------------------------
(* The inductive invariant.                                                *)

StartRequests == {"launch", "attach"}

\* Nothing has been started yet.
Fresh == exited = 0 /\ terminated = 0 /\ ~programRunning /\ backend = "none"

\* The session is started by its first request and by no later one: a start that
\* waits, or is being served, finds nothing started.
StartsOnce ==
    /\ sent = 0 => inbox = <<>> /\ request = "none" /\ pc = "idle" /\ Fresh
    /\ \A i \in DOMAIN inbox : inbox[i] \in StartRequests =>
          i = 1 /\ request = "none" /\ pc = "idle" /\ Fresh
    /\ request \in StartRequests /\ pc = "start" => Fresh

\* A program that runs has not been reported to have ended.
EndCounted ==
    /\ exited \in {0, 1} /\ terminated \in {0, 1}
    /\ programRunning => exited = 0 /\ terminated = 0

\* One task has an operation in progress at most, the loop's is that of the request
\* being served, and nobody makes the backend ready under it.
OneOperation ==
    /\ ~(Active("loop") /\ Active("controller"))
    /\ Active("loop") <=> pc = "operate"
    /\ pc = "operate" => request \in Operations
    /\ \A t \in Tasks : Active(t) => backend \in {"busy", "error"}
    /\ backend = "busy" => \E t \in Tasks : Active(t)

\* What a waiting command, and a reply that was handed over, are worth.
Commands ==
    /\ pending = {awaited[t] : t \in Waiting}
    /\ \A t \in Tasks : phase[t] = "replied" => result[t] = awaited[t]

IInv == TypeOK /\ StartsOnce /\ EndCounted /\ OneOperation /\ Commands

-----------------------------------------------------------------------------
(* What travels on the wire.                                               *)

LEMMA WireTypes ==
    /\ \A id \in Ids : [kind |-> "reply", id |-> id] \in Message
    /\ [kind |-> "stopped"] \in Message /\ [kind |-> "exited"] \in Message
    /\ Message \subseteq Callback /\ [kind |-> "programExit"] \in Callback
    /\ \A c \in Sent : c.id \in Ids \cup {NoId}
BY DEF Message, Callback, Sent

-----------------------------------------------------------------------------
(* Steps that do not touch what the invariant relates.                     *)

relatedVars == <<sent, inbox, exited, terminated, request, pc, opVars, programRunning,
                 backend, pending>>

\* Whatever a step does to the wire, the process or the views, it keeps the invariant.
LEMMA Quiet ==
    ASSUME IInv, UNCHANGED relatedVars, TypeOK'
    PROVE  IInv'
<1>1. StartsOnce'
  BY DEF IInv, StartsOnce, StartRequests, Fresh, relatedVars
<1>2. EndCounted'
  BY DEF IInv, EndCounted, relatedVars
<1>3. OneOperation'
  BY DEF IInv, OneOperation, Active, relatedVars, opVars
<1>4. Commands'
  BY DEF IInv, Commands, Waiting, relatedVars, opVars
<1> QED BY <1>1, <1>2, <1>3, <1>4 DEF IInv

\* The debuggee takes a command.
LEMMA CommandStep ==
    ASSUME IInv, HandleCommand
    PROVE  IInv'
<1> USE DEF HandleCommand, Connected, UnchangedByDebuggee, NoId,
          clientVars, loopVars, opVars, sessionVars, backendVars,
          debuggeeVars
<1>1. ClientTypeOK'
  BY DEF IInv, TypeOK, ClientTypeOK
<1>2. LoopTypeOK'
  BY DEF IInv, TypeOK, LoopTypeOK, ProgramTypeOK
<1>3. OperationTypeOK'
  BY DEF IInv, TypeOK, OperationTypeOK
<1>4. ProgramTypeOK'
  <2>1. toDebuggee \in Seq(Sent) /\ toAdapter \in Seq(Message)
    BY DEF IInv, TypeOK, ProgramTypeOK
  <2>2. Head(toDebuggee) \in Sent /\ Tail(toDebuggee) \in Seq(Sent)
    BY <2>1
  <2>3. \A m \in Message : Append(toAdapter, m) \in Seq(Message)
    BY <2>1
  <2>4. Head(toDebuggee).id # NoId => Head(toDebuggee).id \in Ids
    BY <2>2, WireTypes
  <2>5. toAdapter' \in Seq(Message)
    BY <2>1, <2>3, <2>4, WireTypes
  <2>6. debuggee' \in {"none", "starting", "configuring", "running", "stopped",
                      "killed", "dead"}
    BY DEF IInv, TypeOK, ProgramTypeOK
  <2> QED BY <2>2, <2>5, <2>6 DEF IInv, TypeOK, ProgramTypeOK
<1>5. UNCHANGED relatedVars
  BY DEF relatedVars
<1> QED BY <1>1, <1>2, <1>3, <1>4, <1>5, Quiet DEF TypeOK

\* The program runs, stops and ends.
LEMMA DebuggeeStep ==
    ASSUME IInv, StartAnyway \/ Stop \/ EndProgram \/ LoseAdapter
    PROVE  IInv'
<1> USE DEF StartAnyway, Stop, EndProgram, LoseAdapter, UnchangedByDebuggee,
          clientVars, loopVars, opVars, sessionVars, backendVars,
          debuggeeVars
<1>1. ClientTypeOK'
  BY DEF IInv, TypeOK, ClientTypeOK
<1>2. LoopTypeOK'
  BY DEF IInv, TypeOK, LoopTypeOK, ProgramTypeOK
<1>3. OperationTypeOK'
  BY DEF IInv, TypeOK, OperationTypeOK
<1>4. ProgramTypeOK'
  <2>1. \A m \in Message : Append(toAdapter, m) \in Seq(Message)
    BY DEF IInv, TypeOK, ProgramTypeOK
  <2>2. toAdapter' \in Seq(Message)
    BY <2>1, WireTypes DEF IInv, TypeOK, ProgramTypeOK
  <2>3. debuggee' \in {"running", "stopped", "dead"} /\ stops' \in Nat
    BY DEF IInv, TypeOK, ProgramTypeOK
  <2> QED BY <2>2, <2>3 DEF IInv, TypeOK, ProgramTypeOK
<1>5. UNCHANGED relatedVars
  BY DEF relatedVars
<1> QED BY <1>1, <1>2, <1>3, <1>4, <1>5, Quiet DEF TypeOK

\* The other threads tell the loop by callbacks only.
LEMMA ThreadStep ==
    ASSUME IInv, ProcessThread \/ IPCReader
    PROVE  IInv'
<1> USE DEF ProcessThread, StartProcess, ProcessEnded, IPCReader, AcceptConnection,
          ReadMessage,
          clientVars, loopVars, opVars, sessionVars, backendVars,
          debuggeeVars
<1>1. ClientTypeOK'
  BY DEF IInv, TypeOK, ClientTypeOK
<1>2. LoopTypeOK'
  <2>1. \A c \in Callback : Append(callbacks, c) \in Seq(Callback)
    BY DEF IInv, TypeOK, LoopTypeOK
  <2>2. toAdapter # <<>> => Head(toAdapter) \in Message
    BY DEF IInv, TypeOK, ProgramTypeOK
  <2> QED BY <2>1, <2>2, WireTypes DEF IInv, TypeOK, LoopTypeOK
<1>3. OperationTypeOK'
  BY DEF IInv, TypeOK, OperationTypeOK
<1>4. ProgramTypeOK'
  <2>1. toAdapter # <<>> => Tail(toAdapter) \in Seq(Message)
    BY DEF IInv, TypeOK, ProgramTypeOK
  <2> QED BY ZenonT(40), <2>1 DEF IInv, TypeOK, ProgramTypeOK
<1>5. UNCHANGED relatedVars
  BY DEF relatedVars
<1> QED BY <1>1, <1>2, <1>3, <1>4, <1>5, Quiet DEF TypeOK

\* A stop is passed on.
LEMMA StoppedStep ==
    ASSUME IInv, HandleStopped
    PROVE  IInv'
<1> USE DEF HandleStopped, IsCallback,
          clientVars, loopVars, opVars, sessionVars, backendVars,
          debuggeeVars
<1>1. ClientTypeOK'
  BY DEF IInv, TypeOK, ClientTypeOK
<1>2. LoopTypeOK'
  BY DEF IInv, TypeOK, LoopTypeOK, ProgramTypeOK
<1>3. OperationTypeOK'
  BY DEF IInv, TypeOK, OperationTypeOK
<1>4. ProgramTypeOK'
  BY DEF IInv, TypeOK, ProgramTypeOK
<1>5. UNCHANGED relatedVars
  BY DEF relatedVars
<1> QED BY <1>1, <1>2, <1>3, <1>4, <1>5, Quiet DEF TypeOK

-----------------------------------------------------------------------------
(* The client and the message loop.                                        *)

\* The client's first request is the only one that starts a session.
LEMMA SendStep ==
    ASSUME IInv, NEW c \in Requests, SendRequest(c)
    PROVE  IInv'
<1> USE DEF SendRequest,
          clientVars, loopVars, opVars, sessionVars, backendVars,
          debuggeeVars
<1>1. ClientTypeOK'
  BY DEF IInv, TypeOK, ClientTypeOK, LoopTypeOK
<1>2. LoopTypeOK'
  BY DEF IInv, TypeOK, LoopTypeOK, ClientTypeOK
<1>3. OperationTypeOK'
  BY DEF IInv, TypeOK, OperationTypeOK, LoopTypeOK, States, Ids, NoId, Tasks
<1>4. ProgramTypeOK'
  BY DEF IInv, TypeOK, ProgramTypeOK
<1>5. StartsOnce'
  <2>1. inbox \in Seq(Requests) /\ inbox' = Append(inbox, c) /\ inbox' \in Seq(Requests)
    BY DEF IInv, TypeOK, ClientTypeOK
  <2>2. /\ Len(inbox') = Len(inbox) + 1 /\ Len(inbox) \in Nat
        /\ DOMAIN inbox = 1..Len(inbox) /\ DOMAIN inbox' = 1..Len(inbox')
        /\ \A i \in 1..Len(inbox) : inbox'[i] = inbox[i]
        /\ inbox'[Len(inbox) + 1] = c
    BY <2>1
  <2>3. \A i \in DOMAIN inbox' :
           \/ i \in DOMAIN inbox /\ inbox'[i] = inbox[i]
           \/ i = Len(inbox) + 1 /\ inbox'[i] = c
    BY <2>2
  <2>4. c \in StartRequests => sent = 0
    BY DEF Allowed, StartRequests, EndRequests, ReplyRequests
  <2>5. sent' # 0
    BY DEF IInv, TypeOK, ClientTypeOK
  <2>6. sent = 0 => Len(inbox) + 1 = 1
    BY DEF IInv, StartsOnce
  <2> QED BY <2>3, <2>4, <2>5, <2>6 DEF IInv, StartsOnce, Fresh
<1>6. EndCounted'
  BY DEF IInv, EndCounted
<1>7. OneOperation'
  BY DEF IInv, OneOperation, Active, TypeOK, OperationTypeOK, Tasks
<1>8. Commands'
  BY DEF IInv, Commands, Waiting, TypeOK, OperationTypeOK, Tasks
<1> QED BY <1>1, <1>2, <1>3, <1>4, <1>5, <1>6, <1>7, <1>8 DEF IInv, TypeOK

\* A start is taken from an idle loop.
LEMMA TakeStep ==
    ASSUME IInv, TakeRequest
    PROVE  IInv'
<1> USE DEF TakeRequest,
          clientVars, loopVars, opVars, sessionVars, backendVars,
          debuggeeVars
<1>1. ClientTypeOK'
  BY DEF IInv, TypeOK, ClientTypeOK, LoopTypeOK
<1>2. LoopTypeOK'
  BY DEF IInv, TypeOK, LoopTypeOK, ClientTypeOK
<1>3. OperationTypeOK'
  BY DEF IInv, TypeOK, OperationTypeOK, LoopTypeOK, States, Ids, NoId, Tasks
<1>4. ProgramTypeOK'
  BY DEF IInv, TypeOK, ProgramTypeOK
<1>5. StartsOnce'
  BY DEF IInv, StartsOnce, StartRequests, Fresh, TypeOK, ClientTypeOK
<1>6. EndCounted'
  BY DEF IInv, EndCounted
<1>7. OneOperation'
  BY DEF IInv, OneOperation, Active, TypeOK, OperationTypeOK, Tasks
<1>8. Commands'
  BY DEF IInv, Commands, Waiting, TypeOK, OperationTypeOK, Tasks
<1> QED BY <1>1, <1>2, <1>3, <1>4, <1>5, <1>6, <1>7, <1>8 DEF IInv, TypeOK

\* A launch finds no backend, so no operation.
LEMMA LaunchStep ==
    ASSUME IInv, Launch
    PROVE  IInv'
<1> USE DEF Launch, Serving, Answer,
          clientVars, loopVars, opVars, sessionVars, backendVars,
          debuggeeVars
<1>1. ClientTypeOK'
  <2>1. \A b \in BOOLEAN : [cmd |-> request, ok |-> b]
                            \in [cmd : AllRequests \cup {"none"}, ok : BOOLEAN]
    BY DEF IInv, TypeOK, LoopTypeOK
  <2>2. [cmd |-> request, ok |-> TRUE] \in [cmd : AllRequests \cup {"none"}, ok : BOOLEAN]
        /\ [cmd |-> request, ok |-> FALSE] \in [cmd : AllRequests \cup {"none"}, ok : BOOLEAN]
    BY <2>1, Zenon
  <2>3. answer' \in [cmd : AllRequests \cup {"none"}, ok : BOOLEAN]
    BY <2>2 DEF IInv, TypeOK, ClientTypeOK
  <2> QED BY <2>3 DEF IInv, TypeOK, ClientTypeOK
<1>2. LoopTypeOK'
  BY DEF IInv, TypeOK, LoopTypeOK, ClientTypeOK
<1>3. OperationTypeOK'
  BY DEF IInv, TypeOK, OperationTypeOK, LoopTypeOK, States, Ids, NoId, Tasks
<1>4. ProgramTypeOK'
  BY DEF IInv, TypeOK, ProgramTypeOK
<1>5. StartsOnce'
  BY DEF IInv, StartsOnce, StartRequests, Fresh, TypeOK, ClientTypeOK
<1>6. EndCounted'
  BY DEF IInv, EndCounted, StartsOnce, StartRequests, Fresh
<1>7. OneOperation'
  BY DEF IInv, OneOperation, Active, StartsOnce, StartRequests, Fresh, Operations,
            NoReplyRequests, ReplyRequests
<1>8. Commands'
  BY DEF IInv, Commands, Waiting, TypeOK, OperationTypeOK, Tasks
<1> QED BY <1>1, <1>2, <1>3, <1>4, <1>5, <1>6, <1>7, <1>8 DEF IInv, TypeOK

\* And so does an attach.
LEMMA AttachStep ==
    ASSUME IInv, Attach
    PROVE  IInv'
<1> USE DEF Attach, Serving, Answer,
          clientVars, loopVars, opVars, sessionVars, backendVars,
          debuggeeVars
<1>1. ClientTypeOK'
  <2>1. \A b \in BOOLEAN : [cmd |-> request, ok |-> b]
                            \in [cmd : AllRequests \cup {"none"}, ok : BOOLEAN]
    BY DEF IInv, TypeOK, LoopTypeOK
  <2>2. [cmd |-> request, ok |-> TRUE] \in [cmd : AllRequests \cup {"none"}, ok : BOOLEAN]
        /\ [cmd |-> request, ok |-> FALSE] \in [cmd : AllRequests \cup {"none"}, ok : BOOLEAN]
    BY <2>1, Zenon
  <2>3. answer' \in [cmd : AllRequests \cup {"none"}, ok : BOOLEAN]
    BY <2>2 DEF IInv, TypeOK, ClientTypeOK
  <2> QED BY <2>3 DEF IInv, TypeOK, ClientTypeOK
<1>2. LoopTypeOK'
  BY DEF IInv, TypeOK, LoopTypeOK, ClientTypeOK
<1>3. OperationTypeOK'
  BY DEF IInv, TypeOK, OperationTypeOK, LoopTypeOK, States, Ids, NoId, Tasks
<1>4. ProgramTypeOK'
  BY DEF IInv, TypeOK, ProgramTypeOK
<1>5. StartsOnce'
  BY DEF IInv, StartsOnce, StartRequests, Fresh, TypeOK, ClientTypeOK
<1>6. EndCounted'
  BY DEF IInv, EndCounted, StartsOnce, StartRequests, Fresh
<1>7. OneOperation'
  BY DEF IInv, OneOperation, Active, StartsOnce, StartRequests, Fresh, Operations,
            NoReplyRequests, ReplyRequests
<1>8. Commands'
  BY DEF IInv, Commands, Waiting, TypeOK, OperationTypeOK, Tasks
<1> QED BY <1>1, <1>2, <1>3, <1>4, <1>5, <1>6, <1>7, <1>8 DEF IInv, TypeOK

\* An answer without an operation.
LEMMA AnswerStep ==
    ASSUME IInv, LaunchStopped \/ ControlWithoutProgram
    PROVE  IInv'
<1> USE DEF LaunchStopped, ControlWithoutProgram, Answer,
          clientVars, loopVars, opVars, sessionVars, backendVars,
          debuggeeVars
<1>1. ClientTypeOK'
  <2>1. \A b \in BOOLEAN : [cmd |-> request, ok |-> b]
                            \in [cmd : AllRequests \cup {"none"}, ok : BOOLEAN]
    BY DEF IInv, TypeOK, LoopTypeOK
  <2>2. answer' = [cmd |-> request, ok |-> TRUE]
        \/ answer' = [cmd |-> request, ok |-> request # "pause"]
    OBVIOUS
  <2>3. (request # "pause") \in BOOLEAN
    BY Zenon
  <2>4. answer' \in [cmd : AllRequests \cup {"none"}, ok : BOOLEAN]
    BY <2>1, <2>2, <2>3, Zenon
  <2> QED BY <2>4 DEF IInv, TypeOK, ClientTypeOK
<1>2. LoopTypeOK'
  BY DEF IInv, TypeOK, LoopTypeOK, ClientTypeOK
<1>3. OperationTypeOK'
  BY DEF IInv, TypeOK, OperationTypeOK, LoopTypeOK, States, Ids, NoId, Tasks
<1>4. ProgramTypeOK'
  BY DEF IInv, TypeOK, ProgramTypeOK
<1>5. StartsOnce'
  BY DEF IInv, StartsOnce, StartRequests, Fresh, TypeOK, ClientTypeOK
<1>6. EndCounted'
  BY DEF IInv, EndCounted
<1>7. OneOperation'
  BY DEF IInv, OneOperation, Active, TypeOK, OperationTypeOK, Tasks
<1>8. Commands'
  BY DEF IInv, Commands, Waiting, TypeOK, OperationTypeOK, Tasks
<1> QED BY <1>1, <1>2, <1>3, <1>4, <1>5, <1>6, <1>7, <1>8 DEF IInv, TypeOK

\* The loop enters a backend that is ready, so in nobody's use.
LEMMA BeginStep ==
    ASSUME IInv, BeginOperation
    PROVE  IInv'
<1> USE DEF BeginOperation, Enter, Refuse, Ready, Answer,
          clientVars, loopVars, opVars, sessionVars, backendVars,
          debuggeeVars
<1>1. ClientTypeOK'
  <2>1. \A b \in BOOLEAN : [cmd |-> request, ok |-> b]
                            \in [cmd : AllRequests \cup {"none"}, ok : BOOLEAN]
    BY DEF IInv, TypeOK, LoopTypeOK
  <2>2. [cmd |-> request, ok |-> TRUE] \in [cmd : AllRequests \cup {"none"}, ok : BOOLEAN]
        /\ [cmd |-> request, ok |-> FALSE] \in [cmd : AllRequests \cup {"none"}, ok : BOOLEAN]
    BY <2>1, Zenon
  <2>3. answer' \in [cmd : AllRequests \cup {"none"}, ok : BOOLEAN]
    BY <2>2 DEF IInv, TypeOK, ClientTypeOK
  <2> QED BY <2>3 DEF IInv, TypeOK, ClientTypeOK
<1>2. LoopTypeOK'
  BY DEF IInv, TypeOK, LoopTypeOK, ClientTypeOK
<1>3. OperationTypeOK'
  BY DEF IInv, TypeOK, OperationTypeOK, LoopTypeOK, States, Ids, NoId, Tasks
<1>4. ProgramTypeOK'
  BY DEF IInv, TypeOK, ProgramTypeOK
<1>5. StartsOnce'
  BY DEF IInv, StartsOnce, StartRequests, Fresh, TypeOK, ClientTypeOK
<1>6. EndCounted'
  BY DEF IInv, EndCounted
<1>7. OneOperation'
  BY DEF IInv, OneOperation, Active, TypeOK, OperationTypeOK, Tasks
<1>8. Commands'
  <2>1. Waiting' = Waiting /\ awaited' = awaited
    BY DEF IInv, TypeOK, OperationTypeOK, OneOperation, Active, Waiting, Tasks
  <2>2. \A t \in Tasks : phase'[t] = "replied" => phase[t] = "replied"
    BY DEF IInv, TypeOK, OperationTypeOK, Tasks
  <2> QED BY <2>1, <2>2 DEF IInv, Commands, Waiting
<1> QED BY <1>1, <1>2, <1>3, <1>4, <1>5, <1>6, <1>7, <1>8 DEF IInv, TypeOK

\* What leaves was the only operation.
LEMMA FinishStep ==
    ASSUME IInv, FinishOperation
    PROVE  IInv'
<1> USE DEF FinishOperation, Leave, Answer, Transitions,
          clientVars, loopVars, opVars, sessionVars, backendVars,
          debuggeeVars
<1>1. ClientTypeOK'
  BY DEF IInv, TypeOK, ClientTypeOK, LoopTypeOK
<1>2. LoopTypeOK'
  BY DEF IInv, TypeOK, LoopTypeOK, ClientTypeOK
<1>3. OperationTypeOK'
  BY DEF IInv, TypeOK, OperationTypeOK, LoopTypeOK, States, Ids, NoId, Tasks
<1>4. ProgramTypeOK'
  BY DEF IInv, TypeOK, ProgramTypeOK
<1>5. StartsOnce'
  BY DEF IInv, StartsOnce, StartRequests, Fresh, TypeOK, ClientTypeOK
<1>6. EndCounted'
  BY DEF IInv, EndCounted
<1>7. OneOperation'
  BY DEF IInv, OneOperation, Active, TypeOK, OperationTypeOK, Tasks
<1>8. Commands'
  BY DEF IInv, Commands, Waiting, TypeOK, OperationTypeOK, Tasks
<1> QED BY <1>1, <1>2, <1>3, <1>4, <1>5, <1>6, <1>7, <1>8 DEF IInv, TypeOK

\* A terminate leaves the backend in error, whoever is using it.
LEMMA TerminateStep ==
    ASSUME IInv, TerminateRequest
    PROVE  IInv'
<1> USE DEF TerminateRequest, Serving, Answer, WakeAll,
          clientVars, loopVars, opVars, sessionVars, backendVars,
          debuggeeVars
<1>1. ClientTypeOK'
  BY DEF IInv, TypeOK, ClientTypeOK, LoopTypeOK
<1>2. LoopTypeOK'
  BY DEF IInv, TypeOK, LoopTypeOK, ClientTypeOK
<1>3. OperationTypeOK'
  <2>1. phase' \in [Tasks -> {"idle", "entered", "waiting", "replied", "timedOut",
                               "done", "failed"}]
    BY DEF IInv, TypeOK, OperationTypeOK
  <2>2. awaited' \in [Tasks -> 0..nextId' - 1]
    BY DEF IInv, TypeOK, OperationTypeOK, NoId, Ids
  <2>3. pending' \subseteq 1..nextId' - 1
    BY DEF IInv, TypeOK, OperationTypeOK
  <2>4. backend' \in States \cup {"none"} /\ cleanedUp' \in BOOLEAN
    BY DEF IInv, TypeOK, OperationTypeOK, States
  <2> QED BY <2>1, <2>2, <2>3, <2>4 DEF IInv, TypeOK, OperationTypeOK
<1>4. ProgramTypeOK'
  BY DEF IInv, TypeOK, ProgramTypeOK
<1>5. StartsOnce'
  BY DEF IInv, StartsOnce, StartRequests, Fresh, TypeOK, ClientTypeOK
<1>6. EndCounted'
  BY DEF IInv, EndCounted
<1>7. OneOperation'
  <2>1. \A t \in Tasks : Active(t)' <=> Active(t)
    BY DEF IInv, TypeOK, OperationTypeOK, Active, Waiting
  <2>2. backend' = backend \/ backend' = "error"
    OBVIOUS
  <2>3. pc = "start" /\ pc' = "idle"
    OBVIOUS
  <2> QED BY <2>1, <2>2, <2>3 DEF IInv, OneOperation, Tasks
<1>8. Commands'
  BY DEF IInv, Commands, Waiting, TypeOK, OperationTypeOK, Tasks
<1> QED BY <1>1, <1>2, <1>3, <1>4, <1>5, <1>6, <1>7, <1>8 DEF IInv, TypeOK

\* A restart that announces itself has started nothing.
LEMMA AnnounceStep ==
    ASSUME IInv, AnnounceRestart
    PROVE  IInv'
<1> USE DEF AnnounceRestart, Serving,
          clientVars, loopVars, opVars, sessionVars, backendVars,
          debuggeeVars
<1>1. ClientTypeOK'
  BY DEF IInv, TypeOK, ClientTypeOK, LoopTypeOK
<1>2. LoopTypeOK'
  BY DEF IInv, TypeOK, LoopTypeOK, ClientTypeOK
<1>3. OperationTypeOK'
  BY DEF IInv, TypeOK, OperationTypeOK, LoopTypeOK, States, Ids, NoId, Tasks
<1>4. ProgramTypeOK'
  BY DEF IInv, TypeOK, ProgramTypeOK
<1>5. StartsOnce'
  BY DEF IInv, StartsOnce, StartRequests, Fresh, TypeOK, ClientTypeOK
<1>6. EndCounted'
  BY DEF IInv, EndCounted
<1>7. OneOperation'
  BY DEF IInv, OneOperation, Active, TypeOK, OperationTypeOK, Tasks
<1>8. Commands'
  BY DEF IInv, Commands, Waiting, TypeOK, OperationTypeOK, Tasks
<1> QED BY <1>1, <1>2, <1>3, <1>4, <1>5, <1>6, <1>7, <1>8 DEF IInv, TypeOK

\* A shutdown wakes every waiter as it empties the table.
LEMMA BeginShutdownStep ==
    ASSUME IInv, BeginShutdown
    PROVE  IInv'
<1> USE DEF BeginShutdown, Serving, KillForRestart, WakeAll,
          clientVars, loopVars, opVars, sessionVars, backendVars,
          debuggeeVars
<1>1. ClientTypeOK'
  BY DEF IInv, TypeOK, ClientTypeOK, LoopTypeOK
<1>2. LoopTypeOK'
  BY DEF IInv, TypeOK, LoopTypeOK, ClientTypeOK
<1>3. OperationTypeOK'
  BY DEF IInv, TypeOK, OperationTypeOK, LoopTypeOK, States, Ids, NoId, Tasks
<1>4. ProgramTypeOK'
  BY DEF IInv, TypeOK, ProgramTypeOK
<1>5. StartsOnce'
  BY DEF IInv, StartsOnce, StartRequests, Fresh, TypeOK, ClientTypeOK
<1>6. EndCounted'
  BY DEF IInv, EndCounted
<1>7. OneOperation'
  <2>1. \A t \in Tasks : Active(t)' <=> Active(t)
    BY DEF IInv, TypeOK, OperationTypeOK, Active, Waiting
  <2> QED BY <2>1 DEF IInv, OneOperation, Tasks
<1>8. Commands'
  BY DEF IInv, Commands, Waiting, TypeOK, OperationTypeOK, Tasks
<1> QED BY <1>1, <1>2, <1>3, <1>4, <1>5, <1>6, <1>7, <1>8 DEF IInv, TypeOK

\* The end of a shutdown.
LEMMA FinishShutdownStep ==
    ASSUME IInv, FinishShutdown
    PROVE  IInv'
<1> USE DEF FinishShutdown, Answer,
          clientVars, loopVars, opVars, sessionVars, backendVars,
          debuggeeVars
<1>1. ClientTypeOK'
  <2>1. \A b \in BOOLEAN : [cmd |-> request, ok |-> b]
                            \in [cmd : AllRequests \cup {"none"}, ok : BOOLEAN]
    BY DEF IInv, TypeOK, LoopTypeOK
  <2>2. [cmd |-> request, ok |-> TRUE] \in [cmd : AllRequests \cup {"none"}, ok : BOOLEAN]
        /\ [cmd |-> request, ok |-> FALSE] \in [cmd : AllRequests \cup {"none"}, ok : BOOLEAN]
    BY <2>1, Zenon
  <2>3. answer' \in [cmd : AllRequests \cup {"none"}, ok : BOOLEAN]
    BY <2>2 DEF IInv, TypeOK, ClientTypeOK
  <2> QED BY <2>3 DEF IInv, TypeOK, ClientTypeOK
<1>2. LoopTypeOK'
  BY DEF IInv, TypeOK, LoopTypeOK, ClientTypeOK
<1>3. OperationTypeOK'
  BY DEF IInv, TypeOK, OperationTypeOK, LoopTypeOK, States, Ids, NoId, Tasks
<1>4. ProgramTypeOK'
  BY DEF IInv, TypeOK, ProgramTypeOK
<1>5. StartsOnce'
  BY DEF IInv, StartsOnce, StartRequests, Fresh, TypeOK, ClientTypeOK
<1>6. EndCounted'
  BY DEF IInv, EndCounted
<1>7. OneOperation'
  BY DEF IInv, OneOperation, Active, TypeOK, OperationTypeOK, Tasks
<1>8. Commands'
  BY DEF IInv, Commands, Waiting, TypeOK, OperationTypeOK, Tasks
<1> QED BY <1>1, <1>2, <1>3, <1>4, <1>5, <1>6, <1>7, <1>8 DEF IInv, TypeOK

-----------------------------------------------------------------------------
(* Operations and callbacks.                                               *)

\* The controller enters a backend that is ready, so in nobody's use.
LEMMA ControllerStep ==
    ASSUME IInv, ControllerBegin
    PROVE  IInv'
<1> USE DEF ControllerBegin, Enter, Refuse, Ready,
          clientVars, loopVars, opVars, sessionVars, backendVars,
          debuggeeVars
<1>1. ClientTypeOK'
  BY DEF IInv, TypeOK, ClientTypeOK, LoopTypeOK
<1>2. LoopTypeOK'
  BY DEF IInv, TypeOK, LoopTypeOK, ClientTypeOK
<1>3. OperationTypeOK'
  BY DEF IInv, TypeOK, OperationTypeOK, LoopTypeOK, States, Ids, NoId, Tasks
<1>4. ProgramTypeOK'
  BY DEF IInv, TypeOK, ProgramTypeOK
<1>5. StartsOnce'
  BY DEF IInv, StartsOnce, StartRequests, Fresh, TypeOK, ClientTypeOK
<1>6. EndCounted'
  BY DEF IInv, EndCounted
<1>7. OneOperation'
  BY DEF IInv, OneOperation, Active, TypeOK, OperationTypeOK, Tasks
<1>8. Commands'
  <2>1. Waiting' = Waiting /\ awaited' = awaited
    BY DEF IInv, TypeOK, OperationTypeOK, OneOperation, Active, Waiting, Tasks
  <2>2. \A t \in Tasks : phase'[t] = "replied" => phase[t] = "replied"
    BY DEF IInv, TypeOK, OperationTypeOK, Tasks
  <2> QED BY <2>1, <2>2 DEF IInv, Commands, Waiting
<1> QED BY <1>1, <1>2, <1>3, <1>4, <1>5, <1>6, <1>7, <1>8 DEF IInv, TypeOK

\* What leaves was the only operation.
LEMMA FinishControllerStep ==
    ASSUME IInv, FinishController
    PROVE  IInv'
<1> USE DEF FinishController, Leave, Transitions,
          clientVars, loopVars, opVars, sessionVars, backendVars,
          debuggeeVars
<1>1. ClientTypeOK'
  BY DEF IInv, TypeOK, ClientTypeOK, LoopTypeOK
<1>2. LoopTypeOK'
  BY DEF IInv, TypeOK, LoopTypeOK, ClientTypeOK
<1>3. OperationTypeOK'
  BY DEF IInv, TypeOK, OperationTypeOK, LoopTypeOK, States, Ids, NoId, Tasks
<1>4. ProgramTypeOK'
  BY DEF IInv, TypeOK, ProgramTypeOK
<1>5. StartsOnce'
  BY DEF IInv, StartsOnce, StartRequests, Fresh, OneOperation, Active, Tasks
<1>6. EndCounted'
  BY DEF IInv, EndCounted
<1>7. OneOperation'
  BY DEF IInv, OneOperation, Active, TypeOK, OperationTypeOK, Tasks
<1>8. Commands'
  BY DEF IInv, Commands, Waiting, TypeOK, OperationTypeOK, Tasks
<1> QED BY <1>1, <1>2, <1>3, <1>4, <1>5, <1>6, <1>7, <1>8 DEF IInv, TypeOK

\* A command that waits enters the table with an id nobody waits for.
LEMMA ExecuteStep ==
    ASSUME IInv, NEW t \in Tasks, Execute(t)
    PROVE  IInv'
<1> USE DEF Execute,
          clientVars, loopVars, opVars, sessionVars, backendVars,
          debuggeeVars
<1>1. ClientTypeOK'
  BY DEF IInv, TypeOK, ClientTypeOK, LoopTypeOK
<1>2. LoopTypeOK'
  BY DEF IInv, TypeOK, LoopTypeOK, ClientTypeOK
<1>3. OperationTypeOK'
  <2>1. nextId' = nextId \/ nextId' = nextId + 1
    BY DEF Allocated
  <2>2. nextId \in Ids /\ nextId' \in Ids
    BY <2>1 DEF IInv, TypeOK, OperationTypeOK, Ids
  <2>3. \/ pending' = pending
        \/ pending' = pending \cup {nextId} /\ nextId' = nextId + 1
    BY Zenon DEF Allocated
  <2>4. pending \subseteq 1..nextId - 1 /\ nextId \in Nat /\ nextId > 0
    BY <2>2 DEF IInv, TypeOK, OperationTypeOK, Ids
  <2>5. \A i \in 1..nextId - 1 : i \in 1..nextId' - 1
    BY <2>1, <2>4
  <2>6. pending' \subseteq 1..nextId' - 1
    <3>1. nextId' = nextId + 1 => nextId \in 1..nextId' - 1
      BY <2>4
    <3> QED BY <3>1, <2>3, <2>4, <2>5
  <2>7. \/ awaited' = awaited
        \/ awaited' = [awaited EXCEPT ![t] = nextId] /\ nextId' = nextId + 1
    BY DEF Allocated
  <2>8. awaited' \in [Tasks -> 0..nextId' - 1]
    BY <2>1, <2>2, <2>7 DEF IInv, TypeOK, OperationTypeOK, Ids
  <2>9. phase' \in [Tasks -> {"idle", "entered", "waiting", "replied", "timedOut",
                               "done", "failed"}]
    BY DEF IInv, TypeOK, OperationTypeOK
  <2> QED BY <2>2, <2>6, <2>8, <2>9 DEF IInv, TypeOK, OperationTypeOK
<1>4. ProgramTypeOK'
  <2>1. Command(t) \in Operations
    BY DEF IInv, OneOperation, Active, Command, Operations, NoReplyRequests, Tasks
  <2>2. nextId \in Ids \cup {NoId} /\ NoId \in Ids \cup {NoId}
    BY DEF IInv, TypeOK, OperationTypeOK
  <2>3. [cmd |-> Command(t), id |-> nextId] \in Sent
        /\ [cmd |-> Command(t), id |-> NoId] \in Sent
    BY <2>1, <2>2 DEF Sent
  <2>4. \A c \in Sent : Append(toDebuggee, c) \in Seq(Sent)
    BY DEF IInv, TypeOK, ProgramTypeOK
  <2>5. toDebuggee' \in Seq(Sent)
    BY <2>3, <2>4 DEF IInv, TypeOK, ProgramTypeOK
  <2> QED BY <2>5 DEF IInv, TypeOK, ProgramTypeOK
<1>5. StartsOnce'
  BY DEF IInv, StartsOnce, StartRequests, Fresh, TypeOK, ClientTypeOK
<1>6. EndCounted'
  BY DEF IInv, EndCounted
<1>7. OneOperation'
  BY DEF IInv, OneOperation, Active, TypeOK, OperationTypeOK, Tasks
<1>8. Commands'
  BY DEF IInv, Commands, Waiting, TypeOK, OperationTypeOK, Tasks
<1> QED BY <1>1, <1>2, <1>3, <1>4, <1>5, <1>6, <1>7, <1>8 DEF IInv, TypeOK

\* A command that takes too long leaves the table with its waiter.
LEMMA TimeoutStep ==
    ASSUME IInv, NEW t \in Tasks, Timeout(t)
    PROVE  IInv'
<1> USE DEF Timeout,
          clientVars, loopVars, opVars, sessionVars, backendVars,
          debuggeeVars
<1>1. ClientTypeOK'
  BY DEF IInv, TypeOK, ClientTypeOK, LoopTypeOK
<1>2. LoopTypeOK'
  BY DEF IInv, TypeOK, LoopTypeOK, ClientTypeOK
<1>3. OperationTypeOK'
  <2>1. phase' \in [Tasks -> {"idle", "entered", "waiting", "replied", "timedOut",
                               "done", "failed"}]
    BY DEF IInv, TypeOK, OperationTypeOK
  <2>2. awaited' \in [Tasks -> 0..nextId' - 1]
    BY DEF IInv, TypeOK, OperationTypeOK, NoId, Ids
  <2>3. pending' \subseteq 1..nextId' - 1
    BY DEF IInv, TypeOK, OperationTypeOK
  <2> QED BY <2>1, <2>2, <2>3 DEF IInv, TypeOK, OperationTypeOK
<1>4. ProgramTypeOK'
  BY DEF IInv, TypeOK, ProgramTypeOK
<1>5. StartsOnce'
  BY DEF IInv, StartsOnce, StartRequests, Fresh, TypeOK, ClientTypeOK
<1>6. EndCounted'
  BY DEF IInv, EndCounted
<1>7. OneOperation'
  BY DEF IInv, OneOperation, Active, TypeOK, OperationTypeOK, Tasks
<1>8. Commands'
  <2>1. Waiting' = Waiting \ {t}
    BY DEF IInv, TypeOK, OperationTypeOK, Waiting
  <2>2. \A u \in Waiting' : awaited'[u] = awaited[u]
    BY <2>1 DEF IInv, TypeOK, OperationTypeOK, Waiting
  <2>3. \A u \in Waiting' : awaited[u] # awaited[t]
    BY <2>1 DEF IInv, TypeOK, OperationTypeOK, OneOperation, Active, Waiting, Tasks
  <2>4. pending' = {awaited'[u] : u \in Waiting'}
    BY <2>1, <2>2, <2>3 DEF IInv, Commands
  <2>5. \A u \in Tasks : phase'[u] = "replied" => result'[u] = awaited'[u]
    BY DEF IInv, Commands, TypeOK, OperationTypeOK
  <2> QED BY <2>4, <2>5 DEF Commands, Waiting
<1> QED BY <1>1, <1>2, <1>3, <1>4, <1>5, <1>6, <1>7, <1>8 DEF IInv, TypeOK

\* A reply takes out its command and wakes who waits for that one.
LEMMA ReplyStep ==
    ASSUME IInv, HandleReply
    PROVE  IInv'
<1> USE DEF HandleReply, IsCallback,
          clientVars, loopVars, opVars, sessionVars, backendVars,
          debuggeeVars
<1>1. ClientTypeOK'
  BY DEF IInv, TypeOK, ClientTypeOK, LoopTypeOK
<1>2. LoopTypeOK'
  BY DEF IInv, TypeOK, LoopTypeOK, ClientTypeOK
<1>3. OperationTypeOK'
  <2>1. phase' \in [Tasks -> {"idle", "entered", "waiting", "replied", "timedOut",
                               "done", "failed"}]
    BY DEF IInv, TypeOK, OperationTypeOK
  <2>2. pending \subseteq Ids
    BY DEF IInv, TypeOK, OperationTypeOK, Ids
  <2>3. result' \in [Tasks -> Ids \cup {NoId}]
    BY <2>2 DEF IInv, TypeOK, OperationTypeOK
  <2>4. pending' \subseteq 1..nextId' - 1
    BY DEF IInv, TypeOK, OperationTypeOK
  <2> QED BY <2>1, <2>3, <2>4 DEF IInv, TypeOK, OperationTypeOK
<1>4. ProgramTypeOK'
  BY DEF IInv, TypeOK, ProgramTypeOK
<1>5. StartsOnce'
  BY DEF IInv, StartsOnce, StartRequests, Fresh, TypeOK, ClientTypeOK
<1>6. EndCounted'
  BY DEF IInv, EndCounted
<1>7. OneOperation'
  <2>1. \A t \in Tasks : Active(t)' <=> Active(t)
    BY DEF IInv, TypeOK, OperationTypeOK, Active, Waiting
  <2> QED BY <2>1 DEF IInv, OneOperation, Tasks
<1>8. Commands'
  BY DEF IInv, Commands, Waiting, TypeOK, OperationTypeOK, Tasks
<1> QED BY <1>1, <1>2, <1>3, <1>4, <1>5, <1>6, <1>7, <1>8 DEF IInv, TypeOK

\* The program's end wakes every waiter.
LEMMA ExitedStep ==
    ASSUME IInv, HandleExited
    PROVE  IInv'
<1> USE DEF HandleExited, IsCallback, WakeAll,
          clientVars, loopVars, opVars, sessionVars, backendVars,
          debuggeeVars
<1>1. ClientTypeOK'
  BY DEF IInv, TypeOK, ClientTypeOK, LoopTypeOK
<1>2. LoopTypeOK'
  <2>1. Tail(callbacks) \in Seq(Callback)
    BY DEF IInv, TypeOK, LoopTypeOK
  <2>2. \A c \in Callback : Append(Tail(callbacks), c) \in Seq(Callback)
    BY <2>1
  <2> QED BY <2>2, WireTypes DEF IInv, TypeOK, LoopTypeOK
<1>3. OperationTypeOK'
  BY DEF IInv, TypeOK, OperationTypeOK, LoopTypeOK, States, Ids, NoId, Tasks
<1>4. ProgramTypeOK'
  BY DEF IInv, TypeOK, ProgramTypeOK
<1>5. StartsOnce'
  BY DEF IInv, StartsOnce, StartRequests, Fresh, TypeOK, ClientTypeOK
<1>6. EndCounted'
  BY DEF IInv, EndCounted
<1>7. OneOperation'
  <2>1. \A t \in Tasks : Active(t)' <=> Active(t)
    BY DEF IInv, TypeOK, OperationTypeOK, Active, Waiting
  <2> QED BY <2>1 DEF IInv, OneOperation, Tasks
<1>8. Commands'
  BY DEF IInv, Commands, Waiting, TypeOK, OperationTypeOK, Tasks
<1> QED BY <1>1, <1>2, <1>3, <1>4, <1>5, <1>6, <1>7, <1>8 DEF IInv, TypeOK

\* Only the first notice of the end finds the program running.
LEMMA ProgramExitStep ==
    ASSUME IInv, HandleProgramExit
    PROVE  IInv'
<1> USE DEF HandleProgramExit, IsCallback,
          clientVars, loopVars, opVars, sessionVars, backendVars,
          debuggeeVars
<1>1. ClientTypeOK'
  BY DEF IInv, TypeOK, ClientTypeOK, LoopTypeOK
<1>2. LoopTypeOK'
  BY DEF IInv, TypeOK, LoopTypeOK, ClientTypeOK
<1>3. OperationTypeOK'
  BY DEF IInv, TypeOK, OperationTypeOK, LoopTypeOK, States, Ids, NoId, Tasks
<1>4. ProgramTypeOK'
  BY DEF IInv, TypeOK, ProgramTypeOK
<1>5. StartsOnce'
  BY DEF IInv, StartsOnce, StartRequests, Fresh, TypeOK, ClientTypeOK
<1>6. EndCounted'
  BY DEF IInv, EndCounted
<1>7. OneOperation'
  BY DEF IInv, OneOperation, Active, TypeOK, OperationTypeOK, Tasks
<1>8. Commands'
  BY DEF IInv, Commands, Waiting, TypeOK, OperationTypeOK, Tasks
<1> QED BY <1>1, <1>2, <1>3, <1>4, <1>5, <1>6, <1>7, <1>8 DEF IInv, TypeOK

-----------------------------------------------------------------------------
(* The theorems.                                                           *)

\* The parts hold together in every state of the session.
LEMMA Invariant == Spec => []IInv
<1>1. Init => IInv
  <2> SUFFICES ASSUME Init PROVE IInv
    OBVIOUS
  <2> USE DEF Init
  <2>1. \A b \in BOOLEAN : [cmd |-> "none", ok |-> b]
                              \in [cmd : AllRequests \cup {"none"}, ok : BOOLEAN]
    OBVIOUS
  <2>2. answer \in [cmd : AllRequests \cup {"none"}, ok : BOOLEAN]
    BY <2>1, Zenon
  <2>3. leaving \in BOOLEAN /\ programRunning \in BOOLEAN /\ isTerminated \in BOOLEAN
        /\ stoppedEvent \in BOOLEAN
    BY Zenon
  <2>4. stopOnEntry \in BOOLEAN
    BY Zenon DEF EntryAssumption
  <2>5. ClientTypeOK
    BY <2>2, <2>3 DEF ClientTypeOK
  <2>6. LoopTypeOK
    BY DEF LoopTypeOK
  <2>7. OperationTypeOK
    <3>1. 0 \in 0..1 - 1 /\ 1 \in Ids /\ NoId = 0
      BY DEF Ids, NoId
    <3>2. awaited \in [Tasks -> 0..nextId - 1] /\ result \in [Tasks -> Ids \cup {NoId}]
      BY <3>1
    <3>3. cleanedUp \in BOOLEAN /\ phase \in [Tasks -> {"idle", "entered", "waiting", "replied",
                                                     "timedOut", "done", "failed"}]
      OBVIOUS
    <3> QED BY <3>1, <3>2, <3>3 DEF OperationTypeOK
  <2>8. ProgramTypeOK
    BY <2>3, <2>4 DEF ProgramTypeOK
  <2>9. StartsOnce /\ EndCounted /\ OneOperation /\ Commands
    BY DEF StartsOnce, StartRequests, Fresh, EndCounted, OneOperation, Active, Commands,
           Waiting, Tasks
  <2> QED BY <2>5, <2>6, <2>7, <2>8, <2>9 DEF IInv, TypeOK
<1>2. IInv /\ [Next]_vars => IInv'
  <2> SUFFICES ASSUME IInv, [Next]_vars PROVE IInv'
    OBVIOUS
  <2>1. ASSUME NEW c \in Requests, SendRequest(c) PROVE IInv'
    BY <2>1, SendStep
  <2>2. ASSUME NEW t \in Tasks, Timeout(t) PROVE IInv'
    BY <2>2, TimeoutStep
  <2>3. ASSUME NEW t \in Tasks, Execute(t) PROVE IInv'
    BY <2>3, ExecuteStep
  <2>4. CASE EventLoop
    BY <2>4, <2>3, TakeStep, LaunchStep, AttachStep, AnswerStep, BeginStep, FinishStep,
       TerminateStep, AnnounceStep, BeginShutdownStep, FinishShutdownStep,
       FinishControllerStep, ReplyStep, StoppedStep, ExitedStep, ProgramExitStep
       DEF EventLoop
  <2>5. CASE UNCHANGED vars
    <3>1. TypeOK'
      BY <2>5 DEF IInv, TypeOK, ClientTypeOK, LoopTypeOK, OperationTypeOK, ProgramTypeOK,
                  vars, clientVars, loopVars, opVars, sessionVars, backendVars, debuggeeVars
    <3>2. UNCHANGED relatedVars
      BY <2>5 DEF relatedVars, vars, clientVars, loopVars, opVars, sessionVars, backendVars
    <3> QED BY <3>1, <3>2, Quiet
  <2> QED BY <2>1, <2>2, <2>4, <2>5, ControllerStep, ThreadStep, CommandStep, DebuggeeStep
          DEF Next
<1> QED BY <1>1, <1>2, PTL DEF Spec

\* Every variable of the adapter's session has its type, and the ids of commands are
\* below the next one to be given (PyDebugger, ExternalProcessBackend).
THEOREM TypeCorrect == Spec => []TypeOK
<1>1. IInv => TypeOK
  BY DEF IInv
<1> QED BY <1>1, Invariant, PTL

\* However many operations the client and the controller start, one is in progress at
\* most and the backend is busy for it (operation_context).
THEOREM OneAtATime == Spec => []BusyIsOneOperation
<1>1. IInv => BusyIsOneOperation
  <2> SUFFICES ASSUME IInv PROVE BusyIsOneOperation
    OBVIOUS
  <2> DEFINE S == {t \in Tasks : Active(t)}
  <2>1. S = {} \/ S = {"loop"} \/ S = {"controller"}
    BY DEF IInv, OneOperation, Tasks
  <2>2. Cardinality({}) = 0 /\ Cardinality({"loop"}) = 1 /\ Cardinality({"controller"}) = 1
    BY FS_EmptySet, FS_Singleton
  <2>3. Cardinality(S) <= 1
    <3> HIDE DEF S
    <3> QED BY <2>1, <2>2
  <2>4. backend = "busy" => \E t \in Tasks : Active(t)
    BY DEF IInv, OneOperation
  <2>5. backend = "ready" => \A t \in Tasks : ~Active(t)
    BY DEF IInv, OneOperation
  <2> QED BY <2>3, <2>4, <2>5 DEF BusyIsOneOperation
<1> QED BY <1>1, Invariant, PTL

\* pending_commands holds exactly the commands somebody waits for, through answers,
\* timeouts, failures and shutdowns (_send_command, fail_pending_commands), and nobody
\* is given the answer to another command, however late answers come
\* (handle_debug_message).
THEOREM RepliesAreAwaited == Spec => []RepliesFindWaiters
<1>1. IInv => PendingHasWaiter
  BY DEF IInv, Commands, PendingHasWaiter
<1>2. IInv => ReplyMatches
  BY DEF IInv, Commands, ReplyMatches
<1>3. IInv => RepliesFindWaiters
  BY <1>1, <1>2 DEF RepliesFindWaiters
<1> QED BY <1>3, Invariant, PTL

\* The end of the program is reported once, whichever thread notices it first and
\* whatever the client does meanwhile (_handle_program_exit).
THEOREM ReportedOnce == Spec => []EndReportedOnce
<1>1. IInv => EndReportedOnce
  BY DEF IInv, EndCounted, EndReportedOnce
<1> QED BY <1>1, Invariant, PTL

-----------------------------------------------------------------------------
(* Inquiries: the inductive invariant.  The program is moved by one        *)
(* command at a time and from a stop, so it stands still for as long as    *)
(* nobody has told it to go on; the reply to a command comes last of what  *)
(* the command sends, so what it shows is of the stop, or of the moving    *)
(* program, it was made of.                                                *)

HIDE RequestsAssumption
HIDE EntryAssumption
HIDE BoundsAssumption
USE AnswerersAssumption, InquiryBounds

\* The latest stop that has been announced.
Announced(where, count) == IF where \in {"announcing", "shown"} THEN count - 1 ELSE count

\* What the program shows of its stops, whether it is stopped or not.
ProgramOK ==
    /\ currentFrame = stopCount
    /\ isStopped <=> at \in {"announcing", "shown", "halted"}
    /\ at # "running" => stopCount # 0
    /\ at \in {"shown", "halted", "waking"} => frames = stopCount
    /\ at = "running" => frames \in {0, stopCount}
    /\ at = "announcing" => frames \in {0, stopCount - 1}

\* A stop is announced once, and only to one who was told of the one before.
StopsOK ==
    LET a == Announced(at, stopCount) IN
    /\ heardOf <= a /\ a <= heardOf + 1
    /\ at # "halted" => heardOf = a
    /\ heardOf = a => \A i \in DOMAIN messages : messages[i].type # "stopped"
    /\ heardOf # a =>
         /\ \E i \in DOMAIN messages : messages[i].type = "stopped"
         /\ \A i, j \in DOMAIN messages :
               messages[i].type = "stopped" =>
                  /\ messages[i].of = a
                  /\ messages[j].type = "stopped" => i = j

Movers == Resuming \union {"goto"}

\* A command that moves the program is yet to be sent, or on its way.
ToSend(s) == s.id = Unnumbered /\ s.todo # <<>> /\ Head(s.todo) \in Movers
OnItsWay(cs) == \E i \in DOMAIN cs : cs[i].do \in Movers
Outstanding(s, cs) == ToSend(s) \/ OnItsWay(cs)

\* The reply to the command that is being waited for.
IsAnswer(m, s) == m.type = "reply" /\ s.id # Unnumbered /\ m.id = s.id

\* The jump that is being waited for.
Jumping(s) == s.kind = "goto" /\ s.reply = <<>> /\ s.todo # <<>>

\* The program is moved by one command at a time, from a stop.
MovesOK ==
    /\ \A i, j \in DOMAIN commands :
          commands[i].do \in Movers /\ commands[j].do \in Movers => i = j
    /\ ToSend(serving) => ~OnItsWay(commands)
    /\ Outstanding(serving, commands) => heardOf # 0 /\ at = "halted" /\ heardOf = stopCount
    /\ Outstanding(serving, commands) /\ moved = "no" => Jumping(serving)
    /\ \A i \in DOMAIN commands :
          commands[i].do = "goto" /\ moved = "no" => commands[i].id = serving.id
    /\ moved = "no" /\ heardOf # 0 =>
          at = "halted" /\ (heardOf = stopCount \/ (Jumping(serving) /\ serving.id # Unnumbered))
    /\ moved # "no" => heardOf # 0
    /\ serving.kind = "goto" =>
         /\ at = "halted" /\ heardOf # 0
         /\ \A i \in DOMAIN commands : commands[i].do \notin Resuming
         /\ \A i, j \in DOMAIN messages :
              messages[i].type = "stopped" /\ IsAnswer(messages[j], serving) => i < j

\* Numbers are given once; the command waited for is the latest of them.
NumbersOK ==
    /\ \A i \in DOMAIN commands : commands[i].id <= numbered
    /\ \A i \in DOMAIN messages : messages[i].type = "reply" => messages[i].id <= numbered
    /\ serving.id # Unnumbered => serving.id = numbered /\ serving.todo # <<>>
    /\ serving.reply # <<>> => serving.id # Unnumbered /\ Len(serving.reply) = 1
    /\ \A i \in DOMAIN commands : serving.id # Unnumbered /\ commands[i].id = serving.id =>
          i = Len(commands) /\ commands[i].do = Head(serving.todo)
    /\ \A i \in DOMAIN messages : IsAnswer(messages[i], serving) =>
          /\ commands = <<>>
          /\ \A j \in DOMAIN messages : j > i => messages[j].type = "stopped"
    /\ serving.reply # <<>> /\ serving.reply[1].type = "reply" =>
          /\ serving.reply[1].id = serving.id
          /\ commands = <<>>
          /\ \A j \in DOMAIN messages : messages[j].type = "stopped"

\* The commands of a request.
RequestOK ==
    /\ serving.kind = "none" => serving = NoInquiry
    /\ serving.kind \in Simple \/ answerer = "launcher" => serving.todo \in {<<>>, <<serving.kind>>}
    /\ serving.kind \in Agents /\ answerer = "adapter" =>
          \A i \in DOMAIN serving.todo : serving.todo[i] \in {"stackTrace", "evaluate", "variables"}
    /\ serving.kind = "next" /\ answerer = "adapter" => serving.id = Unnumbered
    /\ serving.heardOf <= heardOf
    /\ serving.kind \in OfAStop /\ serving.heardOf # 0 /\ serving.moved = "no" =>
          heardOf = serving.heardOf /\ moved = "no"
    /\ serving.reply # <<>> => serving.reply[1] = NoReply \/ serving.reply[1].type = "reply"
    /\ serving.reply # <<>> /\ serving.reply[1] = NoReply => serving.late

\* What may be shown for a request: of the stop it was told of and of no other, unless
\* the program has been told to go on.
MayShow(s, of) ==
    /\ of >= s.heardOf \/ (of = 0 /\ s.moved # "no")
    /\ s.heardOf # 0 /\ s.moved = "no" => of = s.heardOf

Wanted(s) == s.todo # <<>> /\ s.kind \in OfAStop /\ Head(s.todo) \in OfAStop

GoodReply(m, s) ==
    /\ Head(s.todo) \in {"stackTrace", "evaluate"} => m.ok
    /\ m.ok => MayShow(s, m.of)

\* The answer that comes, or has come, or was made of earlier ones.
AnswersOK ==
    /\ \A i \in DOMAIN messages :
          IsAnswer(messages[i], serving) /\ Wanted(serving) => GoodReply(messages[i], serving)
    /\ Wanted(serving) /\ serving.reply # <<>> /\ serving.reply[1].type = "reply" =>
          GoodReply(serving.reply[1], serving)
    /\ serving.kind \in OfAStop /\ ~serving.late =>
          \A i \in DOMAIN serving.got :
             LET g == serving.got[i] IN g.do \in OfAStop /\ ~g.raised => MayShow(serving, g.of)

\* The stack of a reply is what the adapter has cached by the time the reply arrives.
CacheOK ==
    answerer = "adapter" /\ serving.todo # <<>> /\ Head(serving.todo) = "stackTrace" =>
       /\ \A i \in DOMAIN messages : IsAnswer(messages[i], serving) =>
             \/ i = 1 /\ cached = messages[i].of
             \/ i > 1 /\ messages[i - 1] = [type |-> "stackTrace", of |-> messages[i].of]
       /\ serving.reply # <<>> /\ serving.reply[1].type = "reply" => cached = serving.reply[1].of

\* The adapter's record of the thread.
RecordOK ==
    answerer = "adapter" =>
       /\ record.reason = heardOf
       /\ record.stopped => heardOf # 0 /\ moved # "continue"
       /\ serving # NoInquiry => serving.reason = serving.heardOf
       /\ serving.kind = "agentSnapshot" => serving.heardOf # 0 /\ serving.moved # "continue"

\* The inductive invariant.
InqIInv == /\ InquiryTypeOK /\ ProgramOK /\ StopsOK /\ MovesOK /\ NumbersOK
           /\ RequestOK /\ AnswersOK /\ CacheOK /\ RecordOK

\* What the debuggee sends.
Wire == Events \union Replies

-----------------------------------------------------------------------------
(* Sequences.                                                              *)

\* What is appended comes last.
LEMMA AddedLast ==
    ASSUME NEW S, NEW q \in Seq(S), NEW e \in S
    PROVE  /\ Append(q, e) \in Seq(S)
           /\ Len(Append(q, e)) = Len(q) + 1
           /\ \A i \in 1..Len(q) : Append(q, e)[i] = q[i]
           /\ Append(q, e)[Len(q) + 1] = e
OBVIOUS

\* What is taken was the first, and the others move up.
LEMMA TakenFirst ==
    ASSUME NEW S, NEW q \in Seq(S), q # <<>>
    PROVE  /\ Tail(q) \in Seq(S) /\ Head(q) \in S /\ Head(q) = q[1] /\ 1 \in DOMAIN q
           /\ Len(Tail(q)) = Len(q) - 1 /\ Len(q) \in Nat \ {0}
           /\ \A i \in DOMAIN Tail(q) : i + 1 \in DOMAIN q /\ Tail(q)[i] = q[i + 1]
OBVIOUS

\* What is joined keeps its order.
LEMMA Joined ==
    ASSUME NEW S, NEW q \in Seq(S), NEW r \in Seq(S)
    PROVE  /\ q \o r \in Seq(S)
           /\ Len(q \o r) = Len(q) + Len(r)
           /\ \A i \in 1..Len(q) : (q \o r)[i] = q[i]
           /\ \A i \in 1..Len(r) : (q \o r)[Len(q) + i] = r[i]
           /\ \A i \in DOMAIN (q \o r) : i \in DOMAIN q \/ (i - Len(q) \in DOMAIN r /\ (q \o r)[i] = r[i - Len(q)])
OBVIOUS

-----------------------------------------------------------------------------
(* What a step leaves alone.                                               *)

LEMMA ProgramKept == ProgramOK /\ UNCHANGED programState => ProgramOK'
BY DEF ProgramOK, programState

\* Which stops are announced depends on the program, what was told and the messages.
LEMMA StopsKept ==
    StopsOK /\ UNCHANGED <<programState, heardOf, messages>> => StopsOK'
BY DEF StopsOK, programState

\* What moves the program depends on these.
LEMMA MovesKept ==
    MovesOK /\ UNCHANGED <<programState, askerHistory, serving, wire>> => MovesOK'
BY DEF MovesOK, programState, askerHistory, wire

\* The numbers are those of the wire and of the command waited for.
LEMMA NumbersKept == NumbersOK /\ UNCHANGED <<numbered, serving, wire>> => NumbersOK'
BY DEF NumbersOK, wire

\* What a request is made of is the request's own, and what was told meanwhile.
LEMMA RequestKept == RequestOK /\ UNCHANGED <<answerer, serving, askerHistory>> => RequestOK'
BY DEF RequestOK, askerHistory

\* What answers show depends on the request and on the messages.
LEMMA AnswersKept == AnswersOK /\ UNCHANGED <<serving, messages>> => AnswersOK'
BY DEF AnswersOK

\* What the adapter has cached depends on nothing the program does.
LEMMA CacheKept == CacheOK /\ UNCHANGED <<answerer, serving, messages, cached>> => CacheOK'
BY DEF CacheOK

\* The adapter's record follows what it was told.
LEMMA RecordKept == RecordOK /\ UNCHANGED <<answerer, record, serving, askerHistory>> => RecordOK'
BY DEF RecordOK, askerHistory

-----------------------------------------------------------------------------
LEMMA BeginStopKeeps ==
    ASSUME InqIInv, NEW ofStep \in BOOLEAN, BeginStop(ofStep)
    PROVE  InqIInv'
<1>1. InquiryTypeOK'
  BY DEF InqIInv, InquiryTypeOK, BeginStop, wire, adapter, askerHistory, Halts
<1>2. ProgramOK'
  BY DEF InqIInv, InquiryTypeOK, ProgramOK, BeginStop, Halts
<1>3. StopsOK'
  BY DEF InqIInv, InquiryTypeOK, StopsOK, BeginStop, wire, askerHistory, Announced, Halts
<1>4. MovesOK'
  BY DEF InqIInv, InquiryTypeOK, MovesOK, BeginStop, wire, askerHistory
<1>5. UNCHANGED <<answerer, wire, adapter, serving, numbered, askerHistory>>
  BY DEF BeginStop
<1> QED
  BY <1>1, <1>2, <1>3, <1>4, <1>5, NumbersKept, RequestKept, AnswersKept, CacheKept, RecordKept
     DEF InqIInv, wire, adapter

\* The thread collects the frames of its own stop before it announces it.
LEMMA ShowKeeps == InqIInv /\ Show => InqIInv'
<1> SUFFICES ASSUME InqIInv, Show PROVE InqIInv' OBVIOUS
<1>1. InquiryTypeOK'
  BY DEF InqIInv, InquiryTypeOK, Show, Shows, wire, adapter, askerHistory
<1>2. ProgramOK'
  BY DEF InqIInv, InquiryTypeOK, ProgramOK, Show, Shows
<1>3. StopsOK'
  BY DEF InqIInv, InquiryTypeOK, StopsOK, Show, Shows, wire, askerHistory, Announced
<1>4. MovesOK'
  BY DEF InqIInv, InquiryTypeOK, MovesOK, Show, Shows, wire, askerHistory
<1>5. UNCHANGED <<answerer, wire, adapter, serving, numbered, askerHistory>>
  BY DEF Show, Shows
<1> QED
  BY <1>1, <1>2, <1>3, <1>4, <1>5, NumbersKept, RequestKept, AnswersKept, CacheKept, RecordKept
     DEF InqIInv, wire, adapter

\* The thread leaves a stop only once a command has waked it.
LEMMA GoOnKeeps == InqIInv /\ GoOn => InqIInv'
<1> SUFFICES ASSUME InqIInv, GoOn PROVE InqIInv' OBVIOUS
<1>1. InquiryTypeOK'
  BY DEF InqIInv, InquiryTypeOK, GoOn, wire, adapter, askerHistory, Halts
<1>2. ProgramOK'
  BY DEF InqIInv, InquiryTypeOK, ProgramOK, GoOn
<1>3. StopsOK'
  BY DEF InqIInv, InquiryTypeOK, StopsOK, GoOn, wire, askerHistory, Announced
<1>4. MovesOK'
  BY DEF InqIInv, InquiryTypeOK, MovesOK, GoOn, wire, askerHistory
<1>5. UNCHANGED <<answerer, wire, adapter, serving, numbered, askerHistory>>
  BY DEF GoOn
<1> QED
  BY <1>1, <1>2, <1>3, <1>4, <1>5, NumbersKept, RequestKept, AnswersKept, CacheKept, RecordKept
     DEF InqIInv, wire, adapter

\* The stop that is announced is the latest, and the one before has been told.
LEMMA AnnounceKeeps == InqIInv /\ Announce => InqIInv'
<1> SUFFICES ASSUME InqIInv, Announce PROVE InqIInv' OBVIOUS
<1> DEFINE m == [type |-> "stopped", of |-> stopCount]
           n == Len(messages)
<1>1. messages \in Seq(Wire) /\ m \in Wire /\ at = "shown" /\ messages' = Append(messages, m)
  BY DEF InqIInv, InquiryTypeOK, Announce, Wire, Events, Notices
<1>2. /\ messages' \in Seq(Wire) /\ DOMAIN messages' = DOMAIN messages \union {n + 1}
      /\ \A i \in DOMAIN messages : messages'[i] = messages[i] /\ i < n + 1
      /\ messages'[n + 1] = m /\ n \in Nat
  BY <1>1, AddedLast
<1>3. UNCHANGED <<answerer, stopCount, currentFrame, frames, isStopped, clears, commands, adapter,
                  serving, numbered, askerHistory, inquiries>> /\ at' = "halted"
  BY DEF Announce
<1> HIDE DEF n
<1>4. InquiryTypeOK'
  BY <1>2, <1>3 DEF InqIInv, InquiryTypeOK, Wire, adapter, askerHistory
<1>5. ProgramOK'
  BY <1>1, <1>3 DEF InqIInv, ProgramOK
<1>6. m.type = "stopped" /\ m.of = stopCount
  OBVIOUS
<1> HIDE DEF m
<1>7. StopsOK'
  <2>1. Announced(at, stopCount) = stopCount - 1 /\ Announced(at', stopCount') = stopCount
        /\ stopCount \in Nat
    BY <1>1, <1>3 DEF Announced, InqIInv, InquiryTypeOK, Halts
  <2>2. heardOf = stopCount - 1 /\ \A i \in DOMAIN messages : messages[i].type # "stopped"
    BY <2>1, <1>1 DEF InqIInv, StopsOK
  <2> QED
    BY <2>1, <2>2, <1>2, <1>3, <1>6 DEF StopsOK, askerHistory
<1>8. MovesOK'
  <2>1. ~Outstanding(serving, commands) /\ serving.kind # "goto" /\ (moved # "no" \/ heardOf = 0)
    BY <1>1 DEF InqIInv, MovesOK
  <2> QED
    BY <2>1, <1>3, <1>1 DEF InqIInv, MovesOK, askerHistory, Outstanding
<1>9. NumbersOK'
  BY <1>2, <1>3, <1>6 DEF InqIInv, NumbersOK, IsAnswer
<1>10. AnswersOK'
  BY <1>2, <1>3, <1>6 DEF InqIInv, AnswersOK, IsAnswer
<1>11. CacheOK'
  <2>1. \A i \in DOMAIN messages : i > 1 => i - 1 \in DOMAIN messages
    BY <1>1
  <2>2. \A i \in DOMAIN messages' : IsAnswer(messages'[i], serving') =>
           i \in DOMAIN messages /\ IsAnswer(messages[i], serving) /\ messages'[i] = messages[i]
    BY <1>2, <1>3, <1>6 DEF IsAnswer
  <2>3. \A i \in DOMAIN messages : i > 1 => messages'[i - 1] = messages[i - 1]
    BY <2>1, <1>2
  <2> QED
    BY <2>2, <2>3, <1>3 DEF InqIInv, CacheOK, adapter
<1> QED
  BY <1>4, <1>5, <1>7, <1>8, <1>9, <1>10, <1>11, <1>3, RequestKept, RecordKept
     DEF InqIInv, adapter

\* One message.
LEMMA OneSent ==
    ASSUME NEW e \in Wire
    PROVE  <<e>> \in Seq(Wire) /\ Len(<<e>>) = 1 /\ DOMAIN <<e>> = {1} /\ <<e>>[1] = e
OBVIOUS

\* One message and no other.
LEMMA OneAndNone == ASSUME NEW e \in Wire PROVE <<e>> \o <<>> = <<e>>
OBVIOUS

\* Two messages, in their order.
LEMMA TwoSent ==
    ASSUME NEW e \in Wire, NEW r \in Wire
    PROVE  LET q == <<e>> \o <<r>> IN
           q \in Seq(Wire) /\ Len(q) = 2 /\ DOMAIN q = {1, 2} /\ q[1] = e /\ q[2] = r
<1>1. <<e>> \in Seq(Wire) /\ <<r>> \in Seq(Wire) /\ Len(<<e>>) = 1 /\ Len(<<r>>) = 1
      /\ <<e>>[1] = e /\ <<r>>[1] = r
  OBVIOUS
<1> DEFINE p == <<e>>
           q == <<r>>
<1>2. p \in Seq(Wire) /\ q \in Seq(Wire) /\ Len(p) = 1 /\ Len(q) = 1 /\ p[1] = e /\ q[1] = r
  BY <1>1
<1> HIDE DEF p, q
<1>3. p \o q \in Seq(Wire) /\ Len(p \o q) = 2 /\ (p \o q)[1] = e /\ (p \o q)[2] = r
  BY <1>2, Joined
<1>4. DOMAIN (p \o q) = {1, 2}
  BY <1>3
<1> QED BY <1>3, <1>4 DEF p, q

\* What a command that only looks sends: an event, a reply with its number, or both, the
\* reply last.  It says what the thread or its current frame shows.
LEMMA WhatLooksSend ==
    ASSUME InqIInv, NEW c \in [do : Verbs, id : Nat], c.do \in Looking, NEW out \in Looked(c)
    PROVE  /\ out \in Seq(Wire)
           /\ \A i \in DOMAIN out : out[i].type # "stopped"
           /\ \A i \in DOMAIN out : out[i].type = "reply" =>
                 i = Len(out) /\ out[i].id = c.id /\ c.id # Unnumbered
           /\ \A i \in DOMAIN out : out[i].type = "reply" /\ c.do = "stackTrace" =>
                 i = 2 /\ out[1] = [type |-> "stackTrace", of |-> out[i].of]
           /\ \A i \in DOMAIN out : out[i].type = "reply" /\ c.do \in OfAStop =>
                 /\ c.do \in {"stackTrace", "evaluate"} => out[i].ok
                 /\ out[i].ok => out[i].of \in {frames, currentFrame} \/ (out[i].of = 0 /\ ~isStopped)
<1>1. frames \in Halts /\ currentFrame \in Halts /\ stopCount \in Halts /\ 0 \in Halts
      /\ c.id \in Nat /\ isStopped \in BOOLEAN /\ \A s \in 0..currentFrame : s \in Halts
  <2>1. frames \in Halts /\ currentFrame \in Halts /\ stopCount \in Halts /\ isStopped \in BOOLEAN
    BY DEF InqIInv, InquiryTypeOK
  <2>2. \A u \in Halts : 0 \in Halts /\ \A s \in 0..u : s \in Halts
    BY InquiryBounds DEF Halts
  <2>3. c.id \in Nat
    OBVIOUS
  <2> QED BY <2>1, <2>2, <2>3
<1>2. \A ok \in BOOLEAN, s \in Halts :
         /\ Reply(c.id, ok, s) \in Seq(Wire)
         /\ c.id = Unnumbered => Reply(c.id, ok, s) = <<>>
         /\ c.id # Unnumbered =>
               Reply(c.id, ok, s) = <<[type |-> "reply", id |-> c.id, ok |-> ok, of |-> s]>>
  <2> SUFFICES ASSUME NEW ok \in BOOLEAN, NEW s \in Halts
               PROVE  /\ Reply(c.id, ok, s) \in Seq(Wire)
                      /\ c.id = Unnumbered => Reply(c.id, ok, s) = <<>>
                      /\ c.id # Unnumbered =>
                           Reply(c.id, ok, s) = <<[type |-> "reply", id |-> c.id, ok |-> ok, of |-> s]>>
    OBVIOUS
  <2>1. c.id # Unnumbered => [type |-> "reply", id |-> c.id, ok |-> ok, of |-> s] \in Wire
    BY <1>1 DEF Wire, Replies
  <2> QED BY <2>1 DEF Reply
<1>3. \A n \in Notices, s \in Halts : [type |-> n, of |-> s] \in Wire
  BY DEF Wire, Events
<1>4. CASE c.do = "stackTrace"
  <2>1. out = handle_stack_trace(c.id)
    BY <1>4 DEF Looked
  <2>2. CASE c.id = Unnumbered
    <3>1. out = <<[type |-> "stackTrace", of |-> frames]>>
      <4>1. Reply(c.id, TRUE, frames) = <<>> /\ [type |-> "stackTrace", of |-> frames] \in Wire
        BY <2>2, <1>1, <1>2, <1>3 DEF Notices
      <4> QED BY <2>1, <4>1, OneAndNone DEF handle_stack_trace
    <3> DEFINE e == [type |-> "stackTrace", of |-> frames]
    <3>2. e \in Wire /\ e.type = "stackTrace"
      BY <1>3, <1>1 DEF Notices
    <3> HIDE DEF e
    <3>3. Len(out) = 1 /\ out \in Seq(Wire) /\ DOMAIN out = {1} /\ out[1] = e
      BY <3>1, <3>2, OneSent DEF e
    <3> QED BY <3>2, <3>3
  <2>3. CASE c.id # Unnumbered
    <3>1. out = <<[type |-> "stackTrace", of |-> frames]>>
                  \o <<[type |-> "reply", id |-> c.id, ok |-> TRUE, of |-> frames]>>
      BY <2>1, <2>3, <1>1, <1>2 DEF handle_stack_trace
    <3> DEFINE e == [type |-> "stackTrace", of |-> frames]
               r == [type |-> "reply", id |-> c.id, ok |-> TRUE, of |-> frames]
    <3>2. /\ e \in Wire /\ e.type = "stackTrace" /\ e = [type |-> "stackTrace", of |-> r.of]
          /\ r.type = "reply" /\ r.id = c.id /\ r.ok = TRUE /\ r.of = frames
      BY <1>3, <1>1 DEF Notices
    <3>4. r \in Wire
      BY <2>3, <1>1 DEF Wire, Replies
    <3> HIDE DEF e, r
    <3>3. Len(out) = 2 /\ out \in Seq(Wire) /\ DOMAIN out = {1, 2} /\ out[1] = e /\ out[2] = r
      <4>1. out = <<e>> \o <<r>>
        BY <3>1 DEF e, r
      <4> QED BY <4>1, <3>2, <3>4, TwoSent
    <3> QED BY <3>3, <3>2, <2>3
  <2> QED BY <2>2, <2>3
<1>5. CASE c.do \in {"evaluate", "variables"}
  <2>1. PICK s \in Halts : /\ out = <<[type |-> c.do, of |-> s]>> \o Reply(c.id, TRUE, s)
                           /\ c.do = "evaluate" => s = currentFrame
    BY <1>5, <1>1 DEF Looked, _cmd_evaluate, _cmd_variables
  <2>2. CASE c.id = Unnumbered
    <3>1. out = <<[type |-> c.do, of |-> s]>>
      <4>1. Reply(c.id, TRUE, s) = <<>> /\ [type |-> c.do, of |-> s] \in Wire
        BY <2>2, <1>2, <1>3, <1>5 DEF Notices
      <4> QED BY <2>1, <4>1, OneAndNone
    <3> DEFINE e == [type |-> c.do, of |-> s]
    <3>2. e \in Wire /\ e.type = c.do
      BY <1>3, <1>1, <1>5 DEF Notices
    <3> HIDE DEF e
    <3>3. Len(out) = 1 /\ out \in Seq(Wire) /\ DOMAIN out = {1} /\ out[1] = e
      BY <3>1, <3>2, OneSent DEF e
    <3> QED BY <3>2, <3>3, <1>5
  <2>3. CASE c.id # Unnumbered
    <3>1. out = <<[type |-> c.do, of |-> s]>>
                  \o <<[type |-> "reply", id |-> c.id, ok |-> TRUE, of |-> s]>>
      BY <2>1, <2>3, <1>1, <1>2
    <3> DEFINE e == [type |-> c.do, of |-> s]
               r == [type |-> "reply", id |-> c.id, ok |-> TRUE, of |-> s]
    <3>2. /\ e \in Wire /\ e.type = c.do
          /\ r.type = "reply" /\ r.id = c.id /\ r.ok = TRUE /\ r.of = s
      BY <1>3, <1>1, <1>5 DEF Notices
    <3>4. r \in Wire
      BY <2>3, <1>1 DEF Wire, Replies
    <3> HIDE DEF e, r
    <3>3. Len(out) = 2 /\ out \in Seq(Wire) /\ DOMAIN out = {1, 2} /\ out[1] = e /\ out[2] = r
      <4>1. out = <<e>> \o <<r>>
        BY <3>1 DEF e, r
      <4> QED BY <4>1, <3>2, <3>4, TwoSent
    <3> QED BY <3>3, <3>2, <2>3, <1>5, <2>1 DEF OfAStop
  <2> QED BY <2>2, <2>3
<1>6. CASE c.do = "exceptionInfo"
  <2>1. out = <<[type |-> "exceptionInfo", of |-> stopCount]>>
    BY <1>6 DEF Looked, cmd_exception_info
  <2> QED BY <2>1, <1>1, <1>3, OneSent, <1>6 DEF Notices, OfAStop
<1>7. CASE c.do \in {"setExpression", "gotoTargets", "agentSnapshot", "agentEval",
                     "agentInspect", "completions"}
  <2>1. PICK ok \in BOOLEAN, s \in Halts :
           /\ out = Reply(c.id, ok, s)
           /\ c.do \in OfAStop /\ ok => s = frames \/ (s = 0 /\ ~isStopped)
    <3>1. CASE c.do = "setExpression"
      BY <3>1, <1>1 DEF Looked, _cmd_set_expression, OfAStop
    <3>2. CASE c.do = "gotoTargets"
      BY <3>2, <1>1 DEF Looked, _cmd_goto_targets, OfAStop
    <3>3. CASE c.do = "completions"
      BY <3>3, <1>1 DEF Looked, unknown_command, OfAStop
    <3>4. CASE c.do = "agentSnapshot"
      BY <3>4, <1>1 DEF Looked, _cmd_agent_snapshot
    <3>5. _get_frame_by_index \in Halts
          /\ (_get_frame_by_index = frames \/ (_get_frame_by_index = 0 /\ ~isStopped))
      BY <1>1 DEF _get_frame_by_index
    <3>6. CASE c.do = "agentEval"
      BY <3>6, <3>5 DEF Looked, _cmd_agent_eval
    <3>7. CASE c.do = "agentInspect"
      BY <3>7, <3>5, <1>1 DEF Looked, _cmd_agent_inspect
    <3> QED BY <1>7, <3>1, <3>2, <3>3, <3>4, <3>6, <3>7
  <2>2. CASE c.id = Unnumbered
    <3>1. out = <<>>
      BY <2>1, <2>2, <1>2
    <3> QED BY <3>1
  <2>3. CASE c.id # Unnumbered
    <3>1. out = <<[type |-> "reply", id |-> c.id, ok |-> ok, of |-> s]>>
      BY <2>1, <2>3, <1>2
    <3>2. [type |-> "reply", id |-> c.id, ok |-> ok, of |-> s] \in Wire
      BY <2>3, <1>1 DEF Wire, Replies
    <3> QED BY <3>1, <3>2, <1>7, <2>1, <2>3, OneSent
  <2> QED BY <2>2, <2>3
<1> QED BY <1>4, <1>5, <1>6, <1>7 DEF Looking

\* What is looked at for a request that shows a stop may be shown.
LEMMA MayBeShown ==
    ASSUME InqIInv, serving.kind \in OfAStop, NEW of \in {frames, currentFrame} \union {0},
           of = 0 /\ of \notin {frames, currentFrame} => ~isStopped
    PROVE  MayShow(serving, of)
<1>1. /\ currentFrame \in Halts /\ frames \in Halts /\ stopCount \in Halts /\ heardOf \in Halts
      /\ serving.heardOf \in Halts /\ serving.heardOf <= heardOf
  BY DEF InqIInv, InquiryTypeOK, RequestOK, Servings
<1>2. CASE serving.heardOf = 0
  BY <1>1, <1>2 DEF MayShow, Halts
<1>3. CASE serving.heardOf # 0 /\ serving.moved = "no"
  <2>1. heardOf = serving.heardOf /\ moved = "no"
    BY <1>3 DEF InqIInv, RequestOK
  <2>2. at = "halted" /\ heardOf = stopCount
    BY <2>1, <1>3 DEF InqIInv, MovesOK, Jumping, OfAStop
  <2>3. frames = stopCount /\ currentFrame = stopCount /\ isStopped
    BY <2>2 DEF InqIInv, ProgramOK
  <2> QED BY <2>1, <2>2, <2>3, <1>3, <1>1 DEF MayShow, Halts
<1>4. CASE serving.heardOf # 0 /\ serving.moved # "no"
  <2>1. of = 0 \/ of >= heardOf
    BY <1>1 DEF InqIInv, ProgramOK, StopsOK, Announced, InquiryTypeOK, Halts
  <2> QED BY <2>1, <1>1, <1>4 DEF MayShow, Halts
<1> QED BY <1>2, <1>3, <1>4

\* A command is taken: the others keep their order.
LEMMA CommandTaken ==
    ASSUME InqIInv, commands # <<>>, commands' = Tail(commands)
    PROVE  /\ commands' \in Seq([do : Verbs, id : Nat])
           /\ Head(commands) = commands[1] /\ 1 \in DOMAIN commands
           /\ Head(commands) \in [do : Verbs, id : Nat]
           /\ Len(commands) \in Nat \ {0} /\ Len(commands') = Len(commands) - 1
           /\ \A i \in DOMAIN commands' :
                 i + 1 \in DOMAIN commands /\ commands'[i] = commands[i + 1] /\ i \in Nat
           /\ Len(commands) = 1 => commands' = <<>>
<1>1. commands \in Seq([do : Verbs, id : Nat])
  BY DEF InqIInv, InquiryTypeOK
<1>2. /\ commands' \in Seq([do : Verbs, id : Nat])
      /\ Head(commands) = commands[1] /\ 1 \in DOMAIN commands
      /\ Head(commands) \in [do : Verbs, id : Nat]
      /\ Len(commands) \in Nat \ {0} /\ Len(commands') = Len(commands) - 1
      /\ \A i \in DOMAIN commands' : i + 1 \in DOMAIN commands /\ commands'[i] = commands[i + 1]
  BY <1>1, TakenFirst
<1>3. \A i \in DOMAIN commands' : i \in Nat
  BY <1>2
<1>4. Len(commands) = 1 => commands' = <<>>
  BY <1>2
<1> QED BY <1>2, <1>3, <1>4

\* Nobody has been answered as long as there is a command.
LEMMA NotYetAnswered ==
    ASSUME InqIInv, commands # <<>>
    PROVE  /\ \A i \in DOMAIN messages : ~IsAnswer(messages[i], serving)
           /\ serving.reply # <<>> => serving.reply[1].type # "reply"
BY DEF InqIInv, NumbersOK

\* What a handler sends comes behind what is on its way.
LEMMA MessagesAdded ==
    ASSUME InqIInv, NEW out \in Seq(Wire), messages' = messages \o out
    PROVE  /\ messages' \in Seq(Wire)
           /\ Len(messages) \in Nat /\ Len(out) \in Nat
           /\ Len(messages') = Len(messages) + Len(out)
           /\ \A i \in DOMAIN messages :
                 i \in DOMAIN messages' /\ messages'[i] = messages[i] /\ i <= Len(messages)
           /\ \A i \in DOMAIN messages' :
                 i \in DOMAIN messages
                   \/ (i - Len(messages) \in DOMAIN out /\ messages'[i] = out[i - Len(messages)])
           /\ \A i \in DOMAIN out :
                 Len(messages) + i \in DOMAIN messages' /\ messages'[Len(messages) + i] = out[i]
<1>1. messages \in Seq(Wire)
  BY DEF InqIInv, InquiryTypeOK, Wire
<1> QED BY <1>1, Joined

\* A command that looks shows the stop it finds, and moves nothing.
LEMMA HandleLookKeeps == InqIInv /\ HandleLook => InqIInv'
<1> SUFFICES ASSUME InqIInv, HandleLook PROVE InqIInv' OBVIOUS
<1> DEFINE c == Head(commands)
           n == Len(messages)
<1>1. PICK out \in Looked(c) : messages' = messages \o out
  BY DEF HandleLook
<1>2. /\ commands # <<>> /\ c.do \in Looking /\ commands' = Tail(commands)
      /\ UNCHANGED <<answerer, programState, adapter, serving, numbered, askerHistory, inquiries>>
  BY DEF HandleLook
<1>3. /\ c = commands[1] /\ 1 \in DOMAIN commands /\ c \in [do : Verbs, id : Nat]
      /\ commands' \in Seq([do : Verbs, id : Nat])
      /\ \A i \in DOMAIN commands' :
            i + 1 \in DOMAIN commands /\ commands'[i] = commands[i + 1] /\ i \in Nat
      /\ Len(commands) = 1 => commands' = <<>>
      /\ Len(commands) \in Nat /\ Len(commands') = Len(commands) - 1
  BY <1>2, CommandTaken
<1> HIDE DEF c
<1>4. /\ out \in Seq(Wire)
      /\ \A i \in DOMAIN out : out[i].type # "stopped"
      /\ \A i \in DOMAIN out : out[i].type = "reply" =>
            i = Len(out) /\ out[i].id = c.id /\ c.id # Unnumbered
      /\ \A i \in DOMAIN out : out[i].type = "reply" /\ c.do = "stackTrace" =>
            i = 2 /\ out[1] = [type |-> "stackTrace", of |-> out[i].of]
      /\ \A i \in DOMAIN out : out[i].type = "reply" /\ c.do \in OfAStop =>
            /\ c.do \in {"stackTrace", "evaluate"} => out[i].ok
            /\ out[i].ok => out[i].of \in {frames, currentFrame} \/ (out[i].of = 0 /\ ~isStopped)
  BY <1>1, <1>2, <1>3, WhatLooksSend
<1>5. /\ messages' \in Seq(Wire) /\ n \in Nat /\ Len(out) \in Nat
      /\ Len(messages') = n + Len(out)
      /\ \A i \in DOMAIN messages :
            i \in DOMAIN messages' /\ messages'[i] = messages[i] /\ i <= n
      /\ \A i \in DOMAIN messages' :
            i \in DOMAIN messages
              \/ (i - n \in DOMAIN out /\ messages'[i] = out[i - n])
      /\ \A i \in DOMAIN out : n + i \in DOMAIN messages' /\ messages'[n + i] = out[i]
  BY <1>1, <1>4, MessagesAdded
<1> HIDE DEF n
<1>6. /\ \A i \in DOMAIN messages : ~IsAnswer(messages[i], serving)
      /\ serving.reply # <<>> => serving.reply[1].type # "reply"
  BY <1>2, NotYetAnswered
<1>7. ASSUME NEW i \in DOMAIN messages', IsAnswer(messages'[i], serving)
      PROVE  /\ i - n \in DOMAIN out /\ messages'[i] = out[i - n] /\ out[i - n].type = "reply"
             /\ i = Len(messages') /\ c.id = serving.id /\ serving.id # Unnumbered
             /\ commands' = <<>> /\ c.do = Head(serving.todo)
  <2>1. i - n \in DOMAIN out /\ messages'[i] = out[i - n]
    BY <1>7, <1>5, <1>6
  <2>2. out[i - n].type = "reply" /\ out[i - n].id = serving.id /\ serving.id # Unnumbered
    BY <2>1, <1>7 DEF IsAnswer
  <2>3. i - n = Len(out) /\ c.id = serving.id
    BY <2>1, <2>2, <1>4
  <2>4. 1 = Len(commands) /\ c.do = Head(serving.todo)
    BY <2>3, <2>2, <1>3 DEF InqIInv, NumbersOK
  <2>5. i \in Nat
    BY <1>5
  <2> QED BY <2>1, <2>2, <2>3, <2>4, <2>5, <1>3, <1>5
<1>8. \A i \in DOMAIN messages' : messages'[i].type = "stopped" =>
         i \in DOMAIN messages /\ messages[i] = messages'[i]
  BY <1>4, <1>5
<1>9. InquiryTypeOK'
  BY <1>2, <1>3, <1>5 DEF InqIInv, InquiryTypeOK, Wire, programState, adapter, askerHistory
<1>10. ProgramOK' /\ RequestOK' /\ RecordOK'
  BY <1>2, ProgramKept, RequestKept, RecordKept DEF InqIInv, adapter
<1>11. StopsOK'
  <2>1. UNCHANGED <<at, stopCount, heardOf>>
    BY <1>2 DEF programState, askerHistory
  <2> QED BY <2>1, <1>8, <1>5 DEF InqIInv, StopsOK
<1>12. MovesOK'
  <2>1. UNCHANGED <<at, stopCount, heardOf, moved, serving>>
    BY <1>2 DEF programState, askerHistory
  <2>2. \A i \in DOMAIN commands' : i + 1 \in DOMAIN commands /\ commands'[i] = commands[i + 1] /\ i \in Nat
    BY <1>3
  <2>3. OnItsWay(commands') => OnItsWay(commands)
    BY <2>2 DEF OnItsWay
  <2>4. \A i, j \in DOMAIN commands' :
           commands'[i].do \in Movers /\ commands'[j].do \in Movers => i = j
    BY <2>2 DEF InqIInv, MovesOK
  <2>5. \A i, j \in DOMAIN messages' :
           messages'[i].type = "stopped" /\ IsAnswer(messages'[j], serving') => i < j
    BY <2>1, <1>7, <1>8, <1>5
  <2> QED BY <2>1, <2>2, <2>3, <2>4, <2>5 DEF InqIInv, MovesOK, Outstanding
<1>13. NumbersOK'
  <2>1. UNCHANGED <<serving, numbered>>
    BY <1>2
  <2>2. \A i \in DOMAIN messages' : messages'[i].type = "reply" => messages'[i].id <= numbered
    <3>1. c.id <= numbered
      BY <1>3 DEF InqIInv, NumbersOK
    <3> QED BY <3>1, <1>4, <1>5 DEF InqIInv, NumbersOK
  <2>3. \A i \in DOMAIN commands' : commands'[i].id <= numbered
    BY <1>3 DEF InqIInv, NumbersOK
  <2>4. \A i \in DOMAIN commands' : serving.id # Unnumbered /\ commands'[i].id = serving.id =>
           i = Len(commands') /\ commands'[i].do = Head(serving.todo)
    BY <1>3 DEF InqIInv, NumbersOK
  <2>5. \A i \in DOMAIN messages' : IsAnswer(messages'[i], serving) =>
          /\ commands' = <<>>
          /\ \A j \in DOMAIN messages' : ~ j > i
    BY <1>7, <1>5
  <2> QED BY <2>1, <2>2, <2>3, <2>4, <2>5, <1>6 DEF InqIInv, NumbersOK
<1>14. AnswersOK'
  <2>1. UNCHANGED serving
    BY <1>2
  <2>2. ASSUME NEW i \in DOMAIN messages', IsAnswer(messages'[i], serving), Wanted(serving)
        PROVE  GoodReply(messages'[i], serving)
    <3>1. /\ i - n \in DOMAIN out /\ messages'[i] = out[i - n] /\ out[i - n].type = "reply"
          /\ c.do = Head(serving.todo)
      BY <1>7, <2>2
    <3>2. c.do \in OfAStop /\ serving.kind \in OfAStop
      BY <3>1, <2>2 DEF Wanted
    <3>3. out[i - n].ok =>
            out[i - n].of \in {frames, currentFrame} \/ (out[i - n].of = 0 /\ ~isStopped)
      BY <3>1, <3>2, <1>4
    <3>4. out[i - n].ok => MayShow(serving, out[i - n].of)
      BY <3>2, <3>3, MayBeShown
    <3>5. c.do \in {"stackTrace", "evaluate"} => out[i - n].ok
      BY <3>1, <3>2, <1>4
    <3> QED BY <3>1, <3>4, <3>5 DEF GoodReply
  <2> QED BY <2>1, <2>2 DEF InqIInv, AnswersOK
<1>15. CacheOK'
  <2>1. UNCHANGED <<serving, cached, answerer>>
    BY <1>2 DEF adapter
  <2>2. ASSUME NEW i \in DOMAIN messages', IsAnswer(messages'[i], serving),
               Head(serving.todo) = "stackTrace"
        PROVE  i > 1 /\ messages'[i - 1] = [type |-> "stackTrace", of |-> messages'[i].of]
    <3>1. /\ i - n \in DOMAIN out /\ messages'[i] = out[i - n] /\ out[i - n].type = "reply"
          /\ c.do = Head(serving.todo)
      BY <1>7, <2>2
    <3>2. i - n = 2 /\ out[1] = [type |-> "stackTrace", of |-> out[i - n].of] /\ 1 \in DOMAIN out
      BY <3>1, <2>2, <1>4
    <3>3. i \in Nat
      BY <1>5
    <3>4. i - 1 = n + 1 /\ i > 1
      BY <3>2, <3>3, <1>5
    <3>5. messages'[n + 1] = out[1]
      BY <3>2, <1>5
    <3> QED BY <3>1, <3>2, <3>4, <3>5
  <2> QED BY <2>1, <2>2, <1>6 DEF InqIInv, CacheOK
<1> QED BY <1>9, <1>10, <1>11, <1>12, <1>13, <1>14, <1>15 DEF InqIInv

\* A reply with this number, or nothing.
IsReply(q, id) ==
    /\ q \in Seq(Wire)
    /\ \A i \in DOMAIN q : q[i].type = "reply" /\ i = 1 /\ q[i].id = id /\ id # Unnumbered
    /\ id # Unnumbered => Len(q) = 1

\* A command with a number is answered once, and one without is not.
LEMMA ReplySent ==
    ASSUME NEW id \in Nat, NEW ok \in BOOLEAN, NEW of \in Halts
    PROVE  IsReply(Reply(id, ok, of), id)
<1> DEFINE r == [type |-> "reply", id |-> id, ok |-> ok, of |-> of]
<1>1. CASE id = Unnumbered
  <2>1. Reply(id, ok, of) = <<>>
    BY <1>1 DEF Reply
  <2> QED BY <2>1, <1>1 DEF IsReply
<1>2. CASE id # Unnumbered
  <2>1. r \in Wire
    BY <1>2 DEF Wire, Replies
  <2>2. Reply(id, ok, of) = <<r>>
    BY <1>2 DEF Reply
  <2>4. r.type = "reply" /\ r.id = id
    OBVIOUS
  <2> HIDE DEF r
  <2>3. /\ Reply(id, ok, of) \in Seq(Wire) /\ DOMAIN Reply(id, ok, of) = {1}
        /\ Reply(id, ok, of)[1] = r /\ Len(Reply(id, ok, of)) = 1
    BY <2>1, <2>2, OneSent
  <2> QED BY <2>3, <1>2, <2>4 DEF IsReply
<1> QED BY <1>1, <1>2

\* The command that moves the program is handled: from a stop, and there is no other.
LEMMA MoverTaken ==
    ASSUME InqIInv, commands # <<>>, Head(commands).do \in Movers, commands' = Tail(commands)
    PROVE  /\ heardOf # 0 /\ at = "halted" /\ heardOf = stopCount
           /\ ~OnItsWay(commands') /\ ~ToSend(serving)
           /\ moved = "no" => Jumping(serving)
<1>1. /\ Head(commands) = commands[1] /\ 1 \in DOMAIN commands
      /\ \A i \in DOMAIN commands' :
            i + 1 \in DOMAIN commands /\ commands'[i] = commands[i + 1] /\ i \in Nat
  BY CommandTaken
<1>2. OnItsWay(commands)
  BY <1>1 DEF OnItsWay
<1>3. ~OnItsWay(commands')
  <2> SUFFICES ASSUME NEW i \in DOMAIN commands', commands'[i].do \in Movers PROVE FALSE
    BY DEF OnItsWay
  <2>1. i + 1 = 1
    BY <1>1 DEF InqIInv, MovesOK
  <2> QED BY <2>1, <1>1
<1> QED BY <1>2, <1>3 DEF InqIInv, MovesOK, Outstanding

\* A command is taken, and nothing but its reply is sent, perhaps after the
\* announcement of a stop: what is waited for is answered last.
LEMMA AnswerComesLast ==
    ASSUME InqIInv, commands # <<>>, commands' = Tail(commands), NEW out \in Seq(Wire),
           messages' = messages \o out,
           \A i \in DOMAIN out : out[i].type # "reply" \/
              (i = Len(out) /\ out[i].id = Head(commands).id /\ Head(commands).id # Unnumbered)
    PROVE  \A i \in DOMAIN messages' : IsAnswer(messages'[i], serving) =>
             /\ i - Len(messages) \in DOMAIN out /\ messages'[i] = out[i - Len(messages)]
             /\ i = Len(messages') /\ Head(commands).id = serving.id /\ serving.id # Unnumbered
             /\ commands' = <<>> /\ Head(commands).do = Head(serving.todo)
<1> DEFINE n == Len(messages)
           c == Head(commands)
<1> SUFFICES ASSUME NEW i \in DOMAIN messages', IsAnswer(messages'[i], serving)
             PROVE  /\ i - n \in DOMAIN out /\ messages'[i] = out[i - n]
                    /\ i = Len(messages') /\ c.id = serving.id /\ serving.id # Unnumbered
                    /\ commands' = <<>> /\ c.do = Head(serving.todo)
  OBVIOUS
<1>1. /\ c = commands[1] /\ 1 \in DOMAIN commands
      /\ Len(commands) = 1 => commands' = <<>>
  BY CommandTaken
<1>2. /\ n \in Nat /\ Len(out) \in Nat /\ Len(messages') = n + Len(out)
      /\ i \in DOMAIN messages
              \/ (i - n \in DOMAIN out /\ messages'[i] = out[i - n])
      /\ \A k \in DOMAIN messages : messages'[k] = messages[k]
      /\ messages' \in Seq(Wire)
  BY MessagesAdded
<1>3. i \in Nat
  BY <1>2
<1> HIDE DEF n, c
<1>4. i - n \in DOMAIN out /\ messages'[i] = out[i - n]
  BY <1>2, NotYetAnswered
<1>5. out[i - n].type = "reply" /\ out[i - n].id = serving.id /\ serving.id # Unnumbered
  BY <1>4 DEF IsAnswer
<1>6. i - n = Len(out) /\ c.id = serving.id
  BY <1>4, <1>5 DEF c
<1>7. 1 = Len(commands) /\ c.do = Head(serving.todo)
  BY <1>5, <1>6, <1>1 DEF InqIInv, NumbersOK
<1>8. i = Len(messages')
  BY <1>2, <1>3, <1>6
<1>9. commands' = <<>>
  BY <1>1, <1>7
<1> QED BY <1>4, <1>5, <1>6, <1>7, <1>8, <1>9 DEF n, c

\* Such a step keeps the numbers in order.
LEMMA NumbersStay ==
    ASSUME InqIInv, commands # <<>>, commands' = Tail(commands), NEW out \in Seq(Wire),
           messages' = messages \o out, UNCHANGED <<serving, numbered>>,
           \A i \in DOMAIN out : out[i].type # "reply" \/
              (i = Len(out) /\ out[i].id = Head(commands).id /\ Head(commands).id # Unnumbered)
    PROVE  NumbersOK'
<1> DEFINE c == Head(commands)
<1>1. /\ c = commands[1] /\ 1 \in DOMAIN commands
      /\ \A i \in DOMAIN commands' :
            i + 1 \in DOMAIN commands /\ commands'[i] = commands[i + 1] /\ i \in Nat
      /\ Len(commands) \in Nat /\ Len(commands') = Len(commands) - 1
  BY CommandTaken
<1>2. /\ \A i \in DOMAIN messages' :
            i \in DOMAIN messages
              \/ (i - Len(messages) \in DOMAIN out /\ messages'[i] = out[i - Len(messages)])
      /\ \A i \in DOMAIN messages : messages'[i] = messages[i]
      /\ messages' \in Seq(Wire)
  BY MessagesAdded
<1> HIDE DEF c
<1>3. \A i \in DOMAIN messages' : messages'[i].type = "reply" => messages'[i].id <= numbered
  <2>1. c.id <= numbered
    BY <1>1 DEF InqIInv, NumbersOK
  <2>2. \A i \in DOMAIN messages : messages[i].type = "reply" => messages[i].id <= numbered
    BY DEF InqIInv, NumbersOK
  <2>3. \A i \in DOMAIN out : out[i].type = "reply" => out[i].id <= numbered
    BY <2>1 DEF c
  <2> QED BY <2>2, <2>3, <1>2
<1>4. \A i \in DOMAIN commands' : commands'[i].id <= numbered
  BY <1>1 DEF InqIInv, NumbersOK
<1>5. \A i \in DOMAIN commands' : serving.id # Unnumbered /\ commands'[i].id = serving.id =>
         i = Len(commands') /\ commands'[i].do = Head(serving.todo)
  <2> SUFFICES ASSUME NEW i \in DOMAIN commands', serving.id # Unnumbered,
                      commands'[i].id = serving.id
               PROVE  i = Len(commands') /\ commands'[i].do = Head(serving.todo)
    OBVIOUS
  <2>1. i + 1 \in DOMAIN commands /\ commands'[i] = commands[i + 1] /\ i \in Nat
    BY <1>1
  <2>2. i + 1 = Len(commands) /\ commands[i + 1].do = Head(serving.todo)
    BY <2>1 DEF InqIInv, NumbersOK
  <2> QED BY <2>1, <2>2, <1>1
<1>6. \A i \in DOMAIN messages' : IsAnswer(messages'[i], serving) =>
         i = Len(messages') /\ commands' = <<>>
  BY AnswerComesLast
<1>7. \A i \in DOMAIN messages' : i <= Len(messages')
  BY <1>2
<1>8. serving'.reply # <<>> => serving'.reply[1].type # "reply"
  BY NotYetAnswered
<1>9. \A i \in DOMAIN messages' : IsAnswer(messages'[i], serving') =>
         /\ commands' = <<>>
         /\ \A j \in DOMAIN messages' : j > i => messages'[j].type = "stopped"
  <2> SUFFICES ASSUME NEW i \in DOMAIN messages', IsAnswer(messages'[i], serving')
               PROVE  /\ commands' = <<>>
                      /\ \A j \in DOMAIN messages' : ~(j > i)
    OBVIOUS
  <2>1. i = Len(messages') /\ commands' = <<>>
    BY <1>6
  <2>2. Len(messages') \in Nat /\ \A j \in DOMAIN messages' : j \in Nat
    BY <1>2
  <2> QED BY <2>1, <2>2, <1>7
<1>10. /\ serving'.id # Unnumbered => serving'.id = numbered' /\ serving'.todo # <<>>
       /\ serving'.reply # <<>> => serving'.id # Unnumbered /\ Len(serving'.reply) = 1
  BY DEF InqIInv, NumbersOK
<1> QED BY <1>3, <1>4, <1>5, <1>8, <1>9, <1>10 DEF NumbersOK

\* What is not looked at shows nothing.
LEMMA NothingShown ==
    ASSUME InqIInv, commands # <<>>, Head(commands).do \notin Looking,
           commands' = Tail(commands), NEW out \in Seq(Wire),
           messages' = messages \o out, UNCHANGED <<answerer, serving, cached>>,
           \A i \in DOMAIN out : out[i].type # "reply" \/
              (i = Len(out) /\ out[i].id = Head(commands).id /\ Head(commands).id # Unnumbered)
    PROVE  AnswersOK' /\ CacheOK'
<1>1. \A i \in DOMAIN messages' : IsAnswer(messages'[i], serving) => Head(serving.todo) \notin Looking
  BY AnswerComesLast
<1>2. OfAStop \subseteq Looking /\ "stackTrace" \in Looking
  BY DEF OfAStop, Looking
<1>3. serving.reply # <<>> => serving.reply[1].type # "reply"
  BY NotYetAnswered
<1>4. AnswersOK'
  BY <1>1, <1>2, <1>3 DEF InqIInv, AnswersOK, Wanted
<1>5. CacheOK'
  BY <1>1, <1>2, <1>3 DEF InqIInv, CacheOK
<1> QED BY <1>4, <1>5

\* A resuming command finds the program at the stop that was told.
LEMMA ResumeKeeps == InqIInv /\ _cmd_resume => InqIInv'
<1> SUFFICES ASSUME InqIInv, _cmd_resume PROVE InqIInv' OBVIOUS
<1> DEFINE c == Head(commands)
           out == Reply(c.id, TRUE, stopCount)
<1>1. /\ commands # <<>> /\ c.do \in Resuming /\ commands' = Tail(commands)
      /\ messages' = messages \o out /\ isStopped' = FALSE
      /\ at' = IF at = "halted" THEN "waking" ELSE at
      /\ UNCHANGED <<answerer, stopCount, currentFrame, frames, clears, adapter, serving, numbered,
                     askerHistory, inquiries>>
  BY DEF _cmd_resume
<1>2. /\ heardOf # 0 /\ at = "halted" /\ heardOf = stopCount
      /\ ~OnItsWay(commands') /\ ~ToSend(serving)
      /\ moved = "no" => Jumping(serving)
  BY <1>1, MoverTaken DEF Movers
<1>3. /\ c = commands[1] /\ 1 \in DOMAIN commands /\ c \in [do : Verbs, id : Nat]
      /\ commands' \in Seq([do : Verbs, id : Nat])
      /\ \A i \in DOMAIN commands' :
            i + 1 \in DOMAIN commands /\ commands'[i] = commands[i + 1] /\ i \in Nat
  BY <1>1, CommandTaken
<1> HIDE DEF c
<1>4. stopCount \in Halts /\ c.id \in Nat
  BY <1>3 DEF InqIInv, InquiryTypeOK
<1>5. /\ out \in Seq(Wire)
      /\ \A i \in DOMAIN out : /\ out[i].type = "reply" /\ i = 1
                               /\ out[i].id = c.id /\ c.id # Unnumbered
      /\ c.id # Unnumbered => Len(out) = 1
  <2>1. IsReply(out, c.id)
    BY <1>4, ReplySent
  <2> HIDE DEF out
  <2> QED BY <2>1 DEF IsReply
<1> HIDE DEF out
<1>6. \A i \in DOMAIN out : out[i].type # "reply" \/
              (i = Len(out) /\ out[i].id = c.id /\ c.id # Unnumbered)
  BY <1>5
<1>7. /\ messages' \in Seq(Wire)
      /\ \A i \in DOMAIN messages : i \in DOMAIN messages' /\ messages'[i] = messages[i]
      /\ \A i \in DOMAIN messages' : messages'[i].type = "stopped" =>
            i \in DOMAIN messages /\ messages[i] = messages'[i]
  BY <1>1, <1>5, MessagesAdded
<1>8. InquiryTypeOK'
  BY <1>1, <1>2, <1>3, <1>7 DEF InqIInv, InquiryTypeOK, Wire, adapter, askerHistory
<1>9. ProgramOK'
  BY <1>1, <1>2 DEF InqIInv, ProgramOK
<1>10. StopsOK'
  <2>1. Announced(at', stopCount') = Announced(at, stopCount) /\ Announced(at, stopCount) = stopCount
    BY <1>1, <1>2 DEF Announced
  <2> QED BY <2>1, <1>1, <1>2, <1>7 DEF InqIInv, StopsOK, askerHistory
<1>11. MovesOK'
  <2>1. serving.kind # "goto"
    BY <1>1, <1>3 DEF InqIInv, MovesOK
  <2>2. moved # "no"
    BY <2>1, <1>2 DEF Jumping
  <2> QED BY <2>1, <2>2, <1>1, <1>2 DEF InqIInv, MovesOK, Outstanding, OnItsWay, askerHistory
<1>12. NumbersOK'
  BY <1>1, <1>5, <1>6, NumbersStay DEF c
<1>13. AnswersOK' /\ CacheOK'
  <2>1. c.do \notin Looking
    BY <1>1 DEF Looking, Resuming
  <2> QED BY <2>1, <1>1, <1>5, <1>6, NothingShown DEF c, adapter
<1>14. RequestOK' /\ RecordOK'
  BY <1>1, RequestKept, RecordKept DEF InqIInv, adapter
<1> QED BY <1>8, <1>9, <1>10, <1>11, <1>12, <1>13, <1>14 DEF InqIInv

\* Joining three sequences, the grouping does not matter.
LEMMA Grouped ==
    ASSUME NEW S, NEW p \in Seq(S), NEW q \in Seq(S), NEW r \in Seq(S)
    PROVE  (p \o q) \o r = p \o (q \o r)
BY ConcatAssociative

\* A jump that Python refuses is answered, and that is all.
RefusesJump ==
    /\ commands # <<>> /\ Head(commands).do = "goto" /\ commands' = Tail(commands)
    /\ messages' = messages \o Reply(Head(commands).id, FALSE, 0)
    /\ UNCHANGED <<answerer, programState, adapter, serving, numbered, askerHistory, inquiries>>

\* A jump that is refused leaves the program where it is.
LEMMA RefusedJumpKeeps == InqIInv /\ RefusesJump => InqIInv'
<1> SUFFICES ASSUME InqIInv, RefusesJump PROVE InqIInv' OBVIOUS
<1> DEFINE c == Head(commands)
           out == Reply(c.id, FALSE, 0)
<1>1. /\ messages' = messages \o out
      /\ commands # <<>> /\ c.do = "goto" /\ commands' = Tail(commands)
      /\ UNCHANGED <<answerer, programState, adapter, serving, numbered, askerHistory, inquiries>>
  BY DEF RefusesJump
<1>2. /\ heardOf # 0 /\ at = "halted" /\ heardOf = stopCount
      /\ ~OnItsWay(commands') /\ ~ToSend(serving)
      /\ moved = "no" => Jumping(serving)
  BY <1>1, MoverTaken DEF Movers
<1>3. /\ c = commands[1] /\ 1 \in DOMAIN commands /\ c \in [do : Verbs, id : Nat]
      /\ commands' \in Seq([do : Verbs, id : Nat])
      /\ \A i \in DOMAIN commands' :
            i + 1 \in DOMAIN commands /\ commands'[i] = commands[i + 1] /\ i \in Nat
  BY <1>1, CommandTaken
<1> HIDE DEF c
<1>4. c.id \in Nat /\ 0 \in Halts
  BY <1>3, InquiryBounds DEF Halts
<1>5. /\ out \in Seq(Wire)
      /\ \A i \in DOMAIN out : /\ out[i].type = "reply" /\ i = 1
                               /\ out[i].id = c.id /\ c.id # Unnumbered
      /\ c.id # Unnumbered => Len(out) = 1
  <2>1. IsReply(out, c.id)
    BY <1>4, ReplySent
  <2> HIDE DEF out
  <2> QED BY <2>1 DEF IsReply
<1> HIDE DEF out
<1>6. \A i \in DOMAIN out : out[i].type # "reply" \/
              (i = Len(out) /\ out[i].id = c.id /\ c.id # Unnumbered)
  BY <1>5
<1>7. /\ messages' \in Seq(Wire)
      /\ \A i \in DOMAIN messages : i \in DOMAIN messages' /\ messages'[i] = messages[i]
      /\ \A i \in DOMAIN messages' : messages'[i].type = "stopped" =>
            i \in DOMAIN messages /\ messages[i] = messages'[i]
  BY <1>1, <1>5, MessagesAdded
<1>8. InquiryTypeOK'
  BY <1>1, <1>3, <1>7 DEF InqIInv, InquiryTypeOK, Wire, adapter, askerHistory, programState
<1>9. ProgramOK'
  BY <1>1, ProgramKept DEF InqIInv
<1>10. StopsOK'
  <2>1. UNCHANGED <<at, stopCount, heardOf>>
    BY <1>1 DEF programState, askerHistory
  <2> QED BY <2>1, <1>7 DEF InqIInv, StopsOK
<1>11. MovesOK'
  <2>1. Jumping(serving) => serving.id # Unnumbered
    <3>1. Jumping(serving) => Head(serving.todo) = "goto"
      BY DEF Jumping, InqIInv, RequestOK, Simple
    <3> QED BY <3>1, <1>2 DEF ToSend, Movers, Jumping
  <2>2. \A i \in DOMAIN commands' : commands'[i].do \notin Movers
    BY <1>2 DEF OnItsWay
  <2>3. \A i, j \in DOMAIN messages' :
           messages'[i].type = "stopped" => heardOf # Announced(at, stopCount)
    BY <1>7 DEF InqIInv, StopsOK
  <2>4. heardOf = Announced(at, stopCount)
    BY <1>2 DEF Announced
  <2> QED BY <2>1, <2>2, <2>3, <2>4, <1>1, <1>2 DEF InqIInv, MovesOK, Outstanding, askerHistory, programState, Movers
<1>12. NumbersOK'
  BY <1>1, <1>5, <1>6, NumbersStay DEF c
<1>13. AnswersOK' /\ CacheOK'
  <2>1. c.do \notin Looking
    BY <1>1 DEF Looking
  <2> QED BY <2>1, <1>1, <1>5, <1>6, NothingShown DEF c, adapter
<1>14. RequestOK' /\ RecordOK'
  BY <1>1, RequestKept, RecordKept DEF InqIInv, adapter
<1> QED BY <1>8, <1>9, <1>10, <1>11, <1>12, <1>13, <1>14 DEF InqIInv

\* A jump that succeeds is a stop, announced before the reply.
Jumps ==
    /\ commands # <<>> /\ Head(commands).do = "goto" /\ commands' = Tail(commands)
    /\ at = "halted" /\ stopCount < MaxHalts
    /\ stopCount' = stopCount + 1 /\ currentFrame' = stopCount + 1 /\ frames' = stopCount + 1
    /\ isStopped' = TRUE
    /\ messages' = messages \o <<[type |-> "stopped", of |-> stopCount + 1]>>
                            \o Reply(Head(commands).id, TRUE, stopCount + 1)
    /\ UNCHANGED <<answerer, at, clears, adapter, serving, numbered, askerHistory, inquiries>>

\* A jump is a stop of its own, announced before the reply to the jump.
LEMMA JumpKeeps == InqIInv /\ Jumps => InqIInv'
<1> SUFFICES ASSUME InqIInv, Jumps PROVE InqIInv' OBVIOUS
<1> DEFINE c == Head(commands)
           s == stopCount + 1
           m == [type |-> "stopped", of |-> s]
           r == Reply(c.id, TRUE, s)
           out == <<m>> \o r
<1>1. /\ commands # <<>> /\ c.do = "goto" /\ commands' = Tail(commands)
      /\ at = "halted" /\ stopCount < MaxHalts
      /\ stopCount' = s /\ currentFrame' = s /\ frames' = s /\ isStopped' = TRUE
      /\ UNCHANGED <<answerer, at, clears, adapter, serving, numbered, askerHistory, inquiries>>
  BY DEF Jumps
<1>2. /\ heardOf # 0 /\ at = "halted" /\ heardOf = stopCount
      /\ ~OnItsWay(commands') /\ ~ToSend(serving)
      /\ moved = "no" => Jumping(serving)
  BY <1>1, MoverTaken DEF Movers
<1>3. /\ c = commands[1] /\ 1 \in DOMAIN commands /\ c \in [do : Verbs, id : Nat]
      /\ commands' \in Seq([do : Verbs, id : Nat])
  BY <1>1, CommandTaken
<1>4. c.id \in Nat /\ s \in Halts /\ stopCount \in Nat /\ messages \in Seq(Wire) /\ heardOf \in Nat
  BY <1>1, <1>3, InquiryBounds DEF Halts, InqIInv, InquiryTypeOK, Wire
<1>5. m \in Wire /\ m.type = "stopped" /\ m.of = s
  BY <1>4 DEF Wire, Events, Notices
<1>6. /\ r \in Seq(Wire)
      /\ \A i \in DOMAIN r : r[i].type = "reply" /\ i = 1 /\ r[i].id = c.id /\ c.id # Unnumbered
      /\ c.id # Unnumbered => Len(r) = 1
  <2>1. IsReply(r, c.id)
    BY <1>4, ReplySent
  <2> HIDE DEF r
  <2> QED BY <2>1 DEF IsReply
<1>7. messages' = (messages \o <<m>>) \o r
  BY DEF Jumps
<1>w. s = stopCount + 1
  OBVIOUS
<1> HIDE DEF c, m, r, s
<1>8. messages' = messages \o out
  <2> DEFINE p == <<m>>
  <2>1. p \in Seq(Wire)
    BY <1>5
  <2>2. messages' = (messages \o p) \o r
    BY <1>7
  <2> HIDE DEF p
  <2>4. messages \in Seq(Wire) /\ r \in Seq(Wire)
    BY <1>4, <1>6
  <2>5. (messages \o p) \o r = messages \o (p \o r)
    BY <2>1, <2>4, Grouped
  <2>3. messages' = messages \o (p \o r)
    BY ONLY <2>2, <2>5, Zenon
  <2> QED BY <2>3 DEF p
<1>9. /\ out \in Seq(Wire) /\ 1 \in DOMAIN out /\ out[1] = m
      /\ \A i \in DOMAIN out : i = 1 \/ (i = 2 /\ out[i].type = "reply" /\ Len(out) = 2
                                           /\ out[i].id = c.id /\ c.id # Unnumbered)
  <2>1. <<m>> \in Seq(Wire) /\ Len(<<m>>) = 1 /\ <<m>>[1] = m
    BY <1>5
  <2> DEFINE p == <<m>>
  <2>2. p \in Seq(Wire) /\ Len(p) = 1 /\ p[1] = m
    BY <2>1
  <2> HIDE DEF p
  <2>3. /\ p \o r \in Seq(Wire) /\ Len(p \o r) = 1 + Len(r) /\ (p \o r)[1] = m
        /\ \A i \in DOMAIN (p \o r) :
             i \in DOMAIN p \/ (i - 1 \in DOMAIN r /\ (p \o r)[i] = r[i - 1])
    BY <2>2, <1>6, Joined
  <2>4. DOMAIN p = {1} /\ 1 \in DOMAIN (p \o r) /\ Len(r) \in Nat
    BY <2>2, <2>3, <1>6
  <2>5. ASSUME NEW i \in DOMAIN (p \o r), i # 1
        PROVE  i = 2 /\ (p \o r)[i].type = "reply" /\ Len(p \o r) = 2
               /\ (p \o r)[i].id = c.id /\ c.id # Unnumbered
    <3>1. i - 1 \in DOMAIN r /\ (p \o r)[i] = r[i - 1] /\ i \in Nat
      BY <2>3, <2>4, <2>5
    <3>2. i - 1 = 1 /\ r[i - 1].type = "reply" /\ r[i - 1].id = c.id /\ c.id # Unnumbered
      BY <3>1, <1>6
    <3> QED BY <3>1, <3>2, <1>6, <2>3
  <2> QED BY <2>3, <2>4, <2>5 DEF p
<1> HIDE DEF out
<1>10. \A i \in DOMAIN out : out[i].type # "reply" \/
              (i = Len(out) /\ out[i].id = c.id /\ c.id # Unnumbered)
  BY <1>9, <1>5
<1> DEFINE n == Len(messages)
<1>11. /\ messages' \in Seq(Wire) /\ n \in Nat
       /\ \A i \in DOMAIN messages : i \in DOMAIN messages' /\ messages'[i] = messages[i]
       /\ \A i \in DOMAIN messages' : i \in DOMAIN messages
             \/ (i - n \in DOMAIN out /\ messages'[i] = out[i - n])
       /\ n + 1 \in DOMAIN messages' /\ messages'[n + 1] = m
       /\ \A i \in DOMAIN messages' : i \in Nat
  <2>1. /\ messages' \in Seq(Wire) /\ n \in Nat
        /\ \A i \in DOMAIN messages : i \in DOMAIN messages' /\ messages'[i] = messages[i]
        /\ \A i \in DOMAIN messages' : i \in DOMAIN messages
             \/ (i - n \in DOMAIN out /\ messages'[i] = out[i - n])
        /\ \A i \in DOMAIN out : n + i \in DOMAIN messages' /\ messages'[n + i] = out[i]
    BY <1>1, <1>8, <1>9, MessagesAdded
  <2> HIDE DEF n
  <2> QED BY <2>1, <1>9
<1>q. \A i \in DOMAIN messages' : IsAnswer(messages'[i], serving) =>
          i - n \in DOMAIN out /\ messages'[i] = out[i - n]
  BY <1>1, <1>8, <1>9, <1>10, AnswerComesLast DEF c
<1> HIDE DEF n
<1>12. Announced(at, stopCount) = heardOf /\ Announced(at', stopCount') = s
  BY <1>1, <1>2, <1>w DEF Announced
<1>13. \A i \in DOMAIN messages : messages[i].type # "stopped"
  BY <1>12 DEF InqIInv, StopsOK
<1>14. \A i \in DOMAIN messages' : messages'[i].type = "stopped" =>
          i = n + 1 /\ messages'[i] = m
  <2> SUFFICES ASSUME NEW i \in DOMAIN messages', messages'[i].type = "stopped"
               PROVE  i = n + 1
    BY <1>11
  <2>1. i - n \in DOMAIN out /\ messages'[i] = out[i - n] /\ i \in Nat
    BY <1>11, <1>13
  <2>2. i - n = 1
    BY <2>1, <1>9
  <2> QED BY <2>1, <2>2, <1>11
<1>15. \A i \in DOMAIN messages' : IsAnswer(messages'[i], serving) => i = n + 2
  <2> SUFFICES ASSUME NEW i \in DOMAIN messages', IsAnswer(messages'[i], serving)
               PROVE  i = n + 2
    OBVIOUS
  <2>1. i - n \in DOMAIN out /\ messages'[i] = out[i - n] /\ i \in Nat
    BY <1>q, <1>11
  <2>2. out[i - n].type # "stopped"
    BY <2>1 DEF IsAnswer
  <2>3. i - n = 2
    BY <2>1, <2>2, <1>9, <1>5
  <2> QED BY <2>1, <2>3, <1>11
<1>16. InquiryTypeOK'
  BY <1>1, <1>3, <1>4, <1>11, <1>w DEF InqIInv, InquiryTypeOK, Wire, adapter, askerHistory
<1>17. ProgramOK'
  BY <1>1, <1>2, <1>w, <1>4 DEF InqIInv, ProgramOK
<1>18. StopsOK'
  <2>1. heardOf' = heardOf /\ heardOf + 1 = s /\ at' = "halted" /\ heardOf # s
    BY <1>1, <1>2, <1>w, <1>4 DEF askerHistory
  <2> QED BY <2>1, <1>1, <1>12, <1>14, <1>11, <1>5, <1>4 DEF StopsOK
<1>19. MovesOK'
  <2>1. Jumping(serving) => serving.id # Unnumbered
    <3>1. Jumping(serving) => Head(serving.todo) = "goto"
      BY DEF Jumping, InqIInv, RequestOK, Simple
    <3> QED BY <3>1, <1>2 DEF ToSend, Movers, Jumping
  <2>2. \A i \in DOMAIN commands' : commands'[i].do \notin Movers
    BY <1>2 DEF OnItsWay
  <2>3. \A i, j \in DOMAIN messages' :
           messages'[i].type = "stopped" /\ IsAnswer(messages'[j], serving') => i < j
    BY <1>1, <1>14, <1>15, <1>11
  <2> QED BY <2>1, <2>2, <2>3, <1>1, <1>2 DEF InqIInv, MovesOK, Outstanding, askerHistory, Movers
<1>20. NumbersOK'
  BY <1>1, <1>8, <1>9, <1>10, NumbersStay DEF c
<1>21. AnswersOK' /\ CacheOK'
  <2>1. c.do \notin Looking
    BY <1>1 DEF Looking
  <2> QED BY <1>1, <2>1, <1>8, <1>9, <1>10, NothingShown DEF c, adapter
<1>22. RequestOK' /\ RecordOK'
  BY <1>1, RequestKept, RecordKept DEF InqIInv, adapter
<1> QED BY <1>16, <1>17, <1>18, <1>19, <1>20, <1>21, <1>22 DEF InqIInv

\* A jump is made or refused.
LEMMA GotoKeeps == InqIInv /\ _cmd_goto => InqIInv'
<1> SUFFICES ASSUME InqIInv, _cmd_goto PROVE InqIInv' OBVIOUS
<1>1. RefusesJump \/ Jumps
  BY DEF _cmd_goto, RefusesJump, Jumps, programState
<1> QED BY <1>1, RefusedJumpKeeps, JumpKeeps

\* What an answerer takes a request for.
Takes(kind, todo) ==
    /\ kind \in Simple \union Agents
    /\ kind \in Simple \/ answerer = "launcher" => todo = <<kind>>
    /\ kind \in Agents /\ answerer = "adapter" =>
         /\ todo \in Seq(Verbs)
         /\ \A i \in DOMAIN todo : todo[i] \in {"stackTrace", "evaluate", "variables"}

Asks(kind, todo) ==
    /\ CanAsk(kind) /\ Asked(kind, todo)
    /\ record' = IF kind = "continue" /\ answerer = "adapter"
                 THEN [record EXCEPT !.stopped = FALSE] ELSE record
    /\ kind = "agentSnapshot" /\ answerer = "adapter" => record.stopped

\* A request that is taken has nothing on its way yet.
LEMMA AskKeeps ==
    ASSUME NEW kind, NEW todo
    PROVE  InqIInv /\ Takes(kind, todo) /\ Asks(kind, todo) => InqIInv'
<1> SUFFICES ASSUME InqIInv, Takes(kind, todo), Asks(kind, todo) PROVE InqIInv' OBVIOUS
<1>1. /\ serving = NoInquiry /\ inquiries < MaxInquiries /\ inquiries' = inquiries + 1
      /\ moved' = IF kind \in Resuming THEN kind ELSE moved
      /\ UNCHANGED <<answerer, programState, wire, cached, numbered, heardOf>>
  BY DEF Asks, CanAsk, Asked
<1>2. kind \in Resuming \union {"goto"} => heardOf # 0 /\ moved = "no"
  BY DEF Asks, CanAsk
<1>3. serving' = [NoInquiry EXCEPT !.kind = kind, !.todo = todo, !.reason = record.reason,
                              !.heardOf = heardOf, !.moved = moved]
  BY DEF Asks, Asked
<1>4. /\ serving'.kind = kind /\ serving'.todo = todo /\ serving'.got = <<>>
      /\ serving'.id = Unnumbered /\ serving'.reply = <<>> /\ serving'.reason = record.reason
      /\ serving'.heardOf = heardOf /\ serving'.moved = moved /\ serving'.late = FALSE
      /\ serving' # NoInquiry
  <2>1. kind # "none"
    BY DEF Takes, Simple, Agents
  <2> QED BY <1>3, <2>1 DEF NoInquiry
<1>5. serving.kind = "none" /\ ~ToSend(serving) /\ ~Jumping(serving) /\ serving.todo = <<>>
  BY <1>1 DEF NoInquiry, ToSend, Jumping
<1>6. /\ record.reason \in Halts /\ record \in [stopped : BOOLEAN, reason : Halts]
      /\ heardOf \in Halts /\ moved \in Resuming \union {"no"}
  BY DEF InqIInv, InquiryTypeOK
<1>7. /\ todo \in Seq(Verbs) /\ kind \in Simple \union Agents
      /\ todo # <<>> => todo[1] = Head(todo) /\ 1 \in DOMAIN todo
      /\ Simple \union Agents \subseteq Verbs
  <2>1. Simple \union Agents \subseteq Verbs
    BY DEF Simple, Agents, Verbs, Looking, Resuming
  <2>2. kind \in Simple \union Agents
    BY DEF Takes
  <2>3. \/ kind \in Simple \/ answerer = "launcher"
        \/ kind \in Agents /\ answerer = "adapter"
    BY <2>2 DEF InqIInv, InquiryTypeOK
  <2>4. \A v \in Verbs : <<v>> \in Seq(Verbs)
    OBVIOUS
  <2>5. todo \in Seq(Verbs)
    BY <2>1, <2>2, <2>3, <2>4 DEF Takes
  <2> QED BY <2>1, <2>2, <2>5
<1>8. /\ record' \in [stopped : BOOLEAN, reason : Halts] /\ record'.reason = record.reason
      /\ record'.stopped => record.stopped /\ ~(kind = "continue" /\ answerer = "adapter")
  BY <1>6 DEF Asks
<1>9. InquiryTypeOK'
  <2>1. serving' = [kind |-> kind, todo |-> todo, got |-> <<>>, id |-> Unnumbered, reply |-> <<>>,
                    reason |-> record.reason, heardOf |-> heardOf, moved |-> moved, late |-> FALSE]
    BY <1>3 DEF NoInquiry
  <2>2. serving' \in Servings
    BY <2>1, <1>6, <1>7 DEF Servings, Unnumbered
  <2>3. moved' \in Resuming \union {"no"}
    BY <1>1, <1>6
  <2>6. inquiries \in 0..MaxInquiries /\ MaxInquiries \in Nat
    BY InquiryBounds DEF InqIInv, InquiryTypeOK
  <2>4. inquiries' \in 0..MaxInquiries
    BY <2>6, <1>1
  <2>5. UNCHANGED <<answerer, at, stopCount, currentFrame, frames, isStopped, clears, commands, messages,
                    cached, numbered, heardOf>>
    BY <1>1 DEF programState, wire
  <2> QED BY <2>5, <1>8, <2>2, <2>3, <2>4 DEF InqIInv, InquiryTypeOK
<1>10. ProgramOK' /\ StopsOK'
  BY <1>1, ProgramKept, StopsKept DEF InqIInv, wire
<1>11. MovesOK'
  <2>1. UNCHANGED <<at, stopCount, heardOf, commands, messages>>
    BY <1>1 DEF programState, wire
  <2>2. kind \in Movers => heardOf # 0 /\ moved = "no"
    BY <1>2 DEF Movers
  <2>3. ToSend(serving') => kind \in Movers
    <3>1. \A v \in {"stackTrace", "evaluate", "variables"} : v \notin Movers
      BY DEF Movers, Resuming
    <3>2. CASE kind \in Simple \/ answerer = "launcher"
      <4>1. serving'.todo = <<kind>>
        BY <3>2, <1>4 DEF Takes
      <4> QED BY <4>1 DEF ToSend
    <3>3. CASE kind \in Agents /\ answerer = "adapter"
      <4>1. todo # <<>> => Head(todo) \in {"stackTrace", "evaluate", "variables"}
        BY <3>3, <1>7 DEF Takes
      <4> QED BY <4>1, <3>1, <1>4 DEF ToSend
    <3>4. answerer = "launcher" \/ answerer = "adapter"
      BY DEF InqIInv, InquiryTypeOK
    <3>5. kind \in Simple \/ kind \in Agents
      BY <1>7
    <3> QED BY <3>2, <3>3, <3>4, <3>5
  <2>4. moved = "no" => ~OnItsWay(commands)
    BY <1>5 DEF InqIInv, MovesOK, Outstanding
  <2>5. moved = "no" /\ heardOf # 0 => at = "halted" /\ heardOf = stopCount
    BY <1>5 DEF InqIInv, MovesOK
  <2>6. OnItsWay(commands) => heardOf # 0 /\ at = "halted" /\ heardOf = stopCount
    BY DEF InqIInv, MovesOK, Outstanding
  <2>7. kind = "goto" => todo = <<kind>> /\ Jumping(serving')
    <3>1. kind = "goto" => kind \in Simple
      BY DEF Simple
    <3>2. kind = "goto" => todo = <<kind>>
      BY <3>1 DEF Takes
    <3> QED BY <3>2, <1>4 DEF Jumping
  <2>8. moved' = "no" => moved = "no" /\ kind \notin Resuming
    BY <1>1 DEF Resuming
  <2>9. Outstanding(serving', commands') =>
           /\ heardOf # 0 /\ at = "halted" /\ heardOf = stopCount
           /\ moved' = "no" => Jumping(serving')
    BY <2>1, <2>2, <2>3, <2>4, <2>5, <2>6, <2>7, <2>8 DEF Outstanding, Movers
  <2>10. ToSend(serving') => ~OnItsWay(commands')
    BY <2>1, <2>2, <2>3, <2>4
  <2>11. \A i \in DOMAIN commands' : commands'[i].do = "goto" /\ moved' = "no" => FALSE
    BY <2>1, <2>4, <2>8 DEF OnItsWay, Movers
  <2>12. moved' # "no" => heardOf' # 0
    BY <1>1, <1>2 DEF InqIInv, MovesOK
  <2>13. kind = "goto" => /\ at = "halted" /\ heardOf # 0
                         /\ \A i \in DOMAIN commands : commands[i].do \notin Resuming
    BY <2>2, <2>4, <2>5 DEF Movers, OnItsWay
  <2>14. \A i, j \in DOMAIN messages' : ~IsAnswer(messages'[j], serving')
    BY <1>4 DEF IsAnswer
  <2>15. \A i, j \in DOMAIN commands' :
            commands'[i].do \in Movers /\ commands'[j].do \in Movers => i = j
    BY <2>1 DEF InqIInv, MovesOK
  <2> QED
    BY <1>4, <2>1, <2>5, <2>8, <2>9, <2>10, <2>11, <2>12, <2>13, <2>14, <2>15 DEF MovesOK
<1>12. NumbersOK'
  BY <1>1, <1>4 DEF InqIInv, NumbersOK, IsAnswer, wire
<1>13. RequestOK'
  <2>1. heardOf \in Nat
    BY <1>6 DEF Halts
  <2>2. kind \in OfAStop => kind \notin Resuming
    BY DEF OfAStop, Resuming
  <2>3. kind # "none"
    BY DEF Takes, Simple, Agents
  <2> QED BY <1>1, <1>4, <2>1, <2>2, <2>3 DEF RequestOK, Takes
<1>14. AnswersOK' /\ CacheOK'
  <2>1. serving'.reply = <<>> /\ DOMAIN serving'.got = {} /\ \A m : ~IsAnswer(m, serving')
    BY <1>4 DEF IsAnswer
  <2> QED BY <2>1 DEF AnswersOK, CacheOK
<1>15. RecordOK'
  <2> SUFFICES ASSUME answerer = "adapter" PROVE RecordOK'
    BY <1>1 DEF RecordOK
  <2>1. /\ record.reason = heardOf
        /\ record.stopped => heardOf # 0 /\ moved # "continue"
    BY DEF InqIInv, RecordOK
  <2>2. record'.stopped => heardOf # 0 /\ moved' # "continue"
    BY <2>1, <1>8, <1>1
  <2>3. kind = "agentSnapshot" => record.stopped
    BY DEF Asks
  <2> QED BY <2>1, <2>2, <2>3, <1>1, <1>4, <1>8 DEF RecordOK
<1> QED BY <1>9, <1>10, <1>11, <1>12, <1>13, <1>14, <1>15 DEF InqIInv

\* The adapter splits an agent's request into the commands of its parts.
LEMMA AskAdapterKeeps ==
    ASSUME NEW kind \in Simple \union Agents
    PROVE  InqIInv /\ AskAdapter(kind) => InqIInv'
<1> SUFFICES ASSUME InqIInv, AskAdapter(kind) PROVE InqIInv' OBVIOUS
<1>1. Asks(kind, Plan(kind))
  BY DEF AskAdapter, Asks
<1>2. Takes(kind, Plan(kind))
  <2>1. CASE kind \in Simple
    <3>1. kind \notin Agents
      BY <2>1 DEF Simple, Agents
    <3>2. Plan(kind) = <<kind>>
      BY <2>1, <3>1 DEF Plan, Agents
    <3> QED BY <2>1, <3>1, <3>2 DEF Takes
  <2>2. CASE kind = "agentSnapshot"
    <3>1. Plan(kind) = <<"stackTrace">> /\ kind \notin Simple /\ answerer = "adapter"
      BY <2>2 DEF Plan, Simple, AskAdapter
    <3>2. <<"stackTrace">> \in Seq(Verbs)
      BY DEF Verbs, Looking
    <3> QED BY <3>1, <3>2 DEF Takes
  <2>3. CASE kind \in {"agentEval", "agentInspect"}
    <3>1. /\ Plan(kind) = Append(_resolve_frame_id_by_index, "evaluate") /\ kind \notin Simple
          /\ answerer = "adapter"
      BY <2>3 DEF Plan, Simple, AskAdapter
    <3>2. "evaluate" \in Verbs /\ "stackTrace" \in Verbs
      BY DEF Verbs, Looking
    <3> DEFINE q == _resolve_frame_id_by_index
    <3>3. q \in Seq(Verbs) /\ \A i \in 1..Len(q) : q[i] = "stackTrace"
      <4>1. q = <<>> \/ q = <<"stackTrace">>
        BY DEF _resolve_frame_id_by_index
      <4> HIDE DEF q
      <4>2. CASE q = <<>>
        BY <4>2
      <4>3. CASE q = <<"stackTrace">>
        BY <4>3, <3>2
      <4> QED BY <4>1, <4>2, <4>3
    <3> HIDE DEF q
    <3>5. /\ Append(q, "evaluate") \in Seq(Verbs) /\ Len(Append(q, "evaluate")) = Len(q) + 1
          /\ \A i \in 1..Len(q) : Append(q, "evaluate")[i] = "stackTrace"
          /\ Append(q, "evaluate")[Len(q) + 1] = "evaluate"
      BY <3>2, <3>3, AddedLast
    <3>4. Plan(kind) \in Seq(Verbs)
          /\ \A i \in DOMAIN Plan(kind) : Plan(kind)[i] \in {"stackTrace", "evaluate", "variables"}
      BY <3>1, <3>3, <3>5 DEF q
    <3> QED BY <3>1, <3>4 DEF Takes
  <2> QED BY <2>1, <2>2, <2>3 DEF Agents
<1> QED BY <1>1, <1>2, AskKeeps

\* The launcher is asked with one command each.
LEMMA AskLauncherKeeps ==
    ASSUME NEW kind \in Simple \union Agents
    PROVE  InqIInv /\ AskLauncher(kind) => InqIInv'
<1> SUFFICES ASSUME InqIInv, AskLauncher(kind) PROVE InqIInv' OBVIOUS
<1>1. Asks(kind, <<kind>>) /\ Takes(kind, <<kind>>)
  BY DEF AskLauncher, Asks, Takes
<1> QED BY <1>1, AskKeeps

\* A snapshot is refused at once when the record says the thread runs.
LEMMA RefuseSnapshotKeeps == InqIInv /\ RefuseSnapshot => InqIInv'
<1> SUFFICES ASSUME InqIInv, RefuseSnapshot PROVE InqIInv' OBVIOUS
<1>1. UNCHANGED <<answerer, programState, wire, adapter, serving, numbered, askerHistory>>
  BY DEF RefuseSnapshot
<1>2. InquiryTypeOK'
  <2>1. inquiries' \in 0..MaxInquiries
    <3>1. inquiries \in 0..MaxInquiries /\ MaxInquiries \in Nat
      BY InquiryBounds DEF InqIInv, InquiryTypeOK
    <3> QED BY <3>1 DEF RefuseSnapshot, CanAsk
  <2> QED BY <1>1, <2>1 DEF InqIInv, InquiryTypeOK, programState, wire, adapter, askerHistory
<1> QED
  BY <1>1, <1>2, ProgramKept, StopsKept, MovesKept, NumbersKept, RequestKept, AnswersKept,
     CacheKept, RecordKept DEF InqIInv, wire, adapter, askerHistory

\* An answer has been put together, and nobody waits any more.
LEMMA TellKeeps == InqIInv /\ Tell => InqIInv'
<1> SUFFICES ASSUME InqIInv, Tell PROVE InqIInv' OBVIOUS
<1>1. /\ serving.todo = <<>> /\ serving' = NoInquiry
      /\ UNCHANGED <<answerer, programState, wire, adapter, numbered, askerHistory, inquiries>>
  BY DEF Tell, Answered
<1>2. /\ NoInquiry.todo = <<>> /\ NoInquiry.id = Unnumbered /\ NoInquiry.reply = <<>> /\ NoInquiry.kind = "none"
      /\ NoInquiry.got = <<>> /\ NoInquiry.heardOf = 0
  BY DEF NoInquiry
<1>3. NoInquiry \in Servings
  BY InquiryBounds DEF NoInquiry, Servings, Halts, Unnumbered
<1>4. InquiryTypeOK'
  BY <1>1, <1>3 DEF InqIInv, InquiryTypeOK, programState, wire, adapter, askerHistory
<1>5. ProgramOK' /\ StopsOK'
  BY <1>1, ProgramKept, StopsKept DEF InqIInv, wire, askerHistory
<1>6. MovesOK'
  <2>1. ~ToSend(serving') /\ ~Jumping(serving) /\ serving'.kind = "none"
    BY <1>1, <1>2 DEF ToSend, Jumping
  <2>2. OnItsWay(commands) => moved # "no"
    BY <2>1 DEF InqIInv, MovesOK, Outstanding
  <2>3. \A i \in DOMAIN commands : commands[i].do = "goto" => moved # "no"
    BY <2>2 DEF OnItsWay, Movers
  <2> QED BY <1>1, <2>1, <2>2, <2>3 DEF InqIInv, MovesOK, Outstanding, programState, wire, askerHistory
<1>7. NumbersOK'
  BY <1>1, <1>2 DEF InqIInv, NumbersOK, IsAnswer, wire
<1>8. RequestOK'
  <2>1. heardOf \in Nat /\ "none" \notin Simple /\ "none" \notin Agents /\ "none" \notin OfAStop
    BY DEF InqIInv, InquiryTypeOK, Halts, Simple, Agents, OfAStop
  <2> QED BY <1>1, <1>2, <2>1 DEF RequestOK, askerHistory
<1>9. AnswersOK' /\ CacheOK'
  <2>1. serving'.reply = <<>> /\ DOMAIN serving'.got = {} /\ \A m : ~IsAnswer(m, serving')
    BY <1>1, <1>2 DEF IsAnswer
  <2> QED BY <2>1 DEF AnswersOK, CacheOK
<1>10. RecordOK'
  BY <1>1, <1>2 DEF InqIInv, RecordOK, adapter, askerHistory
<1> QED BY <1>4, <1>5, <1>6, <1>7, <1>8, <1>9, <1>10 DEF InqIInv

\* The shape of a request.
LEMMA ServingShape ==
    ASSUME InqIInv
    PROVE  /\ serving \in Servings
           /\ serving.todo \in Seq(Verbs) /\ serving.id \in Nat
           /\ serving.todo # <<>> => /\ Head(serving.todo) \in Verbs
                                     /\ Head(serving.todo) = serving.todo[1]
                                     /\ 1 \in DOMAIN serving.todo
           /\ serving.kind \in Simple \union Agents \union {"none"}
<1>1. serving \in Servings
  BY DEF InqIInv, InquiryTypeOK
<1>2. /\ serving.todo \in Seq(Verbs) /\ serving.id \in Nat
      /\ serving.kind \in Simple \union Agents \union {"none"}
  BY <1>1 DEF Servings
<1> QED BY <1>1, <1>2

\* What a sequence holds is of its set.
LEMMA Elements == ASSUME NEW S, NEW q \in Seq(S) PROVE \A i \in DOMAIN q : q[i] \in S
OBVIOUS

\* A command that is sent leaves the rest of the request alone.
LEMMA ServingSent ==
    ASSUME NEW s \in Servings, NEW i \in Nat, NEW t, t = [s EXCEPT !.id = i]
    PROVE  /\ t \in Servings /\ t.kind = s.kind /\ t.got = s.got /\ t.reply = s.reply
           /\ t.reason = s.reason /\ t.heardOf = s.heardOf /\ t.moved = s.moved /\ t.late = s.late
           /\ t.todo = s.todo /\ t.id = i
BY DEF Servings

\* A request that is over leaves the rest of itself alone.
LEMMA ServingOver ==
    ASSUME NEW s \in Servings, NEW t, t = [s EXCEPT !.todo = <<>>]
    PROVE  /\ t \in Servings /\ t.kind = s.kind /\ t.got = s.got /\ t.reply = s.reply
           /\ t.reason = s.reason /\ t.heardOf = s.heardOf /\ t.moved = s.moved /\ t.late = s.late
           /\ t.todo = <<>> /\ t.id = s.id
<1>1. <<>> \in Seq(Verbs)
  OBVIOUS
<1> QED BY <1>1 DEF Servings

\* The next command of a request takes a number nobody has had.
LEMMA SendKeeps == InqIInv /\ Send => InqIInv'
<1> SUFFICES ASSUME InqIInv, Send PROVE InqIInv' OBVIOUS
<1> DEFINE command == Head(serving.todo)
           waits == Waits(command) \/ answerer = "launcher"
           number == IF waits THEN numbered + 1 ELSE Unnumbered
           c == [do |-> command, id |-> number]
           n == Len(commands)
<1>1. /\ serving.todo # <<>> /\ serving.id = Unnumbered
      /\ commands' = Append(commands, c)
      /\ UNCHANGED <<answerer, programState, messages, adapter, askerHistory, inquiries>>
  BY DEF Send
<1>2. /\ waits => numbered' = numbered + 1 /\ serving' = [serving EXCEPT !.id = numbered + 1]
      /\ ~waits => numbered' = numbered /\ serving' = [serving EXCEPT !.todo = <<>>]
  BY DEF Send
<1>3. /\ serving \in Servings /\ command \in Verbs /\ command = serving.todo[1]
      /\ serving.kind \in Simple \union Agents \union {"none"}
      /\ numbered \in Nat /\ commands \in Seq([do : Verbs, id : Nat])
  BY <1>1, ServingShape DEF InqIInv, InquiryTypeOK
<1>4. /\ c \in [do : Verbs, id : Nat] /\ c.do = command /\ c.id = number /\ number \in Nat
      /\ waits => number = numbered + 1 /\ number # Unnumbered
      /\ ~waits => number = Unnumbered
  BY <1>3 DEF Unnumbered
<1>5. ~waits => command = "next" /\ answerer = "adapter"
  BY DEF Waits, InqIInv, InquiryTypeOK
<1>w. waits \/ ~waits
  OBVIOUS
<1>6. /\ serving' \in Servings /\ serving'.kind = serving.kind /\ serving'.got = serving.got
      /\ serving'.reply = serving.reply /\ serving'.reason = serving.reason
      /\ serving'.heardOf = serving.heardOf /\ serving'.moved = serving.moved /\ serving'.late = serving.late
      /\ waits => serving'.todo = serving.todo /\ serving'.id = numbered + 1
      /\ ~waits => serving'.todo = <<>> /\ serving'.id = Unnumbered
      /\ serving' # NoInquiry
  <2>1. CASE waits
    <3>1. serving' = [serving EXCEPT !.id = numbered + 1]
      BY <2>1, <1>2
    <3>2. numbered + 1 \in Nat /\ serving \in Servings
      BY <1>3
    <3>4. /\ serving' \in Servings /\ serving'.kind = serving.kind /\ serving'.got = serving.got
          /\ serving'.reply = serving.reply /\ serving'.reason = serving.reason
          /\ serving'.heardOf = serving.heardOf /\ serving'.moved = serving.moved
          /\ serving'.late = serving.late
          /\ serving'.todo = serving.todo /\ serving'.id = numbered + 1
      BY ONLY <3>1, <3>2, ServingSent
    <3>3. serving' # NoInquiry
      BY <3>4, <1>1 DEF NoInquiry
    <3> QED BY <3>4, <3>3, <2>1
  <2>2. CASE ~waits
    <3>1. serving' = [serving EXCEPT !.todo = <<>>]
      BY <2>2, <1>2
    <3>2. serving.kind # "none"
      BY <1>1 DEF InqIInv, RequestOK, NoInquiry
    <3>3. serving' # NoInquiry
      BY <3>1, <3>2, <1>3 DEF NoInquiry, Servings
    <3>5. serving \in Servings
      BY <1>3
    <3>4. /\ serving' \in Servings /\ serving'.kind = serving.kind /\ serving'.got = serving.got
          /\ serving'.reply = serving.reply /\ serving'.reason = serving.reason
          /\ serving'.heardOf = serving.heardOf /\ serving'.moved = serving.moved
          /\ serving'.late = serving.late
          /\ serving'.todo = <<>> /\ serving'.id = serving.id
      BY ONLY <3>1, <3>5, ServingOver
    <3> QED BY <3>4, <3>3, <2>2, <1>1
  <2> QED BY <2>1, <2>2
<1>7. /\ commands' \in Seq([do : Verbs, id : Nat])
      /\ n \in Nat /\ Len(commands') = n + 1 /\ DOMAIN commands' = DOMAIN commands \union {n + 1}
      /\ \A i \in DOMAIN commands : commands'[i] = commands[i] /\ i < n + 1
      /\ commands'[n + 1] = c
  <2>1. /\ commands' \in Seq([do : Verbs, id : Nat]) /\ Len(commands') = n + 1
        /\ \A i \in 1..Len(commands) : commands'[i] = commands[i]
        /\ commands'[n + 1] = c
    BY <1>1, <1>3, <1>4, AddedLast
  <2>2. n = Len(commands) /\ commands \in Seq([do : Verbs, id : Nat])
    BY <1>3
  <2> HIDE DEF n, c
  <2> QED BY <2>1, <2>2
<1>v. waits <=> (command # "next" \/ answerer = "launcher")
  BY DEF Waits
<1> HIDE DEF n, c, number, waits, command
<1>8. serving.reply = <<>>
  BY <1>1 DEF InqIInv, NumbersOK
<1>9. \A i \in DOMAIN messages : ~IsAnswer(messages[i], serving')
  <2>1. \A i \in DOMAIN messages : messages[i].type = "reply" =>
           messages[i].id <= numbered /\ messages[i].id \in Nat
    <3>1. messages \in Seq(Events \union Replies)
      BY DEF InqIInv, InquiryTypeOK
    <3>2. \A i \in DOMAIN messages : messages[i] \in Events \union Replies
      BY <3>1
    <3>3. "reply" \notin Notices
      BY DEF Notices
    <3> QED BY <3>2, <3>3 DEF InqIInv, NumbersOK, Events, Replies
  <2>2. \A i \in DOMAIN messages : messages[i].type = "reply" => messages[i].id # numbered + 1
    BY <2>1, <1>3
  <2> QED BY <2>2, <1>w, <1>6 DEF IsAnswer
<1>10. InquiryTypeOK'
  <2>1. numbered' \in Nat
    BY <1>2, <1>3
  <2> QED BY <2>1, <1>1, <1>6, <1>7 DEF InqIInv, InquiryTypeOK, programState, adapter, askerHistory
<1>11. ProgramOK' /\ StopsOK'
  BY <1>1, ProgramKept, StopsKept DEF InqIInv, askerHistory
<1>12. MovesOK'
  <2>1. UNCHANGED <<at, stopCount, heardOf, moved, messages>>
    BY <1>1 DEF programState, askerHistory
  <2>2. ToSend(serving) <=> command \in Movers
    BY <1>1 DEF ToSend, command
  <2>3. ~ToSend(serving')
    BY <1>w, <1>6, <1>4 DEF ToSend
  <2>4. \A i \in DOMAIN commands' : commands'[i].do \in Movers =>
           \/ i \in DOMAIN commands /\ OnItsWay(commands)
           \/ i = n + 1 /\ ToSend(serving)
    BY <2>2, <1>7, <1>4 DEF OnItsWay
  <2>5. OnItsWay(commands') => Outstanding(serving, commands)
    BY <2>4 DEF Outstanding, OnItsWay
  <2>6. ToSend(serving) => ~OnItsWay(commands)
    BY DEF InqIInv, MovesOK
  <2>7. \A i, j \in DOMAIN commands' :
           commands'[i].do \in Movers /\ commands'[j].do \in Movers => i = j
    <3> SUFFICES ASSUME NEW i \in DOMAIN commands', NEW j \in DOMAIN commands',
                        commands'[i].do \in Movers, commands'[j].do \in Movers
                 PROVE  i = j
      OBVIOUS
    <3>1. CASE ToSend(serving)
      BY <3>1, <2>4, <2>6
    <3>2. CASE ~ToSend(serving)
      <4>1. i \in DOMAIN commands /\ j \in DOMAIN commands
        BY <3>2, <2>4
      <4> QED BY <4>1, <1>7 DEF InqIInv, MovesOK
    <3> QED BY <3>1, <3>2
  <2>8. moved = "no" /\ Outstanding(serving, commands) => Jumping(serving)
    BY DEF InqIInv, MovesOK
  <2>9. Jumping(serving) => command = "goto" /\ Jumping(serving') /\ waits
    <3>1. Jumping(serving) => command = "goto"
      BY DEF Jumping, InqIInv, RequestOK, Simple, command
    <3>2. command = "goto" => waits
      BY <1>v
    <3> QED BY <3>1, <3>2, <1>6 DEF Jumping
  <2>10. \A i \in DOMAIN commands' :
            commands'[i].do = "goto" /\ moved' = "no" => commands'[i].id = serving'.id
    <3> SUFFICES ASSUME NEW i \in DOMAIN commands', commands'[i].do = "goto", moved = "no"
                 PROVE  commands'[i].id = serving'.id
      BY <2>1
    <3>1. commands'[i].do \in Movers
      BY DEF Movers
    <3>2. Outstanding(serving, commands)
      BY <3>1, <2>4 DEF Outstanding
    <3>3. Jumping(serving)
      BY <3>2, <2>8
    <3>4. ToSend(serving) /\ waits
      BY <3>3, <2>9, <2>2 DEF Movers
    <3>5. i = n + 1
      BY <3>1, <3>4, <2>4, <2>6
    <3> QED BY <3>4, <3>5, <1>7, <1>4, <1>6
  <2>11. moved = "no" /\ heardOf # 0 => at = "halted" /\ heardOf = stopCount
    BY <1>1 DEF InqIInv, MovesOK
  <2>12. serving.kind = "goto" =>
            /\ at = "halted" /\ heardOf # 0
            /\ \A i \in DOMAIN commands' : commands'[i].do \notin Resuming
    <3>1. serving.kind = "goto" => command = "goto"
      BY <1>1 DEF InqIInv, RequestOK, Simple, command
    <3> QED BY <3>1, <1>7, <1>4 DEF InqIInv, MovesOK, Resuming
  <2>13. Outstanding(serving', commands') =>
           /\ heardOf # 0 /\ at = "halted" /\ heardOf = stopCount
           /\ moved = "no" => Jumping(serving')
    BY <2>3, <2>5, <2>8, <2>9 DEF InqIInv, MovesOK, Outstanding
  <2>14. moved # "no" => heardOf # 0
    BY DEF InqIInv, MovesOK
  <2> QED BY <2>1, <2>3, <2>7, <2>10, <2>11, <2>12, <2>13, <2>14, <1>6, <1>9 DEF MovesOK
<1>13. NumbersOK'
  <2>1. \A i \in DOMAIN commands : commands[i].id <= numbered /\ commands[i].id \in Nat
    <3>2. commands \in Seq([do : Verbs, id : Nat])
      BY <1>3
    <3>1. \A i \in DOMAIN commands : commands[i] \in [do : Verbs, id : Nat]
      BY <3>2, Elements
    <3> QED BY <3>1 DEF InqIInv, NumbersOK
  <2>2. numbered <= numbered' /\ numbered' \in Nat
    BY <1>2, <1>3, <1>w
  <2>3. number <= numbered'
    BY <1>2, <1>3, <1>4, <1>w DEF Unnumbered
  <2>4. \A i \in DOMAIN commands' : commands'[i].id <= numbered'
    BY SMTT(30), <2>1, <2>2, <2>3, <1>7, <1>4, <1>3
  <2>5. \A i \in DOMAIN messages : messages[i].type = "reply" => messages[i].id <= numbered'
    <3>1. messages \in Seq(Events \union Replies)
      BY DEF InqIInv, InquiryTypeOK
    <3>2. \A i \in DOMAIN messages : messages[i].type = "reply" => messages[i].id \in Nat
      <4>1. \A i \in DOMAIN messages : messages[i] \in Events \union Replies
        BY <3>1
      <4>2. "reply" \notin Notices
        BY DEF Notices
      <4> QED BY <4>1, <4>2 DEF Events, Replies
    <3> QED BY <3>2, <2>2, <1>3 DEF InqIInv, NumbersOK
  <2>6. serving'.id # Unnumbered => serving'.id = numbered' /\ serving'.todo # <<>>
    BY <1>6, <1>1, <1>2, <1>w
  <2>7. \A i \in DOMAIN commands' : serving'.id # Unnumbered /\ commands'[i].id = serving'.id =>
          i = Len(commands') /\ commands'[i].do = Head(serving'.todo)
    <3> SUFFICES ASSUME NEW i \in DOMAIN commands', serving'.id # Unnumbered,
                        commands'[i].id = serving'.id
                 PROVE  i = Len(commands') /\ commands'[i].do = Head(serving'.todo)
      OBVIOUS
    <3>1. waits /\ serving'.id = numbered + 1 /\ serving'.todo = serving.todo
      BY <1>6, <1>w
    <3>2. i \notin DOMAIN commands
      BY <3>1, <2>1, <1>7, <1>3
    <3>3. i = n + 1
      BY <3>2, <1>7
    <3> QED BY <3>1, <3>3, <1>7, <1>4 DEF command
  <2> QED BY <2>4, <2>5, <2>6, <2>7, <1>1, <1>6, <1>8, <1>9 DEF NumbersOK
<1>14. RequestOK'
  <2>1. UNCHANGED <<answerer, heardOf, moved>>
    BY <1>1 DEF askerHistory
  <2>2. serving.kind # "none"
    BY <1>1 DEF InqIInv, RequestOK, NoInquiry
  <2>3. serving'.todo = serving.todo \/ serving'.todo = <<>>
    BY <1>6, <1>w
  <2>4. serving.kind = "next" /\ answerer = "adapter" => serving'.id = Unnumbered
    <3>1. serving.kind = "next" => command = "next"
      BY <1>1 DEF InqIInv, RequestOK, Simple, command
    <3>2. command = "next" /\ answerer = "adapter" => ~waits
      BY <1>v
    <3> QED BY <3>1, <3>2, <1>6
  <2> QED BY <2>1, <2>2, <2>3, <2>4, <1>6, <1>8 DEF InqIInv, RequestOK
<1>15. AnswersOK'
  <2>1. \A of : MayShow(serving, of) => MayShow(serving', of)
    BY <1>6 DEF MayShow
  <2> QED BY <2>1, <1>1, <1>6, <1>8, <1>9 DEF InqIInv, AnswersOK
<1>16. CacheOK'
  BY <1>1, <1>6, <1>8, <1>9 DEF CacheOK
<1>17. RecordOK'
  <2>1. serving # NoInquiry
    BY <1>1 DEF NoInquiry
  <2> QED BY <2>1, <1>1, <1>6 DEF InqIInv, RecordOK, adapter, askerHistory
<1> QED BY <1>10, <1>11, <1>12, <1>13, <1>14, <1>15, <1>16, <1>17 DEF InqIInv

\* A command that is given up leaves the request marked as late.
LEMMA GiveUpKeeps == InqIInv /\ GiveUp => InqIInv'
<1> SUFFICES ASSUME InqIInv, GiveUp PROVE InqIInv' OBVIOUS
<1>1. /\ serving.id # Unnumbered /\ serving.reply = <<>>
      /\ serving' = [serving EXCEPT !.reply = <<NoReply>>, !.late = TRUE]
      /\ moved' = IF serving.kind = "goto" /\ moved = "no" THEN "next" ELSE moved
      /\ UNCHANGED <<answerer, programState, wire, adapter, numbered, heardOf, inquiries>>
  BY DEF GiveUp
<1>2. serving \in Servings /\ serving.todo # <<>>
  BY <1>1, ServingShape DEF InqIInv, NumbersOK
<1>3. <<NoReply>> \in Seq(Replies \union {NoReply}) /\ Len(<<NoReply>>) = 1 /\ <<NoReply>>[1] = NoReply
      /\ NoReply.type = "none" /\ <<NoReply>> # <<>>
  BY DEF NoReply
<1>4. /\ serving' \in Servings /\ serving'.kind = serving.kind /\ serving'.got = serving.got
      /\ serving'.todo = serving.todo /\ serving'.id = serving.id /\ serving'.reason = serving.reason
      /\ serving'.heardOf = serving.heardOf /\ serving'.moved = serving.moved /\ serving'.late = TRUE
      /\ serving'.reply = <<NoReply>>
  BY <1>1, <1>2, <1>3 DEF Servings
<1>5. serving' # NoInquiry /\ serving # NoInquiry
  BY <1>2, <1>4 DEF NoInquiry
<1>6. \A m : IsAnswer(m, serving') <=> IsAnswer(m, serving)
  BY <1>4 DEF IsAnswer
<1>7. InquiryTypeOK'
  <2>1. moved' \in Resuming \union {"no"}
    BY <1>1 DEF InqIInv, InquiryTypeOK, Resuming
  <2> QED BY <2>1, <1>1, <1>4 DEF InqIInv, InquiryTypeOK, programState, wire, adapter
<1>8. ProgramOK' /\ StopsOK'
  BY <1>1, ProgramKept, StopsKept DEF InqIInv, wire
<1>9. MovesOK'
  <2>1. UNCHANGED <<at, stopCount, heardOf, commands, messages>>
    BY <1>1 DEF programState, wire
  <2>2. (ToSend(serving') <=> ToSend(serving))
        /\ (Outstanding(serving', commands') <=> Outstanding(serving, commands))
    BY <1>4, <2>1 DEF ToSend, Outstanding
  <2>3. moved' = "no" => moved = "no" /\ serving.kind # "goto"
    BY <1>1
  <2>4. moved' = "no" => ~Outstanding(serving, commands)
    BY <2>3 DEF InqIInv, MovesOK, Jumping
  <2>5. \A i \in DOMAIN commands : commands[i].do = "goto" => Outstanding(serving, commands)
    BY DEF Outstanding, OnItsWay, Movers
  <2>6. moved' = "no" /\ heardOf # 0 => at = "halted" /\ heardOf = stopCount
    BY <2>3 DEF InqIInv, MovesOK, Jumping
  <2>7. moved' # "no" => heardOf # 0
    BY <1>1 DEF InqIInv, MovesOK
  <2> QED BY <2>1, <2>2, <2>4, <2>5, <2>6, <2>7, <1>4, <1>6 DEF InqIInv, MovesOK
<1>10. NumbersOK'
  BY <1>1, <1>3, <1>4, <1>6 DEF InqIInv, NumbersOK, wire
<1>11. RequestOK'
  <2>1. serving.kind \in OfAStop => moved' = moved
    BY <1>1 DEF OfAStop
  <2>2. serving.kind # "none"
    BY <1>5 DEF InqIInv, RequestOK
  <2> QED BY <2>1, <2>2, <1>1, <1>3, <1>4 DEF InqIInv, RequestOK
<1>12. AnswersOK'
  <2>1. Wanted(serving') <=> Wanted(serving)
    BY <1>4 DEF Wanted
  <2>2. \A m : GoodReply(m, serving) => GoodReply(m, serving')
    BY <1>4 DEF GoodReply, MayShow
  <2> QED BY <2>1, <2>2, <1>1, <1>3, <1>4, <1>6 DEF InqIInv, AnswersOK, wire
<1>13. CacheOK'
  BY <1>1, <1>3, <1>4, <1>6 DEF InqIInv, CacheOK, wire, adapter
<1>14. RecordOK'
  BY <1>1, <1>4, <1>5 DEF InqIInv, RecordOK, adapter
<1> QED BY <1>7, <1>8, <1>9, <1>10, <1>11, <1>12, <1>13, <1>14 DEF InqIInv

-----------------------------------------------------------------------------
(* A request goes on.                                                      *)

\* The commands the backend of the adapter waits for.
Dispatches == Simple \ {"next"}

\* A reply that is taken is taken for what it shows.
LEMMA DispatchTypes ==
    ASSUME NEW command \in Dispatches, NEW m \in Replies \union {NoReply}
    PROVE  /\ Dispatched(command, m) \in [raised : BOOLEAN, of : Halts]
           /\ command \in OfAStop /\ m.type = "reply" /\ m.ok =>
                 Dispatched(command, m) = Result(m.of)
<1>1. m.of \in Halts /\ 0 \in Halts
  <2>1. 0 \in Halts
    BY DEF Halts
  <2> QED BY <2>1 DEF Replies, NoReply
<1>2. \A of \in Halts : Result(of) \in [raised : BOOLEAN, of : Halts]
  BY DEF Result
<1>3. Raised \in [raised : BOOLEAN, of : Halts]
  BY <1>1 DEF Raised
<1>4. _extract_body(m) \in [raised : BOOLEAN, of : Halts] /\ (m.ok => _extract_body(m) = Result(m.of))
  BY <1>1, <1>2 DEF _extract_body
<1>5. m.type = "none" \/ m.type = "reply"
  BY DEF Replies, NoReply
<1>6. CASE command \in {"gotoTargets", "variables", "setExpression", "completions", "exceptionInfo"}
  BY <1>6, <1>4 DEF Dispatched, _dispatch_goto_targets, _dispatch_variables, OfAStop,
     _dispatch_set_expression, _dispatch_completions, _dispatch_exception_info
<1>7. CASE command = "stackTrace"
  BY <1>7, <1>4 DEF Dispatched, _dispatch_stack_trace
<1>8. CASE command = "evaluate"
  BY <1>8, <1>3, <1>4 DEF Dispatched, _dispatch_evaluate
<1>9. CASE command = "goto"
  BY <1>9, <1>1, <1>2, <1>3 DEF Dispatched, _dispatch_goto, OfAStop
<1>10. CASE command = "continue"
  BY <1>10, <1>1, <1>2 DEF Dispatched, OfAStop
<1> QED BY <1>6, <1>7, <1>8, <1>9, <1>10 DEF Dispatches, Simple

\* What the reply to a command is worth to who waits for it.
Brought(command, m) ==
    LET dispatched == IF answerer = "adapter" THEN Dispatched(command, m)
                      ELSE IF m.ok THEN Result(m.of) ELSE Raised
    IN  IF answerer = "adapter" /\ command = "stackTrace"
        THEN get_stack_trace(dispatched) ELSE dispatched

\* What a reply is worth may be shown, the cached stack in its place included.
LEMMA BroughtIsShown ==
    ASSUME InqIInv, serving.reply # <<>>
    PROVE  LET command == Head(serving.todo)
               outcome == Brought(command, serving.reply[1])
           IN  /\ command \in Verbs
               /\ outcome \in [raised : BOOLEAN, of : Halts]
               /\ serving.kind \in OfAStop /\ ~serving.late /\ command \in OfAStop
                    /\ ~outcome.raised => MayShow(serving, outcome.of)
<1> DEFINE command == Head(serving.todo)
           m == serving.reply[1]
           outcome == Brought(command, m)
<1> SUFFICES /\ command \in Verbs
             /\ outcome \in [raised : BOOLEAN, of : Halts]
             /\ serving.kind \in OfAStop /\ ~serving.late /\ command \in OfAStop
                  /\ ~outcome.raised => MayShow(serving, outcome.of)
  OBVIOUS
<1>1. /\ serving \in Servings /\ serving.todo # <<>> /\ command \in Verbs
      /\ serving.reply \in Seq(Replies \union {NoReply})
      /\ serving.kind \in Simple \union Agents \union {"none"}
      /\ command = serving.todo[1] /\ 1 \in DOMAIN serving.todo
  BY ServingShape DEF InqIInv, NumbersOK, Servings
<1>2. m \in Replies \union {NoReply}
  <2>1. 1 \in DOMAIN serving.reply
    BY <1>1
  <2> QED BY <2>1, <1>1, Elements
<1>3. m = NoReply => serving.late
  BY DEF InqIInv, RequestOK
<1>4. m # NoReply => m.type = "reply"
  BY <1>2 DEF Replies
<1>5. serving.kind \in OfAStop /\ ~serving.late /\ command \in OfAStop =>
         /\ m.type = "reply"
         /\ command \in {"stackTrace", "evaluate"} => m.ok
         /\ m.ok => MayShow(serving, m.of)
  <2>1. serving.kind \in OfAStop /\ command \in OfAStop => Wanted(serving)
    BY <1>1 DEF Wanted
  <2>2. Wanted(serving) /\ m.type = "reply" => GoodReply(m, serving)
    BY DEF InqIInv, AnswersOK
  <2> QED BY <2>1, <2>2, <1>3, <1>4 DEF GoodReply
<1>6. answerer = "adapter" =>
         /\ command \in Dispatches
         /\ command = "stackTrace" /\ m.type = "reply" => cached = m.of
  <2>1. answerer = "adapter" => command \in Simple
    <3>1. CASE serving.kind \in Simple
      <4>1. serving.todo = <<serving.kind>>
        BY <3>1, <1>1 DEF InqIInv, RequestOK
      <4> QED BY <4>1, <3>1
    <3>2. CASE serving.kind \in Agents
      <4>1. answerer = "adapter" => command \in {"stackTrace", "evaluate", "variables"}
        BY <3>2, <1>1 DEF InqIInv, RequestOK
      <4> QED BY <4>1 DEF Simple
    <3>3. serving.kind # "none"
      BY <1>1 DEF InqIInv, RequestOK, NoInquiry
    <3> QED BY <3>1, <3>2, <3>3, <1>1
  <2>2. answerer = "adapter" => command # "next"
    <3>1. CASE serving.kind \in Simple
      <4>1. serving.todo = <<serving.kind>> /\ serving.id # Unnumbered
        BY <3>1, <1>1 DEF InqIInv, RequestOK, NumbersOK
      <4> QED BY <4>1, <3>1 DEF InqIInv, RequestOK
    <3>2. CASE serving.kind \in Agents
      <4>1. answerer = "adapter" => command \in {"stackTrace", "evaluate", "variables"}
        BY <3>2, <1>1 DEF InqIInv, RequestOK
      <4> QED BY <4>1
    <3>3. serving.kind # "none"
      BY <1>1 DEF InqIInv, RequestOK, NoInquiry
    <3> QED BY <3>1, <3>2, <3>3, <1>1
  <2>3. answerer = "adapter" /\ command = "stackTrace" /\ m.type = "reply" => cached = m.of
    BY <1>1 DEF InqIInv, CacheOK
  <2> QED BY <2>1, <2>2, <2>3 DEF Dispatches
<1> HIDE DEF command, m
<1>7. CASE answerer = "adapter"
  <2> DEFINE d == Dispatched(command, m)
  <2>1. /\ d \in [raised : BOOLEAN, of : Halts]
        /\ command \in OfAStop /\ m.type = "reply" /\ m.ok => d = Result(m.of)
    BY <1>2, <1>6, <1>7, DispatchTypes
  <2>2. outcome = IF command = "stackTrace" THEN get_stack_trace(d) ELSE d
    BY <1>7 DEF Brought
  <2> HIDE DEF d, outcome
  <2>3. cached \in Halts \union {Absent}
    BY DEF InqIInv, InquiryTypeOK
  <2>4. CASE command # "stackTrace"
    <3>1. outcome = d
      BY <2>2, <2>4
    <3>2. command \in OfAStop => command = "evaluate"
      BY <1>6, <1>7, <2>4 DEF OfAStop, Dispatches, Simple
    <3>3. serving.kind \in OfAStop /\ ~serving.late /\ command \in OfAStop =>
             d = Result(m.of) /\ MayShow(serving, m.of)
      BY <3>2, <2>1, <1>5
    <3> QED BY <3>1, <3>3, <2>1, <1>1 DEF Result
  <2>5. CASE command = "stackTrace"
    <3>1. outcome = IF d.of = 0 /\ cached # Absent THEN Result(cached) ELSE d
      BY <2>2, <2>5 DEF get_stack_trace
    <3>2. outcome \in [raised : BOOLEAN, of : Halts]
      BY <3>1, <2>1, <2>3 DEF Result
    <3>3. ASSUME serving.kind \in OfAStop, ~serving.late, command \in OfAStop
          PROVE  MayShow(serving, outcome.of)
      <4>1. m.type = "reply" /\ m.ok /\ MayShow(serving, m.of)
        BY <3>3, <1>5, <2>5
      <4>2. d = Result(m.of) /\ cached = m.of
        BY <4>1, <3>3, <2>1, <1>6, <1>7, <2>5
      <4>3. outcome = Result(m.of)
        BY <4>2, <3>1
      <4> QED BY <4>1, <4>3 DEF Result
    <3> QED BY <3>2, <3>3, <1>1
  <2> QED BY <2>4, <2>5
<1>8. CASE answerer # "adapter"
  <2>1. outcome = IF m.ok THEN Result(m.of) ELSE Raised
    BY <1>8 DEF Brought
  <2>2. m.of \in Halts /\ 0 \in Halts
    BY <1>2 DEF Replies, NoReply, Halts
  <2> HIDE DEF outcome
  <2>3. outcome \in [raised : BOOLEAN, of : Halts]
    BY <2>1, <2>2 DEF Result, Raised
  <2>4. ~outcome.raised => m.ok /\ outcome.of = m.of
    BY <2>1 DEF Result, Raised
  <2> QED BY <2>3, <2>4, <1>5, <1>1
<1> QED BY <1>7, <1>8

\* What a request sends next.
LEMMA NextCommands ==
    ASSUME InqIInv, serving.reply # <<>>, NEW outcome,
           NEW todo \in IF answerer = "adapter" THEN Then(outcome) ELSE {<<>>}
    PROVE  /\ todo \in Seq(Verbs)
           /\ serving.kind \in Simple \/ answerer = "launcher" => todo = <<>>
           /\ \A i \in DOMAIN todo : todo[i] \in {"stackTrace", "evaluate", "variables"}
<1> DEFINE Commands3 == {"stackTrace", "evaluate", "variables"}
<1>1. /\ serving.todo # <<>> /\ serving.todo \in Seq(Verbs)
      /\ serving.kind \in Simple \union Agents
  <2>1. serving.todo # <<>>
    BY DEF InqIInv, NumbersOK
  <2>2. serving.kind # "none"
    BY <2>1 DEF InqIInv, RequestOK, NoInquiry
  <2> QED BY <2>1, <2>2, ServingShape
<1>2. <<>> \in Seq(Commands3) /\ <<"evaluate">> \in Seq(Commands3) /\ <<"variables">> \in Seq(Commands3)
      /\ <<"variables", "variables">> \in Seq(Commands3) /\ DOMAIN <<>> = {}
  OBVIOUS
<1>3. CASE serving.kind \in Simple \/ answerer = "launcher"
  <2>1. serving.kind \in Simple => serving.kind \notin Agents
    BY DEF Simple, Agents
  <2>2. todo = <<>>
    BY <2>1, <1>3 DEF Then, Agents
  <2>3. <<>> \in Seq(Verbs) /\ DOMAIN <<>> = {}
    OBVIOUS
  <2> QED BY <2>2, <2>3
<1>4. CASE serving.kind \in Agents /\ answerer = "adapter"
  <2>1. \A i \in DOMAIN serving.todo : serving.todo[i] \in Commands3
    BY <1>4 DEF InqIInv, RequestOK
  <2>2. serving.todo \in Seq(Commands3)
    BY <1>1, <2>1
  <2>3. Tail(serving.todo) \in Seq(Commands3)
    BY <1>1, <2>2
  <2> HIDE DEF Commands3
  <2>4. todo \in Seq(Commands3)
    <3>1. todo \in {Tail(serving.todo), <<"evaluate">>, <<"variables">>, <<"variables", "variables">>}
      BY <1>4 DEF Then, Agents, _build_agent_call_stack, _evaluate_expressions, _expand_variable_tree
    <3> QED BY <3>1, <2>3, <1>2
  <2>5. Commands3 \subseteq Verbs
    BY DEF Commands3, Verbs, Looking
  <2>6. \A i \in DOMAIN todo : todo[i] \in Commands3
    BY <2>4, Elements
  <2>7. todo \in Seq(Verbs)
    BY <2>4, <2>5
  <2>8. serving.kind \notin Simple /\ answerer # "launcher"
    BY <1>4 DEF Simple, Agents
  <2> QED BY <2>6, <2>7, <2>8 DEF Commands3
<1>5. answerer \in {"launcher", "adapter"}
  BY DEF InqIInv, InquiryTypeOK
<1> QED BY <1>1, <1>3, <1>4, <1>5

\* A request keeps what its commands brought and goes on to the next.
LEMMA ProceedKeeps == InqIInv /\ Proceed => InqIInv'
<1> SUFFICES ASSUME InqIInv, Proceed PROVE InqIInv' OBVIOUS
<1> DEFINE command == Head(serving.todo)
           outcome == Brought(command, serving.reply[1])
           g == [do |-> command, raised |-> outcome.raised, of |-> outcome.of]
<1>1. /\ serving.reply # <<>>
      /\ UNCHANGED <<answerer, programState, wire, adapter, numbered, askerHistory, inquiries>>
  BY DEF Proceed
<1>2. PICK todo \in IF answerer = "adapter" THEN Then(outcome) ELSE {<<>>} :
         serving' = [serving EXCEPT !.todo = todo, !.id = Unnumbered, !.reply = <<>>,
                                    !.got = Append(serving.got, g)]
  BY DEF Proceed, Brought
<1>3. /\ todo \in Seq(Verbs)
      /\ serving.kind \in Simple \/ answerer = "launcher" => todo = <<>>
      /\ \A i \in DOMAIN todo : todo[i] \in {"stackTrace", "evaluate", "variables"}
  BY <1>1, <1>2, NextCommands
<1>4. /\ command \in Verbs /\ outcome \in [raised : BOOLEAN, of : Halts]
      /\ serving.kind \in OfAStop /\ ~serving.late /\ command \in OfAStop
            /\ ~outcome.raised => MayShow(serving, outcome.of)
  BY <1>1, BroughtIsShown
<1> HIDE DEF command, outcome
<1>5. /\ g \in [do : Verbs, raised : BOOLEAN, of : Halts]
      /\ g.do = command /\ g.raised = outcome.raised /\ g.of = outcome.of
  BY <1>4
<1> HIDE DEF g
<1>6. serving \in Servings /\ serving.got \in Seq([do : Verbs, raised : BOOLEAN, of : Halts])
  BY ServingShape DEF Servings
<1>7. /\ Append(serving.got, g) \in Seq([do : Verbs, raised : BOOLEAN, of : Halts])
      /\ \A i \in DOMAIN Append(serving.got, g) :
            (i \in DOMAIN serving.got /\ Append(serving.got, g)[i] = serving.got[i])
              \/ Append(serving.got, g)[i] = g
  <2> DEFINE G == [do : Verbs, raised : BOOLEAN, of : Halts]
  <2>1. serving.got \in Seq(G) /\ g \in G
    BY <1>5, <1>6
  <2> HIDE DEF G
  <2>2. /\ Append(serving.got, g) \in Seq(G)
        /\ Len(Append(serving.got, g)) = Len(serving.got) + 1
        /\ \A i \in 1..Len(serving.got) : Append(serving.got, g)[i] = serving.got[i]
        /\ Append(serving.got, g)[Len(serving.got) + 1] = g
    BY <2>1, AddedLast
  <2> QED BY <2>1, <2>2 DEF G
<1>8. /\ serving' \in Servings /\ serving'.kind = serving.kind /\ serving'.got = Append(serving.got, g)
      /\ serving'.reply = <<>> /\ serving'.reason = serving.reason
      /\ serving'.heardOf = serving.heardOf /\ serving'.moved = serving.moved
      /\ serving'.late = serving.late /\ serving'.todo = todo /\ serving'.id = Unnumbered
  <2>1. <<>> \in Seq(Replies \union {NoReply}) /\ Unnumbered \in Nat
    BY DEF Unnumbered
  <2> QED BY <1>2, <1>3, <1>6, <1>7, <2>1 DEF Servings
<1>9. serving # NoInquiry /\ serving' # NoInquiry /\ serving.kind # "none"
  <2>1. serving.todo # <<>>
    BY <1>1 DEF InqIInv, NumbersOK
  <2>2. serving # NoInquiry /\ serving.kind # "none"
    BY <2>1 DEF InqIInv, RequestOK, NoInquiry
  <2> QED BY <2>2, <1>8 DEF NoInquiry
<1>10. \A m : ~IsAnswer(m, serving')
  BY <1>8 DEF IsAnswer
<1>11. ~ToSend(serving')
  <2>1. todo # <<>> => Head(todo) \in {"stackTrace", "evaluate", "variables"}
    BY <1>3
  <2> QED BY <2>1, <1>8 DEF ToSend, Movers, Resuming
<1>12. InquiryTypeOK'
  BY <1>1, <1>8 DEF InqIInv, InquiryTypeOK, programState, wire, adapter, askerHistory
<1>13. ProgramOK' /\ StopsOK'
  BY <1>1, ProgramKept, StopsKept DEF InqIInv, wire, askerHistory
<1>14. MovesOK'
  <2>1. UNCHANGED <<at, stopCount, heardOf, moved, commands, messages>>
    BY <1>1 DEF programState, wire, askerHistory
  <2>2. ~Jumping(serving)
    BY <1>1 DEF Jumping
  <2>3. OnItsWay(commands) => moved # "no"
    BY <2>2 DEF InqIInv, MovesOK, Outstanding
  <2>4. \A i \in DOMAIN commands : commands[i].do = "goto" => OnItsWay(commands)
    BY DEF OnItsWay, Movers
  <2>5. Outstanding(serving', commands') => OnItsWay(commands) /\ Outstanding(serving, commands)
    BY <1>11, <2>1 DEF Outstanding
  <2> QED BY <2>1, <2>2, <2>3, <2>4, <2>5, <1>8, <1>10, <1>11 DEF InqIInv, MovesOK
<1>15. NumbersOK'
  BY <1>1, <1>8, <1>10 DEF InqIInv, NumbersOK, wire
<1>16. RequestOK'
  <2>1. UNCHANGED <<answerer, heardOf, moved>>
    BY <1>1 DEF askerHistory
  <2> QED BY <2>1, <1>3, <1>8, <1>9 DEF InqIInv, RequestOK
<1>17. AnswersOK'
  <2>1. ASSUME serving'.kind \in OfAStop, ~serving'.late, NEW i \in DOMAIN serving'.got,
               serving'.got[i].do \in OfAStop, ~serving'.got[i].raised
        PROVE  MayShow(serving', serving'.got[i].of)
    <3>1. \A of : MayShow(serving, of) => MayShow(serving', of)
      BY <1>8 DEF MayShow
    <3>2. (i \in DOMAIN serving.got /\ serving'.got[i] = serving.got[i]) \/ serving'.got[i] = g
      BY <1>7, <1>8
    <3>3. CASE i \in DOMAIN serving.got /\ serving'.got[i] = serving.got[i]
      <4>1. MayShow(serving, serving.got[i].of)
        BY <3>3, <2>1, <1>8 DEF InqIInv, AnswersOK
      <4> QED BY <4>1, <3>1, <3>3
    <3>4. CASE serving'.got[i] = g
      <4>1. MayShow(serving, g.of)
        BY <3>4, <2>1, <1>8, <1>5, <1>4
      <4> QED BY <4>1, <3>1, <3>4
    <3> QED BY <3>2, <3>3, <3>4
  <2> QED BY <2>1, <1>8, <1>10 DEF AnswersOK
<1>18. CacheOK'
  BY <1>8, <1>10 DEF CacheOK
<1>19. RecordOK'
  BY <1>1, <1>8, <1>9 DEF InqIInv, RecordOK, adapter, askerHistory
<1> QED BY <1>12, <1>13, <1>14, <1>15, <1>16, <1>17, <1>18, <1>19 DEF InqIInv

-----------------------------------------------------------------------------
(* A message arrives, at the adapter or at the extension.                  *)

\* A message is taken: the others keep their order.
LEMMA MessageTaken ==
    ASSUME InqIInv, messages # <<>>, messages' = Tail(messages)
    PROVE  /\ messages' \in Seq(Wire)
           /\ Head(messages) = messages[1] /\ 1 \in DOMAIN messages
           /\ Head(messages) \in Wire
           /\ \A i \in DOMAIN messages' :
                 i + 1 \in DOMAIN messages /\ messages'[i] = messages[i + 1] /\ i \in Nat \ {0}
<1>1. messages \in Seq(Wire)
  BY DEF InqIInv, InquiryTypeOK, Wire
<1>2. /\ messages' \in Seq(Wire)
      /\ Head(messages) = messages[1] /\ 1 \in DOMAIN messages
      /\ Head(messages) \in Wire
      /\ \A i \in DOMAIN messages' : i + 1 \in DOMAIN messages /\ messages'[i] = messages[i + 1]
  BY <1>1, TakenFirst
<1>3. \A i \in DOMAIN messages' : i \in Nat \ {0}
  BY <1>2
<1> QED BY <1>2, <1>3

\* A message that is not about a stop leaves what is known of the program alone.
LEMMA StopsStay ==
    ASSUME InqIInv, messages # <<>>, messages' = Tail(messages), Head(messages).type # "stopped",
           UNCHANGED <<programState, heardOf>>
    PROVE  StopsOK'
<1>1. /\ Head(messages) = messages[1] /\ 1 \in DOMAIN messages
      /\ messages' \in Seq(Wire) /\ messages \in Seq(Wire)
      /\ \A i \in DOMAIN messages' :
            i + 1 \in DOMAIN messages /\ messages'[i] = messages[i + 1] /\ i \in Nat \ {0}
  BY MessageTaken DEF InqIInv, InquiryTypeOK, Wire
<1>2. UNCHANGED <<at, stopCount, heardOf>>
  BY DEF programState
<1>3. \A i \in DOMAIN messages : messages[i].type = "stopped" =>
         i - 1 \in DOMAIN messages' /\ messages'[i - 1] = messages[i]
  <2> SUFFICES ASSUME NEW i \in DOMAIN messages, messages[i].type = "stopped"
               PROVE  i - 1 \in DOMAIN messages' /\ messages'[i - 1] = messages[i]
    OBVIOUS
  <2>1. i # 1
    BY <1>1
  <2>2. i - 1 \in DOMAIN messages'
    BY <1>1, <2>1
  <2> QED BY <2>2, <1>1
<1>4. heardOf = Announced(at, stopCount) =>
         \A i \in DOMAIN messages' : messages'[i].type # "stopped"
  BY <1>1 DEF InqIInv, StopsOK
<1>5. heardOf # Announced(at, stopCount) =>
         /\ \E i \in DOMAIN messages' : messages'[i].type = "stopped"
         /\ \A i, j \in DOMAIN messages' :
               messages'[i].type = "stopped" =>
                  /\ messages'[i].of = Announced(at, stopCount)
                  /\ messages'[j].type = "stopped" => i = j
  <2> SUFFICES ASSUME heardOf # Announced(at, stopCount)
               PROVE  /\ \E i \in DOMAIN messages' : messages'[i].type = "stopped"
                      /\ \A i, j \in DOMAIN messages' :
                           messages'[i].type = "stopped" =>
                             /\ messages'[i].of = Announced(at, stopCount)
                             /\ messages'[j].type = "stopped" => i = j
    OBVIOUS
  <2>1. PICK k \in DOMAIN messages : messages[k].type = "stopped"
    BY DEF InqIInv, StopsOK
  <2>2. \A i, j \in DOMAIN messages : messages[i].type = "stopped" =>
           /\ messages[i].of = Announced(at, stopCount)
           /\ messages[j].type = "stopped" => i = j
    BY DEF InqIInv, StopsOK
  <2>3. \E i \in DOMAIN messages' : messages'[i].type = "stopped"
    BY <2>1, <1>3
  <2>4. \A i, j \in DOMAIN messages' : i + 1 = j + 1 => i = j
    BY <1>1
  <2> QED BY <2>2, <2>3, <2>4, <1>1
<1> QED BY <1>2, <1>4, <1>5 DEF InqIInv, StopsOK

\* The reply that is waited for is taken, unless it came too late.
LEMMA ReplyKeeps ==
    InqIInv /\ messages # <<>> /\ messages' = Tail(messages) /\ Head(messages).type = "reply"
      /\ handle_reply(Head(messages))
      /\ UNCHANGED <<answerer, programState, commands, adapter, numbered, askerHistory, inquiries>>
      => InqIInv'
<1> SUFFICES ASSUME InqIInv, messages # <<>>, messages' = Tail(messages),
                    Head(messages).type = "reply", handle_reply(Head(messages)),
                    UNCHANGED <<answerer, programState, commands, adapter, numbered, askerHistory, inquiries>>
             PROVE  InqIInv'
  OBVIOUS
<1> DEFINE m == Head(messages)
<1>1. /\ m = messages[1] /\ 1 \in DOMAIN messages /\ m.type = "reply" /\ m \in Wire
      /\ messages' \in Seq(Wire) /\ messages \in Seq(Wire)
      /\ \A i \in DOMAIN messages' :
            i + 1 \in DOMAIN messages /\ messages'[i] = messages[i + 1] /\ i \in Nat \ {0}
  BY MessageTaken DEF InqIInv, InquiryTypeOK, Wire
<1>2. m \in Replies /\ m.id # Unnumbered
  BY <1>1 DEF Wire, Events, Replies, Notices
<1> DEFINE takes == m.id = serving.id /\ serving.reply = <<>>
<1>3. /\ takes => serving' = [serving EXCEPT !.reply = <<m>>]
      /\ ~takes => serving' = serving
  BY DEF handle_reply
<1> HIDE DEF m
<1>4. takes => IsAnswer(m, serving)
  BY <1>1, <1>2 DEF IsAnswer
<1>5. serving \in Servings
  BY ServingShape
<1>6. /\ serving' \in Servings /\ serving'.kind = serving.kind /\ serving'.got = serving.got
      /\ serving'.todo = serving.todo /\ serving'.id = serving.id /\ serving'.reason = serving.reason
      /\ serving'.heardOf = serving.heardOf /\ serving'.moved = serving.moved /\ serving'.late = serving.late
      /\ takes => serving'.reply = <<m>>
      /\ ~takes => serving'.reply = serving.reply
  <2>1. <<m>> \in Seq(Replies \union {NoReply})
    BY <1>2
  <2>2. CASE takes
    <3>1. serving' = [serving EXCEPT !.reply = <<m>>]
      BY <2>2, <1>3
    <3> QED BY <3>1, <2>1, <2>2, <1>5 DEF Servings
  <2>3. CASE ~takes
    BY <2>3, <1>3, <1>5
  <2> QED BY <2>2, <2>3
<1>7. <<m>> # <<>> /\ Len(<<m>>) = 1 /\ <<m>>[1] = m
  OBVIOUS
<1> HIDE DEF takes
<1>8. \A x : IsAnswer(x, serving') <=> IsAnswer(x, serving)
  BY <1>6 DEF IsAnswer
<1>9. InquiryTypeOK'
  BY <1>1, <1>6 DEF InqIInv, InquiryTypeOK, programState, adapter, askerHistory, Wire
<1>10. ProgramOK' /\ StopsOK'
  BY ProgramKept, StopsStay DEF InqIInv, askerHistory
<1>11. MovesOK'
  <2>1. UNCHANGED <<at, stopCount, heardOf, moved, commands>>
    BY DEF programState, askerHistory
  <2>2. (ToSend(serving') <=> ToSend(serving))
        /\ (Outstanding(serving', commands') <=> Outstanding(serving, commands))
    BY <1>6, <2>1 DEF ToSend, Outstanding
  <2>3. takes => /\ commands = <<>> /\ ~ToSend(serving)
                 /\ \A i \in DOMAIN messages : i > 1 => messages[i].type = "stopped"
    <3>1. takes => commands = <<>> /\ \A i \in DOMAIN messages : i > 1 => messages[i].type = "stopped"
      BY <1>1, <1>4 DEF InqIInv, NumbersOK
    <3>2. takes => ~ToSend(serving)
      BY <1>4 DEF ToSend, IsAnswer
    <3> QED BY <3>1, <3>2
  <2>4. takes => ~Outstanding(serving, commands)
    BY <2>3 DEF Outstanding, OnItsWay
  <2>5. \A i \in DOMAIN commands : commands[i].do = "goto" => Outstanding(serving, commands)
    BY DEF Outstanding, OnItsWay, Movers
  <2>6. ~takes => (Jumping(serving') <=> Jumping(serving))
    BY <1>6 DEF Jumping
  <2>7. takes /\ serving.kind = "goto" => heardOf = stopCount
    <3>1. ASSUME takes, serving.kind = "goto", heardOf # stopCount PROVE FALSE
      <4>1. at = "halted"
        BY <3>1 DEF InqIInv, MovesOK
      <4>2. PICK i \in DOMAIN messages : messages[i].type = "stopped"
        BY <3>1, <4>1 DEF InqIInv, StopsOK, Announced
      <4>3. i < 1
        BY <3>1, <4>2, <1>1, <1>4 DEF InqIInv, MovesOK
      <4> QED BY <4>3, <1>1
    <3> QED BY <3>1
  <2>8. moved = "no" /\ heardOf # 0 =>
           at = "halted" /\ (heardOf = stopCount \/ (Jumping(serving') /\ serving'.id # Unnumbered))
    <3>1. moved = "no" /\ heardOf # 0 =>
           at = "halted" /\ (heardOf = stopCount \/ (Jumping(serving) /\ serving.id # Unnumbered))
      BY DEF InqIInv, MovesOK
    <3> QED BY <3>1, <2>6, <2>7, <1>6 DEF Jumping
  <2>9. \A i, j \in DOMAIN messages' :
           messages'[i].type = "stopped" /\ IsAnswer(messages'[j], serving') /\ serving.kind = "goto"
             => i < j
    <3> SUFFICES ASSUME NEW i \in DOMAIN messages', NEW j \in DOMAIN messages',
                        messages'[i].type = "stopped", IsAnswer(messages'[j], serving'),
                        serving.kind = "goto"
                 PROVE  i < j
      OBVIOUS
    <3>1. i + 1 < j + 1
      BY <1>1, <1>8 DEF InqIInv, MovesOK
    <3> QED BY <3>1, <1>1
  <2> QED BY <2>1, <2>2, <2>4, <2>5, <2>6, <2>8, <2>9, <1>6 DEF InqIInv, MovesOK
<1>12. NumbersOK'
  <2>1. UNCHANGED <<commands, numbered>>
    OBVIOUS
  <2>2. \A i \in DOMAIN messages' : messages'[i].type = "reply" => messages'[i].id <= numbered
    BY <1>1 DEF InqIInv, NumbersOK
  <2>3. \A i \in DOMAIN messages' : IsAnswer(messages'[i], serving') =>
          /\ commands = <<>>
          /\ \A j \in DOMAIN messages' : j > i => messages'[j].type = "stopped"
    <3> SUFFICES ASSUME NEW i \in DOMAIN messages', IsAnswer(messages'[i], serving')
                 PROVE  /\ commands = <<>>
                        /\ \A j \in DOMAIN messages' : j > i => messages'[j].type = "stopped"
      OBVIOUS
    <3>1. IsAnswer(messages[i + 1], serving) /\ i + 1 \in DOMAIN messages
      BY <1>1, <1>8
    <3>2. /\ commands = <<>>
          /\ \A j \in DOMAIN messages : j > i + 1 => messages[j].type = "stopped"
      BY <3>1 DEF InqIInv, NumbersOK
    <3>3. \A j \in DOMAIN messages' : j > i => j + 1 > i + 1
      BY <1>1
    <3> QED BY <3>2, <3>3, <1>1
  <2>4. takes => /\ commands = <<>> /\ serving'.reply[1].id = serving'.id /\ serving'.id # Unnumbered
                 /\ Len(serving'.reply) = 1
                 /\ \A j \in DOMAIN messages' : messages'[j].type = "stopped"
    <3> SUFFICES ASSUME takes
                 PROVE  /\ commands = <<>> /\ serving'.reply[1].id = serving'.id
                        /\ serving'.id # Unnumbered /\ Len(serving'.reply) = 1
                        /\ \A j \in DOMAIN messages' : messages'[j].type = "stopped"
      OBVIOUS
    <3>1. /\ commands = <<>>
          /\ \A j \in DOMAIN messages : j > 1 => messages[j].type = "stopped"
      BY <1>1, <1>4 DEF InqIInv, NumbersOK
    <3>2. \A j \in DOMAIN messages' : j + 1 > 1
      BY <1>1
    <3>3. serving'.reply[1].id = serving'.id /\ serving'.id # Unnumbered /\ Len(serving'.reply) = 1
      BY <1>4, <1>6, <1>7 DEF IsAnswer
    <3> QED BY <3>1, <3>2, <3>3, <1>1
  <2>5. ~takes /\ serving.reply # <<>> /\ serving.reply[1].type = "reply" =>
          \A j \in DOMAIN messages' : messages'[j].type = "stopped"
    BY <1>1 DEF InqIInv, NumbersOK
  <2> QED BY <2>1, <2>2, <2>3, <2>4, <2>5, <1>6 DEF InqIInv, NumbersOK
<1>13. RequestOK'
  <2>1. UNCHANGED <<answerer, heardOf, moved>>
    BY DEF askerHistory
  <2>2. serving.kind = "none" => serving' = serving
    <3>1. serving.kind = "none" => serving.id = Unnumbered
      BY DEF InqIInv, RequestOK, NoInquiry
    <3> QED BY <3>1, <1>3, <1>4 DEF IsAnswer
  <2> QED BY <2>1, <2>2, <1>1, <1>6, <1>7 DEF InqIInv, RequestOK, NoReply
<1>14. AnswersOK'
  <2>1. Wanted(serving') <=> Wanted(serving)
    BY <1>6 DEF Wanted
  <2>2. /\ \A x : GoodReply(x, serving) => GoodReply(x, serving')
        /\ \A of : MayShow(serving, of) => MayShow(serving', of)
    BY <1>6 DEF GoodReply, MayShow
  <2>3. takes /\ Wanted(serving) => GoodReply(m, serving)
    BY <1>1, <1>4 DEF InqIInv, AnswersOK
  <2>4. \A i \in DOMAIN messages' : IsAnswer(messages'[i], serving') /\ Wanted(serving) =>
           GoodReply(messages'[i], serving)
    BY <1>1, <1>8 DEF InqIInv, AnswersOK
  <2>5. serving.kind \in OfAStop /\ ~serving.late =>
          \A i \in DOMAIN serving.got :
             LET g == serving.got[i] IN g.do \in OfAStop /\ ~g.raised => MayShow(serving, g.of)
    BY DEF InqIInv, AnswersOK
  <2>6. ~takes /\ Wanted(serving) /\ serving.reply # <<>> /\ serving.reply[1].type = "reply" =>
          GoodReply(serving.reply[1], serving)
    BY DEF InqIInv, AnswersOK
  <2>7. Wanted(serving') /\ serving'.reply # <<>> /\ serving'.reply[1].type = "reply" =>
          GoodReply(serving'.reply[1], serving')
    BY <2>1, <2>2, <2>3, <2>6, <1>6, <1>7
  <2> QED BY <2>1, <2>2, <2>4, <2>5, <2>7, <1>6 DEF AnswersOK
<1>15. CacheOK'
  <2>1. UNCHANGED <<answerer, cached>>
    BY DEF adapter
  <2> SUFFICES ASSUME answerer = "adapter", serving.todo # <<>>, Head(serving.todo) = "stackTrace"
               PROVE  /\ \A i \in DOMAIN messages' : IsAnswer(messages'[i], serving') =>
                           \/ i = 1 /\ cached = messages'[i].of
                           \/ i > 1 /\ messages'[i - 1] = [type |-> "stackTrace", of |-> messages'[i].of]
                      /\ serving'.reply # <<>> /\ serving'.reply[1].type = "reply" =>
                           cached = serving'.reply[1].of
    BY <2>1, <1>6 DEF CacheOK
  <2>2. \A i \in DOMAIN messages : IsAnswer(messages[i], serving) =>
             \/ i = 1 /\ cached = messages[i].of
             \/ i > 1 /\ messages[i - 1] = [type |-> "stackTrace", of |-> messages[i].of]
    BY DEF InqIInv, CacheOK
  <2>3. ASSUME NEW i \in DOMAIN messages', IsAnswer(messages'[i], serving')
        PROVE  i > 1 /\ messages'[i - 1] = [type |-> "stackTrace", of |-> messages'[i].of]
    <3>1. i + 1 \in DOMAIN messages /\ IsAnswer(messages[i + 1], serving) /\ messages'[i] = messages[i + 1]
          /\ i \in Nat \ {0}
      BY <2>3, <1>1, <1>8
    <3>2. messages[(i + 1) - 1] = [type |-> "stackTrace", of |-> messages'[i].of]
      BY <3>1, <2>2
    <3>3. messages[i] = [type |-> "stackTrace", of |-> messages'[i].of]
      BY <3>1, <3>2
    <3>4. i # 1
      BY <3>3, <1>1
    <3>5. i - 1 \in DOMAIN messages' /\ (i - 1) + 1 = i
      BY <3>1, <3>4, <1>1
    <3> QED BY <3>1, <3>3, <3>4, <3>5, <1>1
  <2>4. takes => cached = m.of
    <3>1. 1 \in DOMAIN messages /\ messages[1] = m
      BY <1>1
    <3>2. takes => IsAnswer(messages[1], serving)
      BY <3>1, <1>4
    <3>3. ~(1 > 1)
      OBVIOUS
    <3> QED BY <2>2, <3>1, <3>2, <3>3
  <2>5. ~takes /\ serving.reply # <<>> /\ serving.reply[1].type = "reply" => cached = serving.reply[1].of
    BY DEF InqIInv, CacheOK
  <2> QED BY <2>3, <2>4, <2>5, <1>6, <1>7
<1>16. RecordOK'
  <2>1. UNCHANGED <<answerer, record, heardOf, moved>>
    BY DEF adapter, askerHistory
  <2>2. serving = NoInquiry => serving' = serving
    <3>1. serving = NoInquiry => serving.id = Unnumbered
      BY DEF NoInquiry
    <3> QED BY <3>1, <1>3, <1>4 DEF IsAnswer
  <2>3. serving # NoInquiry => serving.reason = serving.heardOf \/ answerer # "adapter"
    BY DEF InqIInv, RecordOK
  <2> QED BY <2>1, <2>2, <2>3, <1>6 DEF InqIInv, RecordOK
<1> QED BY <1>9, <1>10, <1>11, <1>12, <1>13, <1>14, <1>15, <1>16 DEF InqIInv

\* The stop that is heard of is the one the program is at, and nothing moves it.
LEMMA StoppedKeeps ==
    InqIInv /\ messages # <<>> /\ messages' = Tail(messages) /\ Head(messages).type = "stopped"
      /\ Hear(Head(messages))
      /\ record' = (IF answerer = "adapter" THEN [stopped |-> TRUE, reason |-> Head(messages).of]
                    ELSE record)
      /\ UNCHANGED <<answerer, programState, commands, cached, serving, numbered, inquiries>>
      => InqIInv'
<1> SUFFICES ASSUME InqIInv, messages # <<>>, messages' = Tail(messages),
                    Head(messages).type = "stopped", Hear(Head(messages)),
                    record' = (IF answerer = "adapter"
                               THEN [stopped |-> TRUE, reason |-> Head(messages).of] ELSE record),
                    UNCHANGED <<answerer, programState, commands, cached, serving, numbered, inquiries>>
             PROVE  InqIInv'
  OBVIOUS
<1> DEFINE m == Head(messages)
<1>1. /\ m = messages[1] /\ 1 \in DOMAIN messages /\ m.type = "stopped" /\ m \in Wire
      /\ messages' \in Seq(Wire) /\ messages \in Seq(Wire)
      /\ \A i \in DOMAIN messages' :
            i + 1 \in DOMAIN messages /\ messages'[i] = messages[i + 1] /\ i \in Nat \ {0}
  BY MessageTaken DEF InqIInv, InquiryTypeOK, Wire
<1>2. heardOf' = m.of /\ moved' = "no" /\ m.of \in Halts
  BY <1>1 DEF Hear, Wire, Events, Replies
<1>3. UNCHANGED <<at, stopCount, currentFrame, frames, isStopped, clears, answerer, commands, serving>>
  BY DEF programState
<1> HIDE DEF m
<1>4. heardOf \in Nat /\ stopCount \in Nat /\ serving.heardOf \in Nat
  <2>1. serving \in Servings
    BY ServingShape
  <2> QED BY <2>1 DEF InqIInv, InquiryTypeOK, Halts, Servings
<1>5. heardOf # Announced(at, stopCount) /\ Announced(at, stopCount) = heardOf + 1
      /\ m.of = Announced(at, stopCount)
      /\ \A i \in DOMAIN messages : messages[i].type = "stopped" => i = 1
  <2>1. heardOf # Announced(at, stopCount)
    BY <1>1 DEF InqIInv, StopsOK
  <2>2. Announced(at, stopCount) \in Int
    BY <1>4 DEF Announced
  <2>3. Announced(at, stopCount) = heardOf + 1
    BY <2>1, <2>2, <1>4 DEF InqIInv, StopsOK
  <2>4. m.of = Announced(at, stopCount) /\ \A i \in DOMAIN messages : messages[i].type = "stopped" => i = 1
    BY <1>1, <2>1 DEF InqIInv, StopsOK
  <2> QED BY <2>1, <2>3, <2>4
<1>6. at = "halted" /\ m.of = stopCount
  <2>1. at = "halted"
    BY <1>5 DEF InqIInv, StopsOK
  <2> QED BY <2>1, <1>5 DEF Announced
<1>7. heardOf' = stopCount /\ heardOf' # 0 /\ heardOf' = heardOf + 1 /\ heardOf # stopCount
  BY <1>2, <1>4, <1>5, <1>6
<1>8. \A i \in DOMAIN messages' : messages'[i].type # "stopped"
  <2>1. \A i \in DOMAIN messages' : i + 1 # 1
    BY <1>1
  <2> QED BY <2>1, <1>1, <1>5
<1>9. ~Outstanding(serving, commands)
  BY <1>7 DEF InqIInv, MovesOK
<1>10. InquiryTypeOK'
  <2>1. record' \in [stopped : BOOLEAN, reason : Halts]
    BY <1>2 DEF m, InqIInv, InquiryTypeOK
  <2> QED BY <2>1, <1>1, <1>2, <1>3 DEF InqIInv, InquiryTypeOK, Wire, Resuming
<1>11. ProgramOK'
  BY ProgramKept DEF InqIInv
<1>12. StopsOK'
  <2>1. Announced(at', stopCount') = heardOf'
    BY <1>3, <1>6, <1>7, <1>4 DEF Announced
  <2>2. heardOf' <= heardOf' /\ heardOf' <= heardOf' + 1
    BY <1>7, <1>4
  <2>3. \A i \in DOMAIN messages' : messages'[i].type # "stopped"
    BY <1>8
  <2> QED BY <2>1, <2>2, <2>3 DEF StopsOK
<1>13. MovesOK'
  <2>1. ~OnItsWay(commands) /\ ~ToSend(serving)
    BY <1>9 DEF Outstanding
  <2>2. \A i \in DOMAIN commands : commands[i].do \notin Movers
    BY <2>1 DEF OnItsWay
  <2>3. \A i \in DOMAIN commands : commands[i].do \notin Resuming /\ commands[i].do # "goto"
    BY <2>2 DEF Movers
  <2>4. serving.kind = "goto" => at' = "halted" /\ heardOf' # 0
    BY <1>3, <1>6, <1>7
  <2>5. moved' = "no" /\ heardOf' = stopCount' /\ at' = "halted" /\ heardOf' # 0
    BY <1>2, <1>3, <1>6, <1>7
  <2>6. \A i, j \in DOMAIN commands' : commands'[i].do \in Movers /\ commands'[j].do \in Movers => i = j
    BY <2>2, <1>3
  <2>7. ~ToSend(serving') /\ ~Outstanding(serving', commands')
    BY <2>1, <1>9, <1>3
  <2>8. \A i \in DOMAIN commands' : commands'[i].do = "goto" /\ moved' = "no" => commands'[i].id = serving'.id
    BY <2>3, <1>3
  <2>9. serving'.kind = "goto" =>
         /\ at' = "halted" /\ heardOf' # 0
         /\ \A i \in DOMAIN commands' : commands'[i].do \notin Resuming
         /\ \A i, j \in DOMAIN messages' :
              messages'[i].type = "stopped" /\ IsAnswer(messages'[j], serving') => i < j
    BY <2>3, <2>4, <1>3, <1>8
  <2> HIDE DEF m
  <2> QED BY <2>5, <2>6, <2>7, <2>8, <2>9 DEF MovesOK
<1>14. \A i \in DOMAIN messages' : IsAnswer(messages'[i], serving) =>
          i + 1 \in DOMAIN messages /\ IsAnswer(messages[i + 1], serving)
  BY <1>1
<1>15. NumbersOK'
  <2>1. \A i \in DOMAIN messages' : IsAnswer(messages'[i], serving) =>
          /\ commands = <<>>
          /\ \A j \in DOMAIN messages' : j > i => messages'[j].type = "stopped"
    <3> SUFFICES ASSUME NEW i \in DOMAIN messages', IsAnswer(messages'[i], serving)
                 PROVE  /\ commands = <<>>
                        /\ \A j \in DOMAIN messages' : j > i => messages'[j].type = "stopped"
      OBVIOUS
    <3>1. /\ commands = <<>>
          /\ \A j \in DOMAIN messages : j > i + 1 => messages[j].type = "stopped"
      BY <1>14 DEF InqIInv, NumbersOK
    <3>2. \A j \in DOMAIN messages' : j > i => j + 1 > i + 1
      BY <1>1
    <3> QED BY <3>1, <3>2, <1>1
  <2> QED BY <2>1, <1>1, <1>3 DEF InqIInv, NumbersOK
<1>16. RequestOK'
  <2>1. serving.heardOf <= heardOf'
    BY <1>4, <1>7 DEF InqIInv, RequestOK
  <2>2. ~(serving.kind \in OfAStop /\ serving.heardOf # 0 /\ serving.moved = "no")
    <3> SUFFICES ASSUME serving.kind \in OfAStop, serving.heardOf # 0, serving.moved = "no"
                 PROVE  FALSE
      OBVIOUS
    <3>1. heardOf = serving.heardOf /\ moved = "no"
      BY DEF InqIInv, RequestOK
    <3>2. serving.kind # "goto"
      BY DEF OfAStop
    <3> QED BY <3>1, <3>2, <1>7 DEF InqIInv, MovesOK, Jumping
  <2> QED BY <2>1, <2>2, <1>3 DEF InqIInv, RequestOK
<1>17. AnswersOK'
  BY <1>1, <1>3, <1>14 DEF InqIInv, AnswersOK
<1>18. CacheOK'
  <2>1. UNCHANGED cached
    OBVIOUS
  <2> SUFFICES ASSUME answerer = "adapter", serving.todo # <<>>, Head(serving.todo) = "stackTrace",
                      NEW i \in DOMAIN messages', IsAnswer(messages'[i], serving)
               PROVE  i > 1 /\ messages'[i - 1] = [type |-> "stackTrace", of |-> messages'[i].of]
    BY <2>1, <1>3 DEF InqIInv, CacheOK
  <2>2. messages[(i + 1) - 1] = [type |-> "stackTrace", of |-> messages[i + 1].of]
    BY <1>14, <1>1 DEF InqIInv, CacheOK
  <2>3. i \in Nat \ {0} /\ messages[i] = [type |-> "stackTrace", of |-> messages'[i].of]
    BY <2>2, <1>1
  <2>4. i # 1
    BY <2>3, <1>1
  <2>5. i - 1 \in DOMAIN messages' /\ (i - 1) + 1 = i
    BY <2>3, <2>4, <1>1
  <2> QED BY <2>3, <2>4, <2>5, <1>1
<1>19. RecordOK'
  <2>1. answerer = "adapter" => record'.reason = m.of
    BY DEF m
  <2> QED BY <2>1, <1>2, <1>3, <1>7 DEF InqIInv, RecordOK
<1> QED BY <1>10, <1>11, <1>12, <1>13, <1>15, <1>16, <1>17, <1>18, <1>19 DEF InqIInv

\* What the debuggee shows in an event may be kept by the adapter.
LEMMA NoticeKeeps ==
    InqIInv /\ messages # <<>> /\ messages' = Tail(messages)
      /\ Head(messages).type \notin {"reply", "stopped"}
      /\ cached' = (IF answerer = "adapter" /\ Head(messages).type = "stackTrace"
                    THEN Head(messages).of ELSE cached)
      /\ UNCHANGED <<answerer, programState, commands, record, serving, numbered, askerHistory, inquiries>>
      => InqIInv'
<1> SUFFICES ASSUME InqIInv, messages # <<>>, messages' = Tail(messages),
                    Head(messages).type \notin {"reply", "stopped"},
                    cached' = (IF answerer = "adapter" /\ Head(messages).type = "stackTrace"
                               THEN Head(messages).of ELSE cached),
                    UNCHANGED <<answerer, programState, commands, record, serving, numbered,
                                askerHistory, inquiries>>
             PROVE  InqIInv'
  OBVIOUS
<1> DEFINE m == Head(messages)
<1>1. /\ m = messages[1] /\ 1 \in DOMAIN messages /\ m.type \notin {"reply", "stopped"} /\ m \in Wire
      /\ messages' \in Seq(Wire) /\ messages \in Seq(Wire)
      /\ \A i \in DOMAIN messages' :
            i + 1 \in DOMAIN messages /\ messages'[i] = messages[i + 1] /\ i \in Nat \ {0}
  BY MessageTaken DEF InqIInv, InquiryTypeOK, Wire
<1>2. UNCHANGED <<at, stopCount, heardOf, moved, answerer, commands, serving>>
  BY DEF programState, askerHistory
<1> HIDE DEF m
<1>3. InquiryTypeOK'
  <2>1. m.of \in Halts
    BY <1>1 DEF Wire, Events, Replies
  <2>2. cached' \in Halts \union {Absent}
    BY <2>1 DEF m, InqIInv, InquiryTypeOK
  <2> QED BY <2>2, <1>1 DEF InqIInv, InquiryTypeOK, Wire, programState, askerHistory
<1>4. ProgramOK' /\ StopsOK' /\ RequestOK' /\ RecordOK'
  BY ProgramKept, StopsStay, RequestKept, RecordKept DEF InqIInv, askerHistory
<1>5. \A i \in DOMAIN messages' : IsAnswer(messages'[i], serving) =>
          i + 1 \in DOMAIN messages /\ IsAnswer(messages[i + 1], serving)
  BY <1>1
<1>6. MovesOK'
  <2>1. \A i, j \in DOMAIN messages' :
           messages'[i].type = "stopped" /\ IsAnswer(messages'[j], serving') /\ serving.kind = "goto"
             => i < j
    <3> SUFFICES ASSUME NEW i \in DOMAIN messages', NEW j \in DOMAIN messages',
                        messages'[i].type = "stopped", IsAnswer(messages'[j], serving'),
                        serving.kind = "goto"
                 PROVE  i < j
      OBVIOUS
    <3>1. i + 1 < j + 1
      BY <1>1, <1>2 DEF InqIInv, MovesOK
    <3> QED BY <3>1, <1>1
  <2> QED BY <2>1, <1>2 DEF InqIInv, MovesOK
<1>7. NumbersOK'
  <2>1. \A i \in DOMAIN messages' : IsAnswer(messages'[i], serving) =>
          /\ commands = <<>>
          /\ \A j \in DOMAIN messages' : j > i => messages'[j].type = "stopped"
    <3> SUFFICES ASSUME NEW i \in DOMAIN messages', IsAnswer(messages'[i], serving)
                 PROVE  /\ commands = <<>>
                        /\ \A j \in DOMAIN messages' : j > i => messages'[j].type = "stopped"
      OBVIOUS
    <3>1. /\ commands = <<>>
          /\ \A j \in DOMAIN messages : j > i + 1 => messages[j].type = "stopped"
      BY <1>5 DEF InqIInv, NumbersOK
    <3>2. \A j \in DOMAIN messages' : j > i => j + 1 > i + 1
      BY <1>1
    <3> QED BY <3>1, <3>2, <1>1
  <2> QED BY <2>1, <1>1, <1>2 DEF InqIInv, NumbersOK
<1>8. AnswersOK'
  BY <1>1, <1>2, <1>5 DEF InqIInv, AnswersOK
<1>9. CacheOK'
  <2> SUFFICES ASSUME answerer = "adapter", serving.todo # <<>>, Head(serving.todo) = "stackTrace"
               PROVE  /\ \A i \in DOMAIN messages' : IsAnswer(messages'[i], serving) =>
                           \/ i = 1 /\ cached' = messages'[i].of
                           \/ i > 1 /\ messages'[i - 1] = [type |-> "stackTrace", of |-> messages'[i].of]
                      /\ serving.reply # <<>> /\ serving.reply[1].type = "reply" =>
                           cached' = serving.reply[1].of
    BY <1>2 DEF CacheOK
  <2>1. ASSUME NEW i \in DOMAIN messages', IsAnswer(messages'[i], serving)
        PROVE  \/ i = 1 /\ cached' = messages'[i].of
               \/ i > 1 /\ messages'[i - 1] = [type |-> "stackTrace", of |-> messages'[i].of]
    <3>1. i \in Nat \ {0} /\ messages'[i] = messages[i + 1]
      BY <1>1
    <3>2. messages[(i + 1) - 1] = [type |-> "stackTrace", of |-> messages[i + 1].of]
      BY <2>1, <1>5, <3>1 DEF InqIInv, CacheOK
    <3>3. messages[i] = [type |-> "stackTrace", of |-> messages'[i].of]
      BY SMTT(30), <3>1, <3>2
    <3>4. CASE i = 1
      BY <3>3, <3>4, <1>1 DEF m
    <3>5. CASE i # 1
      <4>1. i - 1 \in DOMAIN messages' /\ (i - 1) + 1 = i
        BY <3>1, <3>5, <1>1
      <4> QED BY <3>1, <3>3, <3>5, <4>1, <1>1
    <3> QED BY <3>4, <3>5
  <2>2. ASSUME serving.reply # <<>>, serving.reply[1].type = "reply"
        PROVE  cached' = serving.reply[1].of
    <3>1. \A j \in DOMAIN messages : messages[j].type = "stopped"
      BY <2>2 DEF InqIInv, NumbersOK
    <3> QED BY <3>1, <1>1
  <2> QED BY <2>1, <2>2
<1> QED BY <1>3, <1>4, <1>6, <1>7, <1>8, <1>9 DEF InqIInv

\* A message is the reply to a command, a stop, or a notice.
LEMMA MessageKeeps == InqIInv /\ (handle_debug_message \/ Receive) => InqIInv'
<1> SUFFICES ASSUME InqIInv, handle_debug_message \/ Receive PROVE InqIInv' OBVIOUS
<1> DEFINE m == Head(messages)
<1>1. /\ messages # <<>> /\ messages' = Tail(messages)
      /\ UNCHANGED <<answerer, programState, commands, numbered, inquiries>>
  BY DEF handle_debug_message, Receive
<1>2. CASE handle_debug_message
  <2>1. CASE m.type = "reply" /\ handle_reply(m) /\ UNCHANGED <<adapter, heardOf, moved>>
    BY <2>1, <1>1, ReplyKeeps DEF askerHistory
  <2>2. CASE m.type = "stopped" /\ handle_event_stopped(m) /\ Hear(m) /\ UNCHANGED <<cached, serving>>
    <3>1. answerer = "adapter"
      BY <1>2 DEF handle_debug_message
    <3> QED BY <2>2, <3>1, <1>1, StoppedKeeps DEF handle_event_stopped
  <2>3. CASE m.type = "stackTrace" /\ handle_event_stacktrace(m)
               /\ UNCHANGED <<record, serving, heardOf, moved>>
    <3>1. answerer = "adapter"
      BY <1>2 DEF handle_debug_message
    <3> QED BY <2>3, <3>1, <1>1, NoticeKeeps DEF handle_event_stacktrace, askerHistory
  <2>4. CASE m.type \in {"variables", "evaluate", "exceptionInfo"}
               /\ UNCHANGED <<adapter, serving, heardOf, moved>>
    BY <2>4, <1>1, NoticeKeeps DEF askerHistory, adapter
  <2> QED BY <1>2, <2>1, <2>2, <2>3, <2>4 DEF handle_debug_message
<1>3. CASE Receive
  <2>1. UNCHANGED adapter /\ answerer # "adapter"
    BY <1>3 DEF Receive
  <2>2. CASE m.type = "reply" /\ handle_reply(m) /\ UNCHANGED <<heardOf, moved>>
    BY <2>1, <2>2, <1>1, ReplyKeeps DEF askerHistory
  <2>3. CASE m.type = "stopped" /\ Hear(m) /\ UNCHANGED serving
    BY <2>1, <2>3, <1>1, StoppedKeeps DEF adapter
  <2>4. CASE m.type \notin {"reply", "stopped"} /\ UNCHANGED <<serving, heardOf, moved>>
    BY <2>1, <2>4, <1>1, NoticeKeeps DEF adapter, askerHistory
  <2> QED BY <1>3, <2>2, <2>3, <2>4 DEF Receive
<1> QED BY <1>2, <1>3

-----------------------------------------------------------------------------
LEMMA InquiryStart == InquiryInit => InqIInv
<1> SUFFICES ASSUME InquiryInit PROVE InqIInv OBVIOUS
<1>1. /\ answerer \in Answerers
      /\ at = "running" /\ stopCount = 0 /\ currentFrame = 0 /\ frames = 0
      /\ isStopped = FALSE /\ clears = FALSE
      /\ commands = <<>> /\ messages = <<>>
      /\ record = [stopped |-> FALSE, reason |-> 0] /\ cached = Absent
      /\ serving = NoInquiry /\ numbered = 0
      /\ heardOf = 0 /\ moved = "no" /\ inquiries = 0
  BY DEF InquiryInit
<1>2. /\ NoInquiry.todo = <<>> /\ NoInquiry.id = Unnumbered /\ NoInquiry.reply = <<>> /\ NoInquiry.kind = "none"
      /\ NoInquiry.got = <<>> /\ NoInquiry.heardOf = 0
  BY DEF NoInquiry
<1>3. 0 \in Halts
  BY DEF Halts
<1>4. NoInquiry \in Servings
  BY <1>3 DEF NoInquiry, Servings, Unnumbered
<1>5. DOMAIN commands = {} /\ DOMAIN messages = {} /\ DOMAIN serving.got = {}
  BY <1>1, <1>2
<1>6. InquiryTypeOK
  <2>1. commands \in Seq([do : Verbs, id : Nat]) /\ messages \in Seq(Events \union Replies)
    BY <1>1
  <2>2. record \in [stopped : BOOLEAN, reason : Halts]
    BY <1>1, <1>3
  <2>3. cached \in Halts \union {Absent} /\ moved \in Resuming \union {"no"} /\ numbered \in Nat
    BY <1>1
  <2>4. inquiries \in 0..MaxInquiries
    BY <1>1
  <2>5. stopCount \in Halts /\ currentFrame \in Halts /\ frames \in Halts /\ heardOf \in Halts
    BY <1>1, <1>3
  <2> QED BY <1>1, <1>4, <2>1, <2>2, <2>3, <2>4, <2>5 DEF InquiryTypeOK
<1>7. ProgramOK
  BY <1>1 DEF ProgramOK
<1>8. StopsOK
  BY <1>1, <1>5 DEF StopsOK, Announced
<1>9. MovesOK
  BY <1>1, <1>2, <1>5 DEF MovesOK, Outstanding, ToSend, OnItsWay
<1>10. NumbersOK
  BY <1>1, <1>2, <1>5 DEF NumbersOK
<1>11. RequestOK
  <2>1. "none" \notin Simple /\ "none" \notin Agents /\ "none" \notin OfAStop
    BY DEF Simple, Agents, OfAStop
  <2> QED BY <1>1, <1>2, <2>1 DEF RequestOK
<1>12. AnswersOK /\ CacheOK
  BY <1>1, <1>2, <1>5 DEF AnswersOK, CacheOK
<1>13. RecordOK
  BY <1>1, <1>2 DEF RecordOK
<1> QED BY <1>6, <1>7, <1>8, <1>9, <1>10, <1>11, <1>12, <1>13 DEF InqIInv

\* Every step keeps the parts together.
LEMMA InquiryStep == InqIInv /\ [InquiryNext]_inquiryVars => InqIInv'
<1> SUFFICES ASSUME InqIInv, [InquiryNext]_inquiryVars PROVE InqIInv' OBVIOUS
<1>1. CASE \E ofStep \in BOOLEAN : BeginStop(ofStep)
  BY <1>1, BeginStopKeeps
<1>2. CASE Show \/ Announce \/ GoOn
  BY <1>2, ShowKeeps, AnnounceKeeps, GoOnKeeps
<1>3. CASE HandleLook \/ _cmd_resume \/ _cmd_goto
  BY <1>3, HandleLookKeeps, ResumeKeeps, GotoKeeps
<1>4. CASE \E kind \in Simple \union Agents : AskAdapter(kind) \/ AskLauncher(kind)
  BY <1>4, AskAdapterKeeps, AskLauncherKeeps
<1>5. CASE RefuseSnapshot \/ Send \/ GiveUp \/ Proceed \/ Tell
  BY <1>5, RefuseSnapshotKeeps, SendKeeps, GiveUpKeeps, ProceedKeeps, TellKeeps
<1>6. CASE handle_debug_message \/ Receive
  BY <1>6, MessageKeeps
<1>7. CASE UNCHANGED inquiryVars
  <2>1. /\ UNCHANGED <<answerer, programState, wire, adapter, serving, numbered, askerHistory, inquiries>>
    BY <1>7 DEF inquiryVars
  <2>2. InquiryTypeOK'
    BY <2>1 DEF InqIInv, InquiryTypeOK, programState, wire, adapter, askerHistory
  <2> QED
    BY <2>1, <2>2, ProgramKept, StopsKept, MovesKept, NumbersKept, RequestKept, AnswersKept,
       CacheKept, RecordKept DEF InqIInv, wire, adapter, askerHistory
<1> QED BY <1>1, <1>2, <1>3, <1>4, <1>5, <1>6, <1>7 DEF InquiryNext

\* They hold together in every state.
LEMMA InquiryInvariant == InquirySpec => []InqIInv
BY InquiryStart, InquiryStep, PTL DEF InquirySpec

\* What an answer is made of may be shown.
LEMMA AnswerMayBeShown ==
    ASSUME InqIInv, Answered, Answering.to \in OfAStop, ~serving.late, NEW of \in Answering.shows
    PROVE  MayShow(serving, of)
<1>1. serving.kind \in OfAStop
  BY DEF Answering
<1>2. PICK r \in Range(serving.got) : r.do \in Shown /\ ~r.raised /\ of = r.of
  BY DEF Answering
<1>3. PICK i \in DOMAIN serving.got : r = serving.got[i]
  BY <1>2 DEF Range
<1>4. Shown \subseteq OfAStop
  <2>1. CASE serving.kind \in Simple \/ answerer = "launcher"
    BY <2>1, <1>1 DEF Shown
  <2>2. CASE ~(serving.kind \in Simple \/ answerer = "launcher")
    BY <2>2 DEF Shown, OfAStop
  <2> QED BY <2>1, <2>2
<1> QED BY <1>1, <1>2, <1>3, <1>4 DEF InqIInv, AnswersOK

\* Whoever asks, and however often the program stops or goes on meanwhile, an answer that
\* came in time is of the stop its asker had been told of when it asked, or of a later
\* one, or of a program that was told to run: the stack the adapter keeps of an earlier
\* event never stands in for a stop that has passed (_extract_stack_frames_from_body,
\* handle_event_stacktrace, the debuggee's _frame_stack and current frame).
THEOREM AnswersAreAlwaysCurrent == InquirySpec => []AnswersAreCurrent
<1>1. InqIInv => AnswersAreCurrent
  <2> SUFFICES ASSUME InqIInv, Answered, Answering.to \in OfAStop, ~serving.late,
                      NEW of \in Answering.shows
               PROVE  of >= serving.heardOf \/ (of = 0 /\ serving.moved # "no")
    BY DEF AnswersAreCurrent
  <2> QED BY AnswerMayBeShown DEF MayShow
<1> QED BY <1>1, InquiryInvariant, PTL

\* What the adapter puts together for an agent from several commands is of one stop, and
\* so is the reason it read before them, unless the program was told to go on between
\* (_handle_dapper_agent_snapshot, _agent_eval and _agent_inspect).
THEOREM SnapshotIsAlwaysOfOneStop == InquirySpec => []SnapshotOfOneStop
<1>1. InqIInv => SnapshotOfOneStop
  <2> SUFFICES ASSUME InqIInv, answerer = "adapter", Answered, Answering.to \in Agents, ~serving.late
               PROVE  /\ Answering.to = "agentSnapshot" =>
                           /\ serving.moved # "continue"
                           /\ serving.moved = "no" => Answering.shows \subseteq {serving.reason}
                      /\ serving.heardOf # 0 /\ serving.moved = "no" =>
                           \A s, t \in Answering.shows : s = t
    BY DEF SnapshotOfOneStop
  <2>1. Answering.to = serving.kind /\ serving # NoInquiry /\ Answering.to \in OfAStop
    BY DEF Answering, Answered, Agents, OfAStop
  <2>2. serving.reason = serving.heardOf
        /\ (serving.kind = "agentSnapshot" => serving.heardOf # 0 /\ serving.moved # "continue")
    BY <2>1 DEF InqIInv, RecordOK
  <2>3. \A of \in Answering.shows : serving.heardOf # 0 /\ serving.moved = "no" => of = serving.heardOf
    BY <2>1, AnswerMayBeShown DEF MayShow
  <2> QED BY <2>1, <2>2, <2>3
<1> QED BY <1>1, InquiryInvariant, PTL

=============================================================================
