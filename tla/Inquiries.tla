------------------------------ MODULE Inquiries ------------------------------
(***************************************************************************)
(* What a client, or the language model behind the editor, asks about a    *)
(* stopped program, and on whose word it is answered.  Through the adapter *)
(* a request becomes commands to the debuggee, one after the other, each   *)
(* of which may be given up; the debuggee announces what it shows in       *)
(* events besides its replies, and what the adapter remembers of them      *)
(* stands in for an empty reply.  The editor extension sends its requests  *)
(* to the debuggee itself.                                                 *)
(*                                                                         *)
(* A stop is named by its number, and so is what belongs to it: its        *)
(* frames, what an expression is worth there, the reason it was announced  *)
(* with.  Which object a variable reference leads to is the subject of     *)
(* Inspection.  Pauses and watches, which announce stops without stopping, *)
(* are left to LauncherSession.                                            *)
(***************************************************************************)
EXTENDS Naturals, Sequences, Functions

CONSTANTS
    Answerers,      \* who may answer the client: "launcher", "adapter" or both
    MaxHalts,       \* bound on the stops of the program
    MaxInquiries,   \* bound on the client's requests
    MaxSteps        \* bound on the expressions of a batch and the levels of a tree

ASSUME AnswerersAssumption == Answerers \subseteq {"launcher", "adapter"}
ASSUME InquiryBounds == MaxHalts \in Nat /\ MaxInquiries \in Nat /\ MaxSteps \in Nat \ {0}

Halts == 0..MaxHalts           \* 0: no stop
Absent == MaxHalts + 1         \* the adapter has no stack cached for the thread
Unnumbered == 0                  \* of a command that wants no reply; the others count from 1

Resuming == {"continue", "next"}   \* stepIn and stepOut differ from next in where they stop

VARIABLES
    answerer,   \* who answers the client in this session
    at,         \* the program's thread: running, announcing, shown, halted, waking
    stopCount,      \* the number of the latest stop
    currentFrame,    \* stepping_controller.current_frame: of which stop
    frames,     \* ThreadTracker.frames_by_thread: of which stop
    isStopped,     \* the thread is in stopped_thread_ids
    clears,     \* the thread drops its frames when it goes on (a stop of a step)
    commands,   \* on their way to the debuggee
    messages,   \* on their way from it
    record,     \* the adapter's record of the thread
    cached,     \* the stack the adapter has cached for it
    serving,    \* the request being served
    numbered,       \* the number of the latest command that wants a reply
    heardOf,       \* history: the latest stop the one who asks was told of
    moved,      \* history: how the program was told to go on since
    inquiries   \* requests so far

programState == <<at, stopCount, currentFrame, frames, isStopped, clears>>
wire == <<commands, messages>>
adapter == <<record, cached>>
askerHistory == <<heardOf, moved>>
inquiryVars ==
    <<answerer, programState, wire, adapter, serving, numbered, askerHistory, inquiries>>

NoInquiry == [kind |-> "none", todo |-> <<>>, got |-> <<>>, id |-> Unnumbered, reply |-> <<>>,
         reason |-> 0, heardOf |-> 0, moved |-> "no", late |-> FALSE]

InquiryInit ==
    /\ answerer \in Answerers
    /\ at = "running" /\ stopCount = 0 /\ currentFrame = 0 /\ frames = 0
    /\ isStopped = FALSE /\ clears = FALSE
    /\ commands = <<>> /\ messages = <<>>
    /\ record = [stopped |-> FALSE, reason |-> 0] /\ cached = Absent
    /\ serving = NoInquiry /\ numbered = 0
    /\ heardOf = 0 /\ moved = "no" /\ inquiries = 0

-----------------------------------------------------------------------------
(* The program's thread.                                                   *)

\* A stop begins: at a breakpoint or an exception, or at the end of a step.
BeginStop(ofStep) ==
    /\ at = "running" /\ stopCount < MaxHalts
    /\ at' = "announcing"
    /\ stopCount' = stopCount + 1
    /\ currentFrame' = stopCount + 1
    /\ isStopped' = TRUE
    /\ clears' = ofStep
    /\ UNCHANGED <<answerer, frames, wire, adapter, serving, numbered, askerHistory, inquiries>>

\* The frames are shown, then the stop is announced; the thread waits.
Shows(f) ==
    /\ at = "announcing"
    /\ at' = "shown"
    /\ frames' = f
    /\ UNCHANGED <<answerer, stopCount, currentFrame, isStopped, clears, wire, adapter,
                   serving, numbered, askerHistory, inquiries>>

\* (the mutant keeps the frames it has for the thread)
M_Show == Shows(IF frames = 0 THEN stopCount ELSE frames)

Show == Shows(stopCount)

Announce ==
    /\ at = "shown"
    /\ at' = "halted"
    /\ messages' = Append(messages, [type |-> "stopped", of |-> stopCount])
    /\ UNCHANGED <<answerer, stopCount, currentFrame, frames, isStopped, clears, commands,
                   adapter, serving, numbered, askerHistory, inquiries>>

\* The thread goes on; after a stop of a step it drops the frames it showed.
GoOn ==
    /\ at = "waking"
    /\ at' = "running"
    /\ frames' = IF clears THEN 0 ELSE frames
    /\ UNCHANGED <<answerer, stopCount, currentFrame, isStopped, clears, wire, adapter,
                   serving, numbered, askerHistory, inquiries>>

-----------------------------------------------------------------------------
(* The debuggee's handlers.  Each reads what is there, whatever the        *)
(* program's thread is at, and sends its reply after its event.            *)

Reply(id, ok, of) ==
    IF id = Unnumbered THEN <<>> ELSE <<[type |-> "reply", id |-> id, ok |-> ok, of |-> of]>>

\* The event says what the reply says, an empty stack included.
handle_stack_trace(id) ==
    <<[type |-> "stackTrace", of |-> frames]>> \o Reply(id, TRUE, frames)

\* Whatever frame is asked for, the current one is looked at.
_cmd_evaluate(id) ==
    <<[type |-> "evaluate", of |-> currentFrame]>> \o Reply(id, TRUE, currentFrame)

\* Without a frame nothing is assigned.
_cmd_set_expression(id) == Reply(id, currentFrame # 0, currentFrame)

\* An object any stop has shown may be behind a number.
_cmd_variables(id, of) == <<[type |-> "variables", of |-> of]>> \o Reply(id, TRUE, of)

\* A target for a frame that is still tracked, else none.
_cmd_goto_targets(id) == Reply(id, TRUE, frames)

\* The information is sent as an event, and there is no reply.
cmd_exception_info == <<[type |-> "exceptionInfo", of |-> stopCount]>>

\* The stack of a thread that has stopped.  (The reason it gives, "exception" as soon
\* as there has been one, is left out.)
_cmd_agent_snapshot(id) ==
    IF isStopped THEN Reply(id, TRUE, frames) ELSE Reply(id, FALSE, 0)

\* The frame of a stopped thread, or none.
_get_frame_by_index == IF isStopped THEN frames ELSE 0

\* Expressions are worth something without a frame too: in the handler's own.
_cmd_agent_eval(id) == Reply(id, TRUE, _get_frame_by_index)

_cmd_agent_inspect(id, fails) ==
    IF fails THEN Reply(id, FALSE, 0) ELSE Reply(id, TRUE, _get_frame_by_index)

\* A command the debuggee has no handler for.
unknown_command(id) == Reply(id, FALSE, 0)

\* What the commands that only look send.
Looked(c) ==
    CASE c.do = "stackTrace"    -> {handle_stack_trace(c.id)}
      [] c.do = "evaluate"      -> {_cmd_evaluate(c.id)}
      [] c.do = "setExpression" -> {_cmd_set_expression(c.id)}
      [] c.do = "variables"     -> {_cmd_variables(c.id, s) : s \in 0..currentFrame}
      [] c.do = "gotoTargets"   -> {_cmd_goto_targets(c.id)}
      [] c.do = "exceptionInfo" -> {cmd_exception_info}
      [] c.do = "agentSnapshot" -> {_cmd_agent_snapshot(c.id)}
      [] c.do = "agentEval"     -> {_cmd_agent_eval(c.id)}
      [] c.do = "agentInspect"  -> {_cmd_agent_inspect(c.id, fails) : fails \in BOOLEAN}
      [] c.do = "completions"   -> {unknown_command(c.id)}

Looking == {"stackTrace", "evaluate", "setExpression", "variables", "gotoTargets",
            "exceptionInfo", "agentSnapshot", "agentEval", "agentInspect", "completions"}

HandleLook ==
    /\ commands # <<>> /\ Head(commands).do \in Looking
    /\ commands' = Tail(commands)
    /\ \E out \in Looked(Head(commands)) : messages' = messages \o out
    /\ UNCHANGED <<answerer, programState, adapter, serving, numbered, askerHistory, inquiries>>

\* The handler of a resume command takes the mark away and answers; then the
\* thread is woken.  A signal while it does not wait yet is lost.
_cmd_resume ==
    /\ commands # <<>> /\ Head(commands).do \in Resuming
    /\ commands' = Tail(commands)
    /\ messages' = messages \o Reply(Head(commands).id, TRUE, stopCount)
    /\ isStopped' = FALSE
    /\ at' = IF at = "halted" THEN "waking" ELSE at
    /\ UNCHANGED <<answerer, stopCount, currentFrame, frames, clears, adapter, serving, numbered,
                   askerHistory, inquiries>>

\* A jump is a stop of its own, announced by the receiver's thread before the
\* reply; it needs the frames of a stop, and Python may refuse it.
_cmd_goto ==
    /\ commands # <<>> /\ Head(commands).do = "goto"
    /\ commands' = Tail(commands)
    /\ \/ /\ at = "halted" /\ frames # 0 /\ stopCount < MaxHalts
          /\ stopCount' = stopCount + 1 /\ currentFrame' = stopCount + 1 /\ frames' = stopCount + 1
          /\ isStopped' = TRUE
          /\ messages' = messages \o <<[type |-> "stopped", of |-> stopCount + 1]>>
                                  \o Reply(Head(commands).id, TRUE, stopCount + 1)
       \/ /\ messages' = messages \o Reply(Head(commands).id, FALSE, 0)
          /\ UNCHANGED <<stopCount, currentFrame, frames, isStopped>>
    /\ UNCHANGED <<answerer, at, clears, adapter, serving, numbered, askerHistory, inquiries>>

-----------------------------------------------------------------------------
(* The adapter: what its backend makes of a reply.                         *)

NoReply == [type |-> "none", id |-> Unnumbered, ok |-> FALSE, of |-> 0]
Raised == [raised |-> TRUE, of |-> 0]
Result(of) == [raised |-> FALSE, of |-> of]

\* The body, or a default, which shows nothing of the program.
_extract_body(reply) == Result(IF reply.ok THEN reply.of ELSE 0)

_dispatch_goto_targets(reply) == _extract_body(reply)

\* Only a refusal that arrives is an error.
_dispatch_goto(reply) ==
    IF reply.type = "reply" /\ ~reply.ok THEN Raised ELSE Result(0)

_dispatch_stack_trace(reply) == _extract_body(reply)

_dispatch_variables(reply) == _extract_body(reply)

\* A value that was not assigned, or of which nothing is known, is the one asked for.
_dispatch_set_expression(reply) == _extract_body(reply)

_dispatch_evaluate(reply) == IF reply.type = "none" THEN Raised ELSE _extract_body(reply)

_dispatch_completions(reply) == _extract_body(reply)

_dispatch_exception_info(reply) == _extract_body(reply)

Dispatched(command, reply) ==
    CASE command = "gotoTargets"   -> _dispatch_goto_targets(reply)
      [] command = "goto"          -> _dispatch_goto(reply)
      [] command = "stackTrace"    -> _dispatch_stack_trace(reply)
      [] command = "variables"     -> _dispatch_variables(reply)
      [] command = "setExpression" -> _dispatch_set_expression(reply)
      [] command = "evaluate"      -> _dispatch_evaluate(reply)
      [] command = "completions"   -> _dispatch_completions(reply)
      [] command = "exceptionInfo" -> _dispatch_exception_info(reply)
      [] command = "continue"      -> Result(0)

\* A stack without frames is taken from the cache, if there is one.
get_stack_trace(result) ==
    IF result.of = 0 /\ cached # Absent THEN Result(cached) ELSE result

\* next, stepIn and stepOut are sent and not waited for.
Waits(command) == command # "next"

-----------------------------------------------------------------------------
(* The adapter: requests.                                                  *)

Simple == {"stackTrace", "variables", "evaluate", "setExpression", "gotoTargets", "goto",
           "exceptionInfo", "completions", "continue", "next"}
Agents == {"agentSnapshot", "agentEval", "agentInspect"}

\* The frame an index means is looked for in the stack of a thread that has stopped.
_resolve_frame_id_by_index == IF record.stopped THEN <<"stackTrace">> ELSE <<>>

\* The commands a request begins with.
Plan(kind) ==
    CASE kind \in Simple -> <<kind>>
      [] kind = "agentSnapshot" -> <<"stackTrace">>
      [] kind \in {"agentEval", "agentInspect"} ->
            Append(_resolve_frame_id_by_index, "evaluate")

\* What a request sends next, from the result it has just been given: the scopes of the
\* top frame, one more expression, one more level of children.
_build_agent_call_stack(result) ==
    IF serving.todo = <<"stackTrace">> /\ result.of # 0 THEN {<<"variables", "variables">>}
    ELSE {Tail(serving.todo)}

_evaluate_expressions ==
    {Tail(serving.todo)}
        \union (IF Head(serving.todo) = "evaluate" /\ Len(serving.got) < MaxSteps
                THEN {<<"evaluate">>} ELSE {})

_expand_variable_tree(result) ==
    {Tail(serving.todo)}
        \union (IF Head(serving.todo) # "stackTrace" /\ ~result.raised
                    /\ Len(serving.got) < MaxSteps
                THEN {<<"variables">>} ELSE {})

Then(result) ==
    CASE serving.kind = "agentSnapshot" -> _build_agent_call_stack(result)
      [] serving.kind = "agentEval" -> _evaluate_expressions
      [] serving.kind = "agentInspect" -> _expand_variable_tree(result)
      [] OTHER -> {<<>>}

\* The program is moved only from a stop the one who asks was told of and has not left;
\* after a jump nobody answered for, the stop it makes is waited for.
CanAsk(kind) ==
    /\ serving = NoInquiry /\ inquiries < MaxInquiries
    /\ kind \in Resuming \union {"goto"} => heardOf # 0 /\ moved = "no"

Asked(kind, todo) ==
    /\ inquiries' = inquiries + 1
    /\ serving' = [NoInquiry EXCEPT !.kind = kind, !.todo = todo, !.reason = record.reason,
                               !.heardOf = heardOf, !.moved = moved]
    /\ moved' = IF kind \in Resuming THEN kind ELSE moved
    /\ UNCHANGED <<answerer, programState, wire, cached, numbered, heardOf>>

\* A client of the adapter asks; "continue" takes the thread for running at once.
\* (the mutant does not)
M_AskAdapter(kind) ==
    /\ answerer = "adapter" /\ CanAsk(kind)
    /\ kind = "agentSnapshot" => record.stopped
    /\ Asked(kind, Plan(kind))
    /\ UNCHANGED record

AskAdapter(kind) ==
    /\ answerer = "adapter" /\ CanAsk(kind)
    /\ kind = "agentSnapshot" => record.stopped
    /\ Asked(kind, Plan(kind))
    /\ record' = IF kind = "continue" THEN [record EXCEPT !.stopped = FALSE] ELSE record

\* A snapshot needs a thread that has stopped.
RefuseSnapshot ==
    /\ answerer = "adapter" /\ CanAsk("agentSnapshot")
    /\ ~record.stopped
    /\ inquiries' = inquiries + 1
    /\ UNCHANGED <<answerer, programState, wire, adapter, serving, numbered, askerHistory>>

\* The extension asks the debuggee itself.
AskLauncher(kind) ==
    /\ answerer = "launcher" /\ CanAsk(kind)
    /\ Asked(kind, <<kind>>)
    /\ UNCHANGED record

\* The next command of the request goes out.
Send ==
    /\ serving.todo # <<>> /\ serving.id = Unnumbered
    /\ LET command == Head(serving.todo)
           waits == Waits(command) \/ answerer = "launcher"
       IN /\ commands' = Append(commands, [do |-> command,
                id |-> IF waits THEN numbered + 1 ELSE Unnumbered])
          /\ numbered' = IF waits THEN numbered + 1 ELSE numbered
          /\ serving' = IF waits THEN [serving EXCEPT !.id = numbered + 1]
                        ELSE [serving EXCEPT !.todo = <<>>]
    /\ UNCHANGED <<answerer, programState, messages, adapter, askerHistory, inquiries>>

-----------------------------------------------------------------------------
(* What comes from the debuggee.                                           *)

handle_event_stacktrace(m) == cached' = m.of

handle_event_stopped(m) == record' = [stopped |-> TRUE, reason |-> m.of]

\* A reply is for the one who waits for it, or for nobody.
handle_reply(m) ==
    serving' = IF m.id = serving.id /\ serving.reply = <<>>
               THEN [serving EXCEPT !.reply = <<m>>] ELSE serving

Hear(m) == heardOf' = m.of /\ moved' = "no"

handle_debug_message ==
    /\ answerer = "adapter" /\ messages # <<>>
    /\ messages' = Tail(messages)
    /\ LET m == Head(messages) IN
       \/ m.type = "reply" /\ handle_reply(m) /\ UNCHANGED <<adapter, heardOf, moved>>
       \/ m.type = "stopped" /\ handle_event_stopped(m) /\ Hear(m) /\ UNCHANGED <<cached, serving>>
       \/ m.type = "stackTrace" /\ handle_event_stacktrace(m)
            /\ UNCHANGED <<record, serving, heardOf, moved>>
       \/ m.type \in {"variables", "evaluate", "exceptionInfo"}
            /\ UNCHANGED <<adapter, serving, heardOf, moved>>
    /\ UNCHANGED <<answerer, programState, commands, numbered, inquiries>>

\* The extension takes replies and stops from the socket.
Receive ==
    /\ answerer = "launcher" /\ messages # <<>>
    /\ messages' = Tail(messages)
    /\ LET m == Head(messages) IN
       \/ m.type = "reply" /\ handle_reply(m) /\ UNCHANGED <<heardOf, moved>>
       \/ m.type = "stopped" /\ Hear(m) /\ UNCHANGED serving
       \/ m.type \notin {"reply", "stopped"} /\ UNCHANGED <<serving, heardOf, moved>>
    /\ UNCHANGED <<answerer, programState, commands, adapter, numbered, inquiries>>

\* Nobody answered in time: the command is no longer waited for.  What a jump did
\* nobody knows then.
GiveUp ==
    /\ serving.id # Unnumbered /\ serving.reply = <<>>
    /\ serving' = [serving EXCEPT !.reply = <<NoReply>>, !.late = TRUE]
    /\ moved' = IF serving.kind = "goto" /\ moved = "no" THEN "next" ELSE moved
    /\ UNCHANGED <<answerer, programState, wire, adapter, numbered, heardOf, inquiries>>

\* The request goes on with what its command brought.
Proceed ==
    /\ serving.reply # <<>>
    /\ LET command == Head(serving.todo)
           reply == serving.reply[1]
           dispatched == IF answerer = "adapter" THEN Dispatched(command, reply)
                         ELSE IF reply.ok THEN Result(reply.of) ELSE Raised
           result == IF answerer = "adapter" /\ command = "stackTrace"
                     THEN get_stack_trace(dispatched) ELSE dispatched
       IN \E todo \in IF answerer = "adapter" THEN Then(result) ELSE {<<>>} :
            serving' = [serving EXCEPT
                !.todo = todo, !.id = Unnumbered, !.reply = <<>>,
                !.got = Append(@, [do |-> command, raised |-> result.raised, of |-> result.of])]
    /\ UNCHANGED <<answerer, programState, wire, adapter, numbered, askerHistory, inquiries>>

\* The commands whose failure is the request's: a snapshot shows what it got, and a batch
\* of expressions reports its errors one by one.
Decisive ==
    IF answerer = "launcher" \/ serving.kind \in Simple THEN {serving.kind}
    ELSE IF serving.kind = "agentInspect" THEN {"evaluate"} ELSE {}

\* The commands whose results the answer is made of.
Shown ==
    IF answerer = "launcher" \/ serving.kind \in Simple THEN {serving.kind}
    ELSE IF serving.kind = "agentSnapshot" THEN {"stackTrace"} ELSE {"evaluate"}

\* What the one who asks is about to be told.
Answered == serving # NoInquiry /\ serving.todo = <<>>
Answering == [to |-> serving.kind,
              ok |-> \A r \in Range(serving.got) : r.do \in Decisive => ~r.raised,
              shows |-> {r.of : r \in {g \in Range(serving.got) : g.do \in Shown /\ ~g.raised}}]

Tell ==
    /\ Answered
    /\ serving' = NoInquiry
    /\ UNCHANGED <<answerer, programState, wire, adapter, numbered, askerHistory, inquiries>>

-----------------------------------------------------------------------------
InquiryNext ==
    \/ \E ofStep \in BOOLEAN : BeginStop(ofStep)
    \/ Show
    \/ Announce
    \/ GoOn
    \/ HandleLook
    \/ _cmd_resume
    \/ _cmd_goto
    \/ \E kind \in Simple \union Agents : AskAdapter(kind)
    \/ RefuseSnapshot
    \/ \E kind \in (Simple \union Agents) \ {"completions"} : AskLauncher(kind)
    \/ Send
    \/ handle_debug_message
    \/ Receive
    \/ GiveUp
    \/ Proceed
    \/ Tell

InquirySpec == InquiryInit /\ [][InquiryNext]_inquiryVars

-----------------------------------------------------------------------------
(* Properties.                                                             *)

Verbs == Looking \union Resuming \union {"goto"}
Notices == {"stopped", "stackTrace", "variables", "evaluate", "exceptionInfo"}
Events == [type : Notices, of : Halts]
Replies == [type : {"reply"}, id : Nat \ {Unnumbered}, ok : BOOLEAN, of : Halts]

Servings ==
    [kind : Simple \union Agents \union {"none"}, todo : Seq(Verbs),
     got : Seq([do : Verbs, raised : BOOLEAN, of : Halts]), id : Nat,
     reply : Seq(Replies \union {NoReply}), reason : Halts, heardOf : Halts,
     moved : Resuming \union {"no"}, late : BOOLEAN]

InquiryTypeOK ==
    /\ answerer \in Answerers
    /\ at \in {"running", "announcing", "shown", "halted", "waking"}
    /\ stopCount \in Halts /\ currentFrame \in Halts /\ frames \in Halts
    /\ isStopped \in BOOLEAN /\ clears \in BOOLEAN
    /\ commands \in Seq([do : Verbs, id : Nat]) /\ messages \in Seq(Events \union Replies)
    /\ record \in [stopped : BOOLEAN, reason : Halts] /\ cached \in Halts \union {Absent}
    /\ serving \in Servings
    /\ numbered \in Nat
    /\ heardOf \in Halts /\ moved \in Resuming \union {"no"}
    /\ inquiries \in 0..MaxInquiries

\* Requests whose answer shows the program at a stop.
OfAStop == {"stackTrace", "evaluate", "agentSnapshot", "agentEval", "agentInspect"}

\* A stack or a value that is shown is of the stop the one who asks was told of, or of
\* a later one; there is none only after the program was told to go on.  Excused is an
\* answer to which the debuggee contributed nothing in time: what the adapter
\* remembers may be older (debugger/state.py, get_stack_trace; the debuggee's events
\* overtake its replies and overwrite what is remembered).
AnswersAreCurrent ==
    Answered /\ Answering.to \in OfAStop /\ Answering.ok /\ ~serving.late =>
        \A of \in Answering.shows : of >= serving.heardOf \/ (of = 0 /\ serving.moved # "no")

\* What is put together from several commands is of one stop: the reason of a snapshot,
\* read before its frames, and the values of a batch.  After "continue" nothing has
\* stopped.  Excused is what was asked between a step and its stop, of which the
\* adapter's record of the thread says nothing (request_handlers.py, _gather_thread_state).
SnapshotOfOneStop ==
    answerer = "adapter" /\ Answered /\ Answering.to \in Agents /\ Answering.ok
        /\ ~serving.late =>
        /\ Answering.to = "agentSnapshot" =>
             /\ serving.moved # "continue"
             /\ serving.moved = "no" => Answering.shows \subseteq {serving.reason}
        /\ serving.heardOf # 0 /\ serving.moved = "no" =>
             \A s, t \in Answering.shows : s = t
=============================================================================
