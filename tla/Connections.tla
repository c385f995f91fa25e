------------------------------ MODULE Connections ------------------------------
(***************************************************************************)
(* The life of a TCPServerConnection under its two users.                  *)
(*                                                                         *)
(* AdapterThread serves a DAP client: on one event loop, one task opens    *)
(* the listener and publishes its port, another runs the server (accept,   *)
(* message loop, cleanup), and stop() arrives from another thread.         *)
(*                                                                         *)
(* IPCManager carries the debuggee's messages: a reader thread with a loop *)
(* of its own accepts and reads, while the adapter's loop writes and, at   *)
(* the end, closes.                                                        *)
(*                                                                         *)
(* The other end is the environment: it connects, sends, closes, resets.   *)
(***************************************************************************)
EXTENDS Naturals, Sequences

CONSTANTS MaxSent     \* bound on the messages of the other end

ASSUME BoundAssumption == MaxSent \in Nat

ServerTasks == {"publisher", "main", "stop", "stopper"}
IPCTasks == {"reader", "sender", "cleaner"}
Tasks == ServerTasks \union IPCTasks

VARIABLES
    use,              \* "server"; or "listen" and "attach" of the IPC manager
    fixed,            \* a port was asked for, not any free one
    pc,               \* where each task is
    server,           \* connection.server: the task whose listener it is, or "none"
    client_connected, \* connection._client_connected: the future of that task, or "none"
    resolved,         \* the futures with a result
    awaited,          \* the future that accept() waits for
    listeners,        \* sockets that listen
    is_connected,     \* connection._is_connected
    streams,          \* connection.reader and writer: "none", the loop they belong to,
                      \* or "closed"
    published,        \* the listener whose port was published
    running,          \* server.running
    present,          \* the manager's _connection, _enabled and _message_handler are set
    peer,             \* the other end: "away", "open", "closed" or "reset"
    sent,             \* messages it sent
    inbox,            \* of these, the ones not read yet
    current,          \* the message that is handled, 0 if none
    delivered,        \* history: messages handled
    crossed           \* history: the two loops met over the streams

connection == <<server, client_connected, resolved, awaited, listeners, is_connected>>
wire == <<peer, sent, inbox>>
progress == <<current, delivered>>
shown == <<published, running, present>>
mode == <<use, fixed>>
vars == <<mode, pc, connection, streams, shown, wire, progress, crossed>>

Init ==
    /\ use \in {"server", "listen", "attach"} /\ fixed \in BOOLEAN
    /\ fixed => use = "server"
    /\ pc = [t \in Tasks |->
                IF t \in (IF use = "server" THEN {"publisher", "main"} ELSE {"reader"})
                THEN "start" ELSE "idle"]
    /\ server = "none" /\ client_connected = "none" /\ resolved = {} /\ awaited = "none"
    /\ listeners = {} /\ is_connected = FALSE /\ streams = "none"
    /\ published = "none" /\ running = FALSE /\ present = TRUE
    /\ peer = IF use = "attach" THEN "open" ELSE "away"
    /\ sent = 0 /\ inbox = <<>>
    /\ current = 0 /\ delivered = <<>>
    /\ crossed = FALSE

At(t, place) == pc[t] = place
Go(t, place) == pc' = [pc EXCEPT ![t] = place]

\* The adapter thread's event loop is held by one task that never awaits.
Spins == At("main", "spinning")

-----------------------------------------------------------------------------
(* TCPServerConnection.                                                    *)

\* start_listening up to its first await: another listener is not looked for
\* again after it.
start_listening(t) ==
    /\ At(t, "start") /\ server = "none"
    /\ Go(t, "binding")
    /\ UNCHANGED <<mode, connection, streams, shown, wire, progress, crossed>>

\* The rest of it: an address that is taken is an error.
MayBind == ~fixed \/ listeners = {}
Bind(t) ==
    /\ server' = t /\ client_connected' = t
    /\ listeners' = listeners \union {t}

\* (the mutant looks at the future only)
M_wait_for_client(future) ==
    /\ awaited' = future
    /\ running' = (future \in resolved)
    /\ Go("main", IF running' THEN "reading" ELSE "waiting")

\* A client that is there already is not waited for, and the server runs.
wait_for_client(future) ==
    /\ awaited' = future
    /\ running' = is_connected
    /\ Go("main", IF running' THEN "reading" ELSE "waiting")

\* The loop runs _handle_client: the streams are the last client's, and the
\* future that is current is resolved.
HandleClient(loop) ==
    /\ peer = "away" /\ listeners # {} /\ ~Spins
    /\ peer' = "open"
    /\ streams' = loop /\ is_connected' = TRUE
    /\ resolved' = resolved \union ({client_connected} \ {"none"})
    /\ UNCHANGED <<mode, pc, server, client_connected, awaited, listeners, shown, sent,
                   inbox, progress, crossed>>

\* close(): the writer, then the server it knows of.
CloseConnection ==
    /\ streams' = IF streams = "none" THEN "none" ELSE "closed"
    /\ listeners' = listeners \ {server}
    /\ server' = "none" /\ client_connected' = "none"
    /\ is_connected' = FALSE
    /\ UNCHANGED <<resolved, awaited>>

\* read_message: a whole message, None at the end of the stream, or an error.
\* An error that the stream has is raised again by every read.
HasMessage == peer # "reset" /\ inbox # <<>> /\ streams # "closed"
AtEnd == streams = "closed" \/ (peer = "closed" /\ inbox = <<>>)
Broken == peer = "reset" /\ streams # "closed"

TakeMessage == current' = Head(inbox) /\ inbox' = Tail(inbox)

-----------------------------------------------------------------------------
(* AdapterThread, publishing the port.                                     *)

Publish(t) == published' = t

\* The listener is open already.
PublishKnown ==
    /\ At("publisher", "start") /\ server # "none"
    /\ Publish(server)
    /\ Go("publisher", "done")
    /\ UNCHANGED <<mode, connection, streams, running, present, wire, progress, crossed>>

_start_listening_and_publish_port ==
    /\ At("publisher", "binding")
    /\ \/ MayBind /\ Bind("publisher") /\ Publish("publisher")
       \/ ~MayBind /\ UNCHANGED <<server, client_connected, listeners, published>>
    /\ Go("publisher", "done")
    /\ UNCHANGED <<mode, resolved, awaited, is_connected, streams, running, present, wire,
                   progress, crossed>>

-----------------------------------------------------------------------------
(* DebugAdapterServer.start.                                               *)

\* accept(): a listener that is open is used.
AcceptOnOpen ==
    /\ At("main", "start") /\ server # "none"
    /\ wait_for_client(client_connected)
    /\ UNCHANGED <<mode, server, client_connected, resolved, listeners, is_connected,
                   streams, published, present, wire, progress, crossed>>

\* accept(): start_listening has its listener, or raises and the server ends.
accept ==
    /\ At("main", "binding")
    /\ \/ MayBind /\ Bind("main") /\ wait_for_client("main")
       \/ ~MayBind /\ Go("main", "cleanup")
          /\ UNCHANGED <<server, client_connected, listeners, awaited, running>>
    /\ UNCHANGED <<mode, resolved, is_connected, streams, published, present, wire,
                   progress, crossed>>

Accepted ==
    /\ At("main", "waiting") /\ awaited \in resolved
    /\ Go("main", "reading")
    /\ is_connected' = TRUE /\ running' = TRUE
    /\ UNCHANGED <<mode, server, client_connected, resolved, awaited, listeners, streams,
                   published, present, wire, progress, crossed>>

\* (the mutant goes on reading after the end of the stream)
M_message_loop ==
    /\ At("main", "reading")
    /\ IF HasMessage THEN TakeMessage /\ Go("main", "handling")
       ELSE /\ AtEnd \/ Broken
            /\ Go("main", IF Broken THEN "spinning" ELSE "reading")
            /\ UNCHANGED <<current, inbox>>
    /\ UNCHANGED <<mode, connection, streams, shown, peer, sent, delivered, crossed>>

\* A message is handled and the end of the stream ends the loop.  An error of the
\* stream is raised without an await and caught inside the loop: nothing else runs
\* on this event loop again.
message_loop ==
    /\ At("main", "reading")
    /\ IF HasMessage THEN TakeMessage /\ Go("main", "handling")
       ELSE /\ AtEnd \/ Broken
            /\ Go("main", IF Broken THEN "spinning" ELSE "cleanup")
            /\ UNCHANGED <<current, inbox>>
    /\ UNCHANGED <<mode, connection, streams, shown, peer, sent, delivered, crossed>>

\* The handler has answered; stop() and close() are seen before the next read.
process_message ==
    /\ At("main", "handling")
    /\ delivered' = Append(delivered, current) /\ current' = 0
    /\ Go("main", IF running /\ is_connected THEN "reading" ELSE "cleanup")
    /\ UNCHANGED <<mode, connection, streams, shown, wire, crossed>>

\* _cleanup of the server, by its own task and by stop(): the debugger is shut
\* down, then the connection is closed if it is connected.
_cleanup(t) ==
    /\ At(t, "cleanup")
    /\ IF is_connected THEN CloseConnection ELSE UNCHANGED <<connection, streams>>
    /\ Go(t, "done")
    /\ UNCHANGED <<mode, shown, wire, progress, crossed>>

-----------------------------------------------------------------------------
(* AdapterThread.stop, from another thread.                                *)

\* server.stop() is scheduled, and its task will find the loop.
stop ==
    /\ use = "server" /\ At("stopper", "idle")
    /\ pc' = [pc EXCEPT !["stopper"] = "tasks", !["stop"] = "start"]
    /\ UNCHANGED <<mode, connection, streams, shown, wire, progress, crossed>>

StopServer ==
    /\ At("stop", "start")
    /\ running' = FALSE
    /\ Go("stop", "cleanup")
    /\ UNCHANGED <<mode, connection, streams, published, present, wire, progress, crossed>>

\* A cancelled task: the server still cleans up, unless it was cleaning up.
CancelledAt(place) ==
    IF place \in {"binding", "waiting", "reading", "handling"} THEN "cleanup" ELSE "done"

\* A loop that no longer turns takes no cancellation; the stopper waits five
\* seconds and goes on.
_cancel_loop_tasks ==
    /\ At("stopper", "tasks")
    /\ IF Spins THEN Go("stopper", "futures") /\ UNCHANGED current
       ELSE /\ pc' = [pc EXCEPT !["publisher"] = "done", !["main"] = CancelledAt(@),
                                !["stopper"] = "futures"]
            /\ current' = 0
    /\ UNCHANGED <<mode, connection, streams, shown, wire, delivered, crossed>>

\* Once the tasks are done, or five seconds have passed, what is left of
\* server.stop() is cancelled too.
_cancel_thread_futures ==
    /\ At("stopper", "futures")
    /\ IF Spins THEN Go("stopper", "halting")
       ELSE pc' = [pc EXCEPT !["stop"] = "done", !["stopper"] = "halting"]
    /\ UNCHANGED <<mode, connection, streams, shown, wire, progress, crossed>>

\* The loop is stopped: what is pending is cancelled and waited for.
_cleanup_loop ==
    /\ At("stopper", "halting") /\ At("main", "done")
    /\ Go("stopper", "done")
    /\ UNCHANGED <<mode, connection, streams, shown, wire, progress, crossed>>

-----------------------------------------------------------------------------
(* IPCManager: the reader thread.                                          *)

\* accept() on the thread's own loop: the socket listens already, and connections
\* wait in it until this loop takes them.
ReaderAccepts ==
    /\ use = "listen"
    /\ \/ At("reader", "start") /\ present
          /\ Bind("reader") /\ Go("reader", "waiting") /\ UNCHANGED is_connected
       \/ At("reader", "waiting") /\ "reader" \in resolved
          /\ Go("reader", "checking")
          /\ is_connected' = TRUE
          /\ UNCHANGED <<server, client_connected, listeners>>
    /\ UNCHANGED <<mode, resolved, awaited, streams, shown, wire, progress, crossed>>

ReaderStarts ==
    /\ At("reader", "start") /\ (use = "attach" \/ ~present)
    /\ Go("reader", IF present THEN "checking" ELSE "ended")
    /\ UNCHANGED <<mode, connection, streams, shown, wire, progress, crossed>>

\* while self._enabled and self._connection; the connection is looked up once
\* more for the read, and None has no read_message.  A stream that was closed
\* meanwhile ends now that its loop turns again.
ReaderChecks ==
    /\ At("reader", "checking")
    /\ Go("reader", IF ~present \/ streams = "closed" THEN "ended"
                    ELSE IF use = "attach" /\ streams = "none" THEN "wrapping"
                    ELSE "reading")
    /\ UNCHANGED <<mode, connection, streams, shown, wire, progress, crossed>>

\* _ensure_connected_streams after its await: whoever comes last is kept.
_ensure_connected_streams(t, loop, next) ==
    /\ At(t, "wrapping")
    /\ crossed' = (crossed \/ loop = "adapter" \/ streams # "none")
    /\ streams' = IF streams = "closed" THEN "closed" ELSE loop
    /\ is_connected' = TRUE
    /\ Go(t, next)
    /\ UNCHANGED <<mode, server, client_connected, resolved, awaited, listeners, shown,
                   wire, progress>>

ReadMessage ==
    /\ At("reader", "reading") /\ HasMessage
    /\ TakeMessage
    /\ Go("reader", "handling")
    /\ UNCHANGED <<mode, connection, streams, shown, peer, sent, delivered, crossed>>

\* None or an error ends the thread.  A close by the adapter's loop does not: it
\* takes the socket out of this loop's selector, and nothing wakes the loop.
ReadEnds ==
    /\ At("reader", "reading")
    /\ \/ AtEnd /\ streams # "closed"
       \/ Broken
    /\ Go("reader", "ended")
    /\ UNCHANGED <<mode, connection, streams, shown, wire, progress, crossed>>

\* A read that has to wait on the other loop's stream raises.  Where both loops
\* wrapped the socket, either takes the bytes that arrive.
ReadCrosses ==
    /\ At("reader", "reading") /\ crossed
    /\ \/ Go("reader", "ended") /\ UNCHANGED inbox
       \/ inbox # <<>> /\ inbox' = Tail(inbox) /\ UNCHANGED pc
    /\ UNCHANGED <<mode, connection, streams, shown, peer, sent, progress, crossed>>

\* (the mutant hands the message to a queue and reads on before it is handled)
M_HandleMessage ==
    /\ At("reader", "handling")
    /\ IF present THEN delivered' = <<current>> \o delivered /\ Go("reader", "checking")
       ELSE Go("reader", "ended") /\ UNCHANGED delivered
    /\ current' = 0
    /\ UNCHANGED <<mode, connection, streams, shown, wire, crossed>>

\* The handler is looked up when the message is there: after cleanup it is None,
\* and the message is lost with the thread.
HandleMessage ==
    /\ At("reader", "handling")
    /\ IF present THEN delivered' = Append(delivered, current) /\ Go("reader", "checking")
       ELSE Go("reader", "ended") /\ UNCHANGED delivered
    /\ current' = 0
    /\ UNCHANGED <<mode, connection, streams, shown, wire, crossed>>

-----------------------------------------------------------------------------
(* IPCManager: the adapter's loop.                                         *)

\* send_message: an attached connection is wrapped on the loop that comes first;
\* without streams there is no active connection.
send_message ==
    /\ use # "server" /\ At("sender", "idle") /\ present
    /\ Go("sender", IF use = "attach" /\ streams = "none" THEN "wrapping" ELSE "idle")
    /\ UNCHANGED <<mode, connection, streams, shown, wire, progress, crossed>>

\* acleanup: the connection is closed (its futures belong to the reader's loop,
\* so waiting for them fails and is passed over), then forgotten.
acleanup ==
    /\ use # "server" /\ At("cleaner", "idle")
    /\ CloseConnection
    /\ Go("cleaner", "closing")
    /\ UNCHANGED <<mode, shown, wire, progress, crossed>>

Forget ==
    /\ At("cleaner", "closing")
    /\ present' = FALSE
    /\ Go("cleaner", "done")
    /\ UNCHANGED <<mode, connection, streams, published, running, wire, progress, crossed>>

\* cleanup on the loop itself: the close it schedules cannot run while it waits
\* for it, so after five seconds the connection is forgotten first.
cleanup ==
    /\ use # "server" /\ At("cleaner", "idle")
    /\ present' = FALSE
    /\ Go("cleaner", "cleanup")
    /\ UNCHANGED <<mode, connection, streams, published, running, wire, progress, crossed>>

CloseLate ==
    /\ At("cleaner", "cleanup")
    /\ CloseConnection
    /\ Go("cleaner", "done")
    /\ UNCHANGED <<mode, shown, wire, progress, crossed>>

-----------------------------------------------------------------------------
(* The other end.                                                          *)
PeerSends ==
    /\ peer = "open" /\ sent < MaxSent
    /\ sent' = sent + 1 /\ inbox' = Append(inbox, sent + 1)
    /\ UNCHANGED <<mode, pc, connection, streams, shown, peer, progress, crossed>>

PeerLeaves ==
    /\ peer = "open" /\ peer' \in {"closed", "reset"}
    /\ UNCHANGED <<mode, pc, connection, streams, shown, sent, inbox, progress, crossed>>

Accepting == HandleClient(IF use = "server" THEN "adapter" ELSE "reader")

ServerSteps ==
    \/ \E t \in {"publisher", "main"} : start_listening(t)
    \/ PublishKnown \/ _start_listening_and_publish_port
    \/ AcceptOnOpen \/ accept \/ Accepted \/ message_loop \/ process_message
    \/ \E t \in {"main", "stop"} : _cleanup(t)
    \/ StopServer

\* One event loop runs them, as long as it turns.
ServerTask == ~Spins /\ ServerSteps

Stopper == _cancel_loop_tasks \/ _cancel_thread_futures \/ _cleanup_loop

Reader ==
    \/ ReaderAccepts \/ ReaderStarts \/ ReaderChecks
    \/ _ensure_connected_streams("reader", "reader", "reading")
    \/ ReadMessage \/ ReadEnds \/ ReadCrosses \/ HandleMessage

AdapterLoop ==
    \/ _ensure_connected_streams("sender", "adapter", "idle")
    \/ Forget \/ CloseLate

Next ==
    \/ ServerTask \/ stop \/ Stopper
    \/ Reader \/ send_message \/ acleanup \/ cleanup \/ AdapterLoop
    \/ Accepting \/ PeerSends \/ PeerLeaves

Spec == Init /\ [][Next]_vars

\* The loops run what is ready and the threads are scheduled; nobody has to
\* connect, send, close or stop.
ConnectionFairness ==
    WF_vars(ServerTask) /\ WF_vars(Stopper) /\ WF_vars(Reader) /\ WF_vars(AdapterLoop)
FairSpec == Spec /\ ConnectionFairness

-----------------------------------------------------------------------------
(* What the two users rely on.                                             *)

Stopping == ~At("stopper", "idle")
Replaced == At("main", "waiting") /\ awaited # client_connected

\* A client that connects to a free port is served, in whichever order the two
\* tasks open their listeners, unless the thread is stopped, or the publisher's
\* listener came last and replaced the future the server waits for
\* (AdapterThread._run_adapter_loop, TCPServerConnection.accept).
Served ==
    (use = "server" /\ ~fixed /\ peer # "away") ~> (running \/ Stopping \/ Replaced)

\* A client or debuggee that closes its end, with everything it sent still in the
\* stream, ends the server's task or the reader thread, unless the connection is
\* taken away from them first (DebugAdapterServer._message_loop,
\* IPCManager._read_messages).
EndNoticed ==
    /\ (use = "server" /\ peer = "closed") ~> (At("main", "done") \/ Replaced)
    /\ (use # "server" /\ peer = "closed") ~> (At("reader", "ended") \/ ~present)

\* The task or the thread that listens is still to handle messages.
Listening == ~At("main", "done") /\ ~At("reader", "ended")

Wire == INSTANCE Channel WITH intact <- ~crossed, listening <- Listening

\* Under both users, and whoever closes, cancels or resets when, the connection is the
\* ordered channel that the rest of the adapter takes it for: nothing is handled twice, out
\* of order or after the listener's end, and nothing is passed over as long as no two event
\* loops read one attached socket (IPCManager._read_messages, DebugAdapterServer._message_loop).
ActsAsChannel == Wire!ChannelSpec
=============================================================================
