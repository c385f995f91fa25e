-------------------------- MODULE Connections_proofs --------------------------
(***************************************************************************)
(* Connections implements Channel, for any number of messages.             *)
(***************************************************************************)
EXTENDS Connections, TLAPS

USE BoundAssumption

Latest == IF delivered = <<>> THEN 0 ELSE delivered[Len(delivered)]

\* The listener takes no message any more, or has ended.
Closed == pc["main"] \in {"cleanup", "done"} \/ pc["reader"] = "ended"
Handling == At("main", "handling") \/ At("reader", "handling")

-----------------------------------------------------------------------------
(* The inductive invariant.                                                *)

Places == {"idle", "start", "binding", "waiting", "reading", "handling", "spinning",
           "cleanup", "done", "tasks", "futures", "halting", "checking", "wrapping",
           "ended", "closing"}

WireTypeOK ==
    /\ use \in {"server", "listen", "attach"}
    /\ pc \in [Tasks -> Places]
    /\ sent \in Nat /\ current \in Nat
    /\ inbox \in Seq(Nat) /\ delivered \in Seq(Nat)
    /\ crossed \in BOOLEAN

\* One of the two users is there.
OneListener ==
    /\ use = "server" => At("reader", "idle")
    /\ use # "server" => At("main", "idle") /\ At("stopper", "idle")

\* What is unread is the end of what was sent, and comes after what was taken.
\* Nothing is between the two unless two loops read, or the listener closes.
Numbered ==
    /\ Len(inbox) <= sent
    /\ \A i \in 1 .. Len(inbox) : inbox[i] = sent - Len(inbox) + i
    /\ Latest \in Nat
    /\ Handling <=> current # 0
    /\ current # 0 => Latest < current /\ current <= sent - Len(inbox)
    /\ Latest <= sent - Len(inbox)
    /\ (~crossed /\ ~Closed) =>
          IF current = 0 THEN Latest = sent - Len(inbox)
          ELSE Latest + 1 = current /\ current = sent - Len(inbox)

IInv == WireTypeOK /\ OneListener /\ Numbered

-----------------------------------------------------------------------------
(* Most steps touch no message: the tasks move on, and the message that is *)
(* handled may be dropped with the task that handles it.                   *)

Quiet ==
    /\ UNCHANGED <<use, sent, inbox, delivered>>
    /\ pc' \in [Tasks -> Places]
    /\ use = "server" => UNCHANGED pc["reader"]
    /\ use # "server" => UNCHANGED <<pc["main"], pc["stopper"]>>
    /\ \/ UNCHANGED current /\ (Handling' <=> Handling)
       \/ current' = 0 /\ ~Handling' /\ Closed'
    /\ Closed => Closed'
    /\ ~Listening => ~Listening'
    /\ crossed' = crossed \/ (crossed' = TRUE /\ Listening' = Listening)

LEMMA QuietKeeps ==
    ASSUME IInv, Quiet
    PROVE  IInv'
<1>1. /\ UNCHANGED <<use, sent, inbox, delivered>>
      /\ pc' \in [Tasks -> Places]
      /\ current' = current \/ current' = 0
  BY DEF Quiet
<1>2. crossed' \in BOOLEAN
  BY DEF IInv, WireTypeOK, Quiet
<1>3. WireTypeOK'
  BY <1>1, <1>2 DEF IInv, WireTypeOK
<1>4. OneListener'
  BY DEF IInv, OneListener, Quiet, At
<1>5. Latest' = Latest
  BY <1>1 DEF Latest
<1>6. Numbered'
  BY <1>5 DEF IInv, WireTypeOK, Numbered, Quiet
<1> QED
  BY <1>3, <1>4, <1>6 DEF IInv

LEMMA QuietStutters ==
    ASSUME IInv, Quiet
    PROVE  [Wire!ChannelNext]_(Wire!channelVars)
BY DEF IInv, WireTypeOK, Quiet, Listening, At, Tasks, ServerTasks, IPCTasks,
       Wire!ChannelNext, Wire!End, Wire!Disturb, Wire!channelVars

-----------------------------------------------------------------------------
(* The steps that touch no message.                                        *)

Untouched == UNCHANGED <<use, sent, inbox, current, delivered>>
Moved(t, place) == Go(t, place) /\ Untouched /\ UNCHANGED crossed

\* A listener that moves neither to nor from a message, and not back from its end.
MayMove(t, place) ==
    /\ t \in {"main", "reader"} => place # "handling" /\ pc[t] # "handling"
    /\ t \in {"main", "stopper"} => pc[t] # "idle"
    /\ t = "reader" => pc[t] \notin {"idle", "ended"}
    /\ t = "main" /\ pc[t] \in {"cleanup", "done"} => place = "done"

LEMMA MoveIsQuiet ==
    ASSUME IInv, NEW t \in Tasks, NEW place \in Places, Moved(t, place), MayMove(t, place)
    PROVE  Quiet
<1>1. pc \in [Tasks -> Places] /\ pc' = [pc EXCEPT ![t] = place]
  BY DEF IInv, WireTypeOK, Moved, Go
<1>2. pc' \in [Tasks -> Places]
  BY <1>1
<1>3. {"main", "reader", "stopper"} \subseteq Tasks
  BY DEF Tasks, ServerTasks, IPCTasks
<1>4. Handling' <=> Handling
  BY <1>1, <1>3 DEF MayMove, Handling, At
<1>5. Closed => Closed'
  BY <1>1, <1>3 DEF MayMove, Closed
<1>6. ~Listening => ~Listening'
  BY <1>1, <1>3 DEF MayMove, Listening, At
<1>7. /\ use = "server" => UNCHANGED pc["reader"]
      /\ use # "server" => UNCHANGED <<pc["main"], pc["stopper"]>>
  BY <1>1, <1>3 DEF MayMove, IInv, OneListener, At
<1> QED
  BY <1>2, <1>4, <1>5, <1>6, <1>7 DEF Moved, Untouched, Quiet

\* A step that changes no task and no message.
LEMMA StandingIsQuiet ==
    ASSUME IInv, UNCHANGED pc, Untouched, UNCHANGED crossed
    PROVE  Quiet
BY DEF IInv, WireTypeOK, Untouched, Quiet, Handling, Closed, Listening, At

\* The adapter thread's tasks.
LEMMA ServerQuiet ==
    ASSUME IInv, ServerSteps, ~message_loop, ~process_message
    PROVE  Quiet
<1> USE DEF At, mode, connection, wire, progress, shown, Untouched
<1>1. ASSUME NEW t \in {"publisher", "main"}, start_listening(t) PROVE Quiet
  <2>1. t \in Tasks /\ Moved(t, "binding") /\ MayMove(t, "binding")
    BY <1>1 DEF start_listening, Moved, MayMove, Tasks, ServerTasks
  <2> QED
    BY <2>1, MoveIsQuiet DEF Moved, MayMove, Go, Places
<1>2. CASE PublishKnown
  <2>1. Moved("publisher", "done") /\ MayMove("publisher", "done")
    BY <1>2 DEF PublishKnown, Moved, MayMove
  <2> QED
    BY <2>1, MoveIsQuiet DEF Moved, MayMove, Go, Places, Tasks, ServerTasks
<1>3. CASE _start_listening_and_publish_port
  <2>1. Moved("publisher", "done") /\ MayMove("publisher", "done")
    BY <1>3 DEF _start_listening_and_publish_port, Moved, MayMove
  <2> QED
    BY <2>1, MoveIsQuiet DEF Moved, MayMove, Go, Places, Tasks, ServerTasks
<1>4. CASE AcceptOnOpen
  <2>1. \E place \in {"reading", "waiting"} : Moved("main", place) /\ MayMove("main", place)
    BY <1>4 DEF AcceptOnOpen, wait_for_client, Moved, MayMove
  <2> QED
    BY <2>1, MoveIsQuiet DEF Moved, MayMove, Go, Places, Tasks, ServerTasks
<1>5. CASE accept
  <2>1. \E place \in {"reading", "waiting", "cleanup"} :
           Moved("main", place) /\ MayMove("main", place)
    BY <1>5 DEF accept, wait_for_client, Moved, MayMove
  <2> QED
    BY <2>1, MoveIsQuiet DEF Moved, MayMove, Go, Places, Tasks, ServerTasks
<1>6. CASE Accepted
  <2>1. Moved("main", "reading") /\ MayMove("main", "reading")
    BY <1>6 DEF Accepted, Moved, MayMove
  <2> QED
    BY <2>1, MoveIsQuiet DEF Moved, MayMove, Go, Places, Tasks, ServerTasks
<1>7. ASSUME NEW t \in {"main", "stop"}, _cleanup(t) PROVE Quiet
  <2>1. t \in Tasks /\ Moved(t, "done") /\ MayMove(t, "done")
    BY <1>7 DEF _cleanup, Moved, MayMove, Tasks, ServerTasks
  <2> QED
    BY <2>1, MoveIsQuiet DEF Moved, MayMove, Go, Places
<1>8. CASE StopServer
  <2>1. Moved("stop", "cleanup") /\ MayMove("stop", "cleanup")
    BY <1>8 DEF StopServer, Moved, MayMove
  <2> QED
    BY <2>1, MoveIsQuiet DEF Moved, MayMove, Go, Places, Tasks, ServerTasks
<1> QED
  BY <1>1, <1>2, <1>3, <1>4, <1>5, <1>6, <1>7, <1>8 DEF ServerSteps

\* stop() from another thread.  The cancelled server drops the message it handles.
LEMMA StopperQuiet ==
    ASSUME IInv, stop \/ Stopper
    PROVE  Quiet
<1> USE DEF At, mode, connection, wire, progress, shown, Untouched
<1>1. pc \in [Tasks -> Places] /\ {"main", "reader", "stopper", "stop", "publisher"} \subseteq Tasks
  BY DEF IInv, WireTypeOK, Tasks, ServerTasks, IPCTasks
<1>2. CASE stop
  <2>1. pc' = [pc EXCEPT !["stopper"] = "tasks", !["stop"] = "start"] /\ use = "server"
    BY <1>2 DEF stop
  <2>2. pc' \in [Tasks -> Places] /\ UNCHANGED <<pc["main"], pc["reader"]>>
    BY <1>1, <2>1 DEF Places
  <2> QED
    BY <1>2, <2>1, <2>2 DEF stop, Quiet, Handling, Closed, Listening
<1>3. CASE _cancel_loop_tasks
  <2>1. CASE Spins
    <3>1. Moved("stopper", "futures") /\ MayMove("stopper", "futures")
      BY <1>3, <2>1 DEF _cancel_loop_tasks, Moved, MayMove
    <3> QED
      BY <1>1, <3>1, MoveIsQuiet DEF Moved, MayMove, Go, Places
  <2>2. CASE ~Spins
    <3>1. /\ pc' = [pc EXCEPT !["publisher"] = "done", !["main"] = CancelledAt(@),
                              !["stopper"] = "futures"]
          /\ current' = 0
          /\ UNCHANGED <<use, sent, inbox, delivered, crossed>>
      BY <1>3, <2>2 DEF _cancel_loop_tasks
    <3>2. CancelledAt(pc["main"]) \in {"cleanup", "done"}
      BY DEF CancelledAt
    <3>3. /\ pc' \in [Tasks -> Places]
          /\ pc'["main"] \in {"cleanup", "done"} /\ pc'["reader"] = pc["reader"]
      BY <1>1, <3>1, <3>2 DEF Places
    <3>4. use = "server" /\ pc["reader"] = "idle"
      BY <1>3 DEF _cancel_loop_tasks, IInv, OneListener
    <3>5. pc["main"] = "done" => pc'["main"] = "done"
      BY <1>1, <3>1 DEF CancelledAt
    <3>6. ~Handling' /\ Closed' /\ (~Listening => ~Listening')
      BY <3>3, <3>4, <3>5 DEF Handling, Closed, Listening
    <3> QED
      BY <3>1, <3>3, <3>4, <3>6 DEF Quiet
  <2> QED
    BY <2>1, <2>2
<1>4. CASE _cancel_thread_futures
  <2>1. CASE Spins
    <3>1. Moved("stopper", "halting") /\ MayMove("stopper", "halting")
      BY <1>4, <2>1 DEF _cancel_thread_futures, Moved, MayMove
    <3> QED
      BY <1>1, <3>1, MoveIsQuiet DEF Moved, MayMove, Go, Places
  <2>2. CASE ~Spins
    <3>1. /\ pc' = [pc EXCEPT !["stop"] = "done", !["stopper"] = "halting"]
          /\ use = "server"
      BY <1>4, <2>2 DEF _cancel_thread_futures, IInv, OneListener
    <3>2. pc' \in [Tasks -> Places] /\ UNCHANGED <<pc["main"], pc["reader"]>>
      BY <1>1, <3>1 DEF Places
    <3> QED
      BY <1>4, <3>1, <3>2 DEF _cancel_thread_futures, Quiet, Handling, Closed, Listening
  <2> QED
    BY <2>1, <2>2
<1>5. CASE _cleanup_loop
  <2>1. Moved("stopper", "done") /\ MayMove("stopper", "done")
    BY <1>5 DEF _cleanup_loop, Moved, MayMove
  <2> QED
    BY <1>1, <2>1, MoveIsQuiet DEF Moved, MayMove, Go, Places
<1> QED
  BY <1>2, <1>3, <1>4, <1>5 DEF Stopper

\* The reader thread but for its messages, and the adapter's loop.
LEMMA IPCQuiet ==
    ASSUME IInv, Reader \/ send_message \/ acleanup \/ cleanup \/ AdapterLoop,
           ~ReadMessage, ~ReadCrosses, ~HandleMessage
    PROVE  Quiet
<1> USE DEF At, mode, connection, wire, progress, shown, Untouched
<1>1. CASE ReaderAccepts
  <2>1. \E place \in {"waiting", "checking"} : Moved("reader", place) /\ MayMove("reader", place)
    BY <1>1 DEF ReaderAccepts, Moved, MayMove
  <2> QED
    BY <2>1, MoveIsQuiet DEF Moved, MayMove, Go, Places, Tasks, ServerTasks, IPCTasks
<1>2. CASE ReaderStarts
  <2>1. \E place \in {"checking", "ended"} : Moved("reader", place) /\ MayMove("reader", place)
    BY <1>2 DEF ReaderStarts, Moved, MayMove
  <2> QED
    BY <2>1, MoveIsQuiet DEF Moved, MayMove, Go, Places, Tasks, ServerTasks, IPCTasks
<1>3. CASE ReaderChecks
  <2>1. \E place \in {"ended", "wrapping", "reading"} : Moved("reader", place) /\ MayMove("reader", place)
    BY <1>3 DEF ReaderChecks, Moved, MayMove
  <2> QED
    BY <2>1, MoveIsQuiet DEF Moved, MayMove, Go, Places, Tasks, ServerTasks, IPCTasks
<1>4. CASE ReadEnds
  <2>1. Moved("reader", "ended") /\ MayMove("reader", "ended")
    BY <1>4 DEF ReadEnds, Moved, MayMove
  <2> QED
    BY <2>1, MoveIsQuiet DEF Moved, MayMove, Go, Places, Tasks, ServerTasks, IPCTasks
<1>5. ASSUME NEW t \in {"reader", "sender"}, NEW loop \in {"reader", "adapter"},
             NEW next \in {"reading", "idle"}, _ensure_connected_streams(t, loop, next)
      PROVE  Quiet
  <2>1. /\ t \in Tasks /\ next \in Places /\ pc[t] = "wrapping"
        /\ pc' = [pc EXCEPT ![t] = next]
        /\ UNCHANGED <<use, sent, inbox, current, delivered>>
        /\ crossed' \in {crossed, TRUE}
    BY <1>5 DEF _ensure_connected_streams, Go, Places, Tasks, IPCTasks, IInv, WireTypeOK
  <2>2. /\ pc \in [Tasks -> Places] /\ {"main", "reader", "stopper"} \subseteq Tasks
    BY DEF IInv, WireTypeOK, Tasks, ServerTasks, IPCTasks
  <2>3. pc' \in [Tasks -> Places] /\ UNCHANGED <<pc["main"], pc["stopper"]>>
    BY <2>1, <2>2
  <2>4. t = "reader" => pc["reader"] = "wrapping" /\ pc'["reader"] \in {"reading", "idle"}
    BY <2>1, <2>2
  <2>5. t # "reader" => UNCHANGED pc["reader"]
    BY <2>1, <2>2
  <2>6. use = "server" => UNCHANGED pc["reader"]
    BY <2>4, <2>5 DEF IInv, OneListener
  <2>7. (Handling' <=> Handling) /\ (Closed => Closed') /\ Listening' = Listening
    BY <2>3, <2>4, <2>5 DEF Handling, Closed, Listening
  <2> QED
    BY <2>1, <2>3, <2>6, <2>7 DEF Quiet
<1>6. CASE send_message
  <2>1. \E place \in {"wrapping", "idle"} : Moved("sender", place) /\ MayMove("sender", place)
    BY <1>6 DEF send_message, Moved, MayMove
  <2> QED
    BY <2>1, MoveIsQuiet DEF Moved, MayMove, Go, Places, Tasks, ServerTasks, IPCTasks
<1>7. CASE acleanup
  <2>1. Moved("cleaner", "closing") /\ MayMove("cleaner", "closing")
    BY <1>7 DEF acleanup, Moved, MayMove
  <2> QED
    BY <2>1, MoveIsQuiet DEF Moved, MayMove, Go, Places, Tasks, ServerTasks, IPCTasks
<1>8. CASE cleanup
  <2>1. Moved("cleaner", "cleanup") /\ MayMove("cleaner", "cleanup")
    BY <1>8 DEF cleanup, Moved, MayMove
  <2> QED
    BY <2>1, MoveIsQuiet DEF Moved, MayMove, Go, Places, Tasks, ServerTasks, IPCTasks
<1>9. CASE Forget
  <2>1. Moved("cleaner", "done") /\ MayMove("cleaner", "done")
    BY <1>9 DEF Forget, Moved, MayMove
  <2> QED
    BY <2>1, MoveIsQuiet DEF Moved, MayMove, Go, Places, Tasks, ServerTasks, IPCTasks
<1>10. CASE CloseLate
  <2>1. Moved("cleaner", "done") /\ MayMove("cleaner", "done")
    BY <1>10 DEF CloseLate, Moved, MayMove
  <2> QED
    BY <2>1, MoveIsQuiet DEF Moved, MayMove, Go, Places, Tasks, ServerTasks, IPCTasks
<1> QED
  BY <1>1, <1>2, <1>3, <1>4, <1>5, <1>6, <1>7, <1>8, <1>9, <1>10 DEF Reader, AdapterLoop

\* The other end comes and goes.
LEMMA PeerQuiet ==
    ASSUME IInv, Accepting \/ PeerLeaves \/ UNCHANGED vars
    PROVE  Quiet
<1>1. UNCHANGED pc /\ Untouched /\ UNCHANGED crossed
  BY DEF Accepting, HandleClient, PeerLeaves, Untouched, mode, progress, shown, wire,
         connection, vars
<1> QED
  BY <1>1, StandingIsQuiet

-----------------------------------------------------------------------------
(* The steps that do: a message is sent, taken, passed over or handled.    *)

LEMMA SendKeeps ==
    ASSUME IInv, PeerSends
    PROVE  IInv' /\ Wire!Send
<1>1. /\ sent' = sent + 1 /\ inbox' = Append(inbox, sent + 1)
      /\ UNCHANGED <<use, pc, current, delivered, crossed>>
  BY DEF PeerSends, mode, progress
<1>2. WireTypeOK' /\ OneListener'
  BY <1>1 DEF IInv, WireTypeOK, OneListener, At
<1>3. Latest' = Latest /\ (Handling' <=> Handling) /\ (Closed' <=> Closed)
  BY <1>1 DEF Latest, Handling, Closed, At
<1>4. /\ Len(inbox') = Len(inbox) + 1
      /\ \A i \in 1 .. Len(inbox') :
            inbox'[i] = IF i = Len(inbox) + 1 THEN sent + 1 ELSE inbox[i]
  BY <1>1 DEF IInv, WireTypeOK
<1>5. Numbered'
  BY SMTT(30), <1>1, <1>3, <1>4 DEF IInv, WireTypeOK, Numbered
<1>6. Wire!Send
  BY <1>1 DEF Wire!Send, Listening, At
<1> QED
  BY <1>2, <1>5, <1>6 DEF IInv

\* What is left of the stream once its first message is taken out.
LEMMA FirstOut ==
    ASSUME IInv, inbox # <<>>, inbox' = Tail(inbox)
    PROVE  /\ Head(inbox) = sent - Len(inbox) + 1 /\ Head(inbox) \in Nat
           /\ inbox' \in Seq(Nat) /\ Len(inbox') = Len(inbox) - 1
           /\ \A i \in 1 .. Len(inbox') : inbox'[i] = sent - Len(inbox') + i
BY DEF IInv, WireTypeOK, Numbered

LEMMA TakeKeeps ==
    ASSUME IInv, NEW t \in {"main", "reader"}, At(t, "reading"), Go(t, "handling"),
           inbox # <<>>, TakeMessage, UNCHANGED <<use, sent, delivered, crossed>>
    PROVE  IInv' /\ UNCHANGED Wire!channelVars
<1>1. /\ pc \in [Tasks -> Places] /\ {"main", "reader", "stopper"} \subseteq Tasks
      /\ pc' = [pc EXCEPT ![t] = "handling"] /\ pc[t] = "reading"
  BY DEF IInv, WireTypeOK, Go, At, Tasks, ServerTasks, IPCTasks
<1>2. /\ pc' \in [Tasks -> Places] /\ pc'["stopper"] = pc["stopper"]
      /\ \A l \in {"main", "reader"} : IF l = t THEN pc'[l] = "handling"
                                      ELSE pc[l] = "idle" /\ pc'[l] = "idle"
  BY <1>1 DEF Places, IInv, OneListener, At
<1>3. Handling' /\ ~Handling /\ ~Closed' /\ ~Closed /\ Listening' /\ Listening
  BY <1>1, <1>2 DEF Handling, Closed, Listening, At
<1>4. current = 0 /\ current' = Head(inbox) /\ inbox' = Tail(inbox)
  BY <1>3 DEF IInv, Numbered, TakeMessage
<1>5. WireTypeOK'
  BY <1>2, <1>4, FirstOut DEF IInv, WireTypeOK
<1>6. OneListener'
  BY <1>2 DEF IInv, OneListener, At
<1>7. Latest' = Latest
  BY DEF Latest
<1>8. Numbered'
  BY <1>3, <1>4, <1>7, FirstOut DEF IInv, WireTypeOK, Numbered
<1>9. UNCHANGED Wire!channelVars
  BY <1>3 DEF Wire!channelVars, Listening
<1> QED
  BY <1>5, <1>6, <1>8, <1>9 DEF IInv

LEMMA PassOverKeeps ==
    ASSUME IInv, crossed, inbox # <<>>, inbox' = Tail(inbox),
           UNCHANGED <<use, pc, sent, current, delivered, crossed>>
    PROVE  IInv' /\ UNCHANGED Wire!channelVars
<1>1. WireTypeOK' /\ OneListener'
  BY FirstOut DEF IInv, WireTypeOK, OneListener, At
<1>2. Latest' = Latest /\ (Handling' <=> Handling)
  BY DEF Latest, Handling, At
<1>3. Numbered'
  BY <1>2, FirstOut DEF IInv, WireTypeOK, Numbered
<1>4. UNCHANGED Wire!channelVars
  BY DEF Wire!channelVars, Listening, At
<1> QED
  BY <1>1, <1>3, <1>4 DEF IInv

LEMMA HandleKeeps ==
    ASSUME IInv, NEW t \in {"main", "reader"}, At(t, "handling"),
           NEW place \in {"reading", "cleanup", "checking"}, Go(t, place),
           delivered' = Append(delivered, current), current' = 0,
           UNCHANGED <<use, sent, inbox, crossed>>
    PROVE  IInv' /\ Wire!Deliver
<1>1. /\ pc \in [Tasks -> Places] /\ {"main", "reader", "stopper"} \subseteq Tasks
      /\ pc' = [pc EXCEPT ![t] = place] /\ pc[t] = "handling"
  BY DEF IInv, WireTypeOK, Go, At, Tasks, ServerTasks, IPCTasks
<1>2. /\ pc' \in [Tasks -> Places] /\ pc'["stopper"] = pc["stopper"]
      /\ \A l \in {"main", "reader"} : IF l = t THEN pc'[l] = place
                                      ELSE pc[l] = "idle" /\ pc'[l] = "idle"
  BY <1>1 DEF Places, IInv, OneListener, At
<1>3. ~Handling' /\ Handling /\ ~Closed /\ Listening' /\ Listening
  BY <1>1, <1>2 DEF Handling, Closed, Listening, At
<1>4. current # 0 /\ current \in Nat /\ Latest \in Nat /\ Latest < current
      /\ current <= sent - Len(inbox) /\ sent \in Nat /\ Len(inbox) \in Nat
      /\ (~crossed => current = Latest + 1 /\ current = sent - Len(inbox))
  BY <1>3 DEF IInv, WireTypeOK, Numbered
<1>5. WireTypeOK'
  BY <1>2 DEF IInv, WireTypeOK
<1>6. OneListener'
  BY <1>2 DEF IInv, OneListener, At
<1>7. Latest' = current
  BY <1>4 DEF Latest, IInv, WireTypeOK
<1>8. Numbered'
  BY <1>3, <1>4, <1>7 DEF IInv, WireTypeOK, Numbered
<1>9. Wire!Deliver
  <2>1. Wire!Latest = Latest
    BY DEF Wire!Latest, Latest
  <2>2. current \in Latest + 1 .. sent
    BY <1>4
  <2> QED
    BY <1>3, <1>4, <2>1, <2>2 DEF Wire!Deliver, Listening, At
<1> QED
  BY <1>5, <1>6, <1>8, <1>9 DEF IInv

-----------------------------------------------------------------------------
(* Every step keeps the invariant and is a step of the channel, or none.   *)

LEMMA InitIsInitial == Init => IInv /\ Wire!ChannelInit
<1> SUFFICES ASSUME Init PROVE IInv /\ Wire!ChannelInit
  OBVIOUS
<1>1. WireTypeOK
  <2>1. pc \in [Tasks -> Places]
    BY DEF Init, Places
  <2>2. inbox \in Seq(Nat) /\ delivered \in Seq(Nat) /\ sent \in Nat /\ current \in Nat
    BY DEF Init
  <2>3. use \in {"server", "listen", "attach"} /\ crossed \in BOOLEAN
    BY DEF Init
  <2> QED
    BY <2>1, <2>2, <2>3 DEF WireTypeOK
<1>2. OneListener
  BY DEF Init, OneListener, At, Tasks, ServerTasks, IPCTasks
<1>3. At("main", "idle") \/ At("main", "start")
  BY DEF Init, At, Tasks, ServerTasks, IPCTasks
<1>4. At("reader", "idle") \/ At("reader", "start")
  BY DEF Init, At, Tasks, ServerTasks, IPCTasks
<1>5. ~Handling /\ Latest = 0 /\ Listening
  BY <1>3, <1>4 DEF Handling, Latest, Listening, At, Init
<1>6. Numbered
  <2>1. Len(inbox) = 0 /\ sent = 0 /\ current = 0
    BY DEF Init
  <2> QED
    BY <1>5, <2>1 DEF Numbered
<1>7. Wire!ChannelInit
  BY <1>5 DEF Wire!ChannelInit, Init, Listening
<1> QED
  BY <1>1, <1>2, <1>6, <1>7 DEF IInv

LEMMA StepsKeep ==
    ASSUME IInv, [Next]_vars
    PROVE  IInv' /\ [Wire!ChannelNext]_(Wire!channelVars)
<1> USE DEF mode, connection, shown, wire, progress
<1>1. CASE Quiet
  BY <1>1, QuietKeeps, QuietStutters
<1>2. CASE message_loop
  <2>1. CASE HasMessage
    <3>1. /\ At("main", "reading") /\ Go("main", "handling") /\ inbox # <<>> /\ TakeMessage
          /\ UNCHANGED <<use, sent, delivered, crossed>>
      BY <1>2, <2>1 DEF message_loop, HasMessage
    <3> QED
      BY <3>1, TakeKeeps
  <2>2. CASE ~HasMessage
    <3>1. \E place \in {"spinning", "cleanup"} : Moved("main", place) /\ MayMove("main", place)
      BY <1>2, <2>2 DEF message_loop, Moved, MayMove, Untouched, At
    <3>2. Quiet
      BY <3>1, MoveIsQuiet DEF Moved, MayMove, Go, Places, Tasks, ServerTasks
    <3> QED
      BY <1>1, <3>2
  <2> QED
    BY <2>1, <2>2
<1>3. CASE process_message
  <2>1. /\ At("main", "handling") /\ delivered' = Append(delivered, current) /\ current' = 0
        /\ \E place \in {"reading", "cleanup"} : Go("main", place)
        /\ UNCHANGED <<use, sent, inbox, crossed>>
    BY <1>3 DEF process_message
  <2> QED
    BY <2>1, HandleKeeps DEF Go, Wire!ChannelNext
<1>4. CASE ReadMessage
  <2>1. /\ At("reader", "reading") /\ Go("reader", "handling") /\ inbox # <<>> /\ TakeMessage
        /\ UNCHANGED <<use, sent, delivered, crossed>>
    BY <1>4 DEF ReadMessage, HasMessage
  <2> QED
    BY <2>1, TakeKeeps
<1>5. CASE ReadCrosses
  <2>1. CASE Go("reader", "ended") /\ UNCHANGED inbox
    <3>1. Moved("reader", "ended") /\ MayMove("reader", "ended")
      BY <1>5, <2>1 DEF ReadCrosses, Moved, MayMove, Untouched, At
    <3>2. Quiet
      BY <3>1, MoveIsQuiet DEF Moved, MayMove, Go, Places, Tasks, IPCTasks
    <3> QED
      BY <1>1, <3>2
  <2>2. CASE inbox # <<>> /\ inbox' = Tail(inbox) /\ UNCHANGED pc
    BY <1>5, <2>2, PassOverKeeps DEF ReadCrosses
  <2> QED
    BY <1>5, <2>1, <2>2 DEF ReadCrosses
<1>6. CASE HandleMessage
  <2>1. /\ At("reader", "handling") /\ current' = 0
        /\ UNCHANGED <<use, sent, inbox, crossed>>
    BY <1>6 DEF HandleMessage
  <2>2. CASE present
    <3>1. delivered' = Append(delivered, current) /\ Go("reader", "checking")
      BY <1>6, <2>2 DEF HandleMessage
    <3> QED
      BY <2>1, <3>1, HandleKeeps DEF Wire!ChannelNext
  <2>3. CASE ~present
    <3>1. UNCHANGED delivered /\ pc' = [pc EXCEPT !["reader"] = "ended"]
      BY <1>6, <2>3 DEF HandleMessage, Go
    <3>2. pc \in [Tasks -> Places] /\ {"main", "reader", "stopper"} \subseteq Tasks
          /\ pc["reader"] = "handling" /\ pc["main"] = "idle" /\ use # "server"
      BY <2>1 DEF IInv, WireTypeOK, OneListener, At, Tasks, ServerTasks, IPCTasks
    <3>3. /\ pc' \in [Tasks -> Places] /\ pc'["reader"] = "ended"
          /\ UNCHANGED <<pc["main"], pc["stopper"]>>
      BY <3>1, <3>2 DEF Places
    <3>4. Quiet
      BY <2>1, <3>1, <3>2, <3>3 DEF Quiet, Handling, Closed, Listening, At
    <3> QED
      BY <1>1, <3>4
  <2> QED
    BY <2>2, <2>3
<1>7. CASE PeerSends
  BY <1>7, SendKeeps DEF Wire!ChannelNext
<1>8. CASE ServerTask
  BY <1>1, <1>2, <1>3, <1>8, ServerQuiet DEF ServerTask
<1>9. CASE stop \/ Stopper
  BY <1>1, <1>9, StopperQuiet
<1>10. CASE Reader \/ send_message \/ acleanup \/ cleanup \/ AdapterLoop
  BY <1>1, <1>4, <1>5, <1>6, <1>10, IPCQuiet
<1>11. CASE Accepting \/ PeerLeaves \/ UNCHANGED vars
  BY <1>1, <1>11, PeerQuiet
<1> QED
  BY <1>7, <1>8, <1>9, <1>10, <1>11 DEF Next

\* The connection is a channel, whatever the number of messages: each step that handles a
\* message handles the next one the other end has sent, or, where two loops read, a later
\* one, and no message is handled after the listener has ended.
THEOREM ConnectionIsChannel == Spec => ActsAsChannel
<1>1. Init => IInv /\ Wire!ChannelInit
  BY InitIsInitial
<1>2. IInv /\ [Next]_vars => IInv' /\ [Wire!ChannelNext]_(Wire!channelVars)
  BY StepsKeep
<1> QED
  BY <1>1, <1>2, PTL DEF Spec, ActsAsChannel, Wire!ChannelSpec
=============================================================================
