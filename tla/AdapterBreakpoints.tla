--------------------------- MODULE AdapterBreakpoints ---------------------------
(***************************************************************************)
(* Breakpoints and hot reload between the adapter's tables and the         *)
(* debuggee's: PyDebugger.set_breakpoints, the facade for the other kinds, *)
(* the dispatchers of the two back ends, and HotReloadService.             *)
(* The client's requests are served one at a time; the operations of a     *)
(* BreakpointController are tasks of their own on the same loop.  A task   *)
(* runs until it awaits, so between two actions here the other one moves.  *)
(***************************************************************************)
EXTENDS Naturals, Sequences

CONSTANTS
    Files,        \* source files with breakpoints
    Breaks,       \* a breakpoint: a line with its condition, hit condition, log text
    MaxRequests,  \* bound on the operations on breakpoints
    MaxReloads,   \* bound on the reloads
    MaxUnread     \* bound on the commands on their way to the debuggee

ASSUME TablesBounds == MaxRequests \in Nat /\ MaxReloads \in Nat /\ MaxUnread \in Nat

\* What the adapter keeps a table of.
Keys == Files \union {"function", "exception", "data"}

Tasks == {"client", "controller"}

VARIABLES
    inprocess,    \* the program runs in the adapter's own process
    backend,      \* get_active_backend() is not None
    lifecycle,    \* LifecycleManager._state: "ready", "busy" or "error"
    link,         \* the connection: "waiting" for the debuggee, "up", "broken", or
                  \* "gone" with the process
    unread,       \* commands written and not yet read by the debuggee
    table,        \* the adapter's tables
    debuggee,     \* the debuggee's tables
    task,         \* what each task of the loop is doing
    reply,        \* what the debuggee answered to the reload: "none", "ok", "failed"
    requests,     \* operations so far
    reloads,      \* reloads so far
    told,         \* history: the set whose request was answered with success last
    excused       \* history: keys whose table changed without a command

adapterVars == <<inprocess, backend, lifecycle, table, task>>
connection == <<link, unread, reply>>
counters == <<requests, reloads>>
history == <<told, excused>>
adapterTableVars == <<adapterVars, connection, debuggee, counters, history>>

Idle == [at |-> "idle"]

TablesInit ==
    /\ inprocess \in BOOLEAN
    /\ backend = FALSE /\ lifecycle = "ready" /\ link = "waiting" /\ unread = <<>>
    /\ table = [k \in Keys |-> {}] /\ debuggee = table /\ told = table
    /\ task = [t \in Tasks |-> Idle]
    /\ reply = "none"
    /\ requests = 0 /\ reloads = 0
    /\ excused = {}

At(t, place) == task[t].at = place
Go(t, next) == task' = [task EXCEPT ![t] = next]

\* ExternalProcessBackend.is_available
Available == link # "gone" /\ lifecycle # "error"

-----------------------------------------------------------------------------
(* An operation on the breakpoints of a key; reloading says that it is the *)
(* reload that sets them again, which nobody asked for.                    *)

Told(k, s, reloading) == told' = IF reloading THEN told ELSE [told EXCEPT ![k] = s]

\* The set is recorded before anything is known of the debuggee.
RecordSet(k, s) == table' = [table EXCEPT ![k] = s]

\* No back end: the set is only recorded, and nothing sends it later.
OnlyRecord(k, s) ==
    /\ ~backend
    /\ Told(k, s, FALSE)
    /\ excused' = excused \union {k}
    /\ UNCHANGED <<lifecycle, debuggee>>

\* In the adapter's own process the debugger is called directly.
CallDebugger(k, s, reloading) ==
    /\ backend /\ inprocess
    /\ debuggee' = [debuggee EXCEPT ![k] = s]
    /\ Told(k, s, reloading)
    /\ excused' = IF reloading THEN excused ELSE excused \ {k}
    /\ UNCHANGED lifecycle

\* operation_context: ready becomes busy, and the command is sent next.
StartSending(k, reloading) ==
    /\ backend /\ ~inprocess /\ lifecycle = "ready"
    /\ lifecycle' = "busy"
    /\ excused' = IF reloading THEN excused ELSE excused \ {k}
    /\ UNCHANGED <<debuggee, told>>

\* Busy is not entered again and an error is not left: the operation raises,
\* after the table has changed.
Refuse(k, reloading) ==
    /\ backend /\ ~inprocess /\ lifecycle # "ready"
    /\ excused' = IF reloading THEN excused ELSE excused \union {k}
    /\ UNCHANGED <<lifecycle, debuggee, told>>

Sending(k, s, reloading) == [at |-> "sending", key |-> k, set |-> s, reload |-> reloading]

Operate(t, k, s, reloading) ==
    /\ RecordSet(k, s)
    /\ \/ (OnlyRecord(k, s) \/ CallDebugger(k, s, reloading) \/ Refuse(k, reloading))
          /\ Go(t, Idle)
       \/ StartSending(k, reloading) /\ Go(t, Sending(k, s, reloading))

Begin(t) == At(t, "idle") /\ requests < MaxRequests /\ requests' = requests + 1

set_breakpoints(t, f, s) ==
    /\ Begin(t)
    /\ Operate(t, f, s, FALSE)
    /\ UNCHANGED <<inprocess, backend, connection, reloads>>

set_function_breakpoints(t, s) ==
    /\ Begin(t)
    /\ Operate(t, "function", s, FALSE)
    /\ UNCHANGED <<inprocess, backend, connection, reloads>>

\* Only the controller's filters are sent on.
set_exception_breakpoints(s) ==
    /\ Begin("controller")
    /\ Operate("controller", "exception", s, FALSE)
    /\ UNCHANGED <<inprocess, backend, connection, reloads>>

RecordOnly(k, s) ==
    /\ RecordSet(k, s)
    /\ Told(k, s, FALSE)
    /\ excused' = excused \union {k}
    /\ UNCHANGED <<inprocess, backend, lifecycle, connection, debuggee, task, reloads>>

\* The request of the client sets the adapter's own flags and conditions.
handle_set_exception_breakpoints(s) == Begin("client") /\ RecordOnly("exception", s)

\* Phase 1 bookkeeping: data breakpoints stay in the adapter, verified.
set_data_breakpoints(t, s) == Begin(t) /\ RecordOnly("data", s)

-----------------------------------------------------------------------------
(* The task that sends.                                                    *)

Delivered(command) == unread' = Append(unread, command)
SetCommand(t) == [cmd |-> "set", key |-> task[t].key, set |-> task[t].set]

\* The command is written, and the task waits for the buffer to drain.
SendCommand(t) ==
    /\ At(t, "sending")
    /\ Available /\ link = "up" /\ Len(unread) < MaxUnread
    /\ Delivered(SetCommand(t))
    /\ Go(t, [task[t] EXCEPT !.at = "sent"])
    /\ UNCHANGED <<inprocess, backend, lifecycle, table, link, reply, debuggee,
                   counters, history>>

\* No debuggee has connected yet, or the connection fails: that is logged, and
\* the operation goes on as if it had not happened.
SendSwallowed(t) ==
    /\ At(t, "sending")
    /\ Available /\ link \in {"waiting", "broken"}
    /\ Go(t, [task[t] EXCEPT !.at = "sent"])
    /\ excused' = excused \union {task[t].key}
    /\ UNCHANGED <<inprocess, backend, lifecycle, table, connection, debuggee,
                   counters, told>>

\* The process is gone, or the drain outlasts the operation's time limit: the
\* lifecycle is in error, and a command that was written stays written.
Fail(t) ==
    /\ \/ At(t, "sending") /\ ~Available
       \/ At(t, "sent") /\ lifecycle = "busy"
    /\ lifecycle' = "error"
    /\ Go(t, Idle)
    /\ excused' = excused \union {task[t].key}
    /\ UNCHANGED <<inprocess, backend, table, connection, debuggee, counters, told>>

\* operation_context is left, the changed events are forwarded and the request
\* is answered with success.
Finish(t) ==
    /\ At(t, "sent")
    /\ lifecycle' = IF lifecycle = "busy" THEN "ready" ELSE lifecycle
    /\ Told(task[t].key, task[t].set, task[t].reload)
    /\ Go(t, Idle)
    /\ UNCHANGED <<inprocess, backend, table, connection, debuggee, counters,
                   excused>>

\* Another request of the client holds the back end busy while it waits.
OtherOperation ==
    /\ At("client", "idle") /\ backend /\ ~inprocess /\ lifecycle = "ready"
    /\ lifecycle' = "busy"
    /\ Go("client", [at |-> "other"])
    /\ UNCHANGED <<inprocess, backend, table, connection, debuggee, counters, history>>

FinishOther ==
    /\ At("client", "other")
    /\ lifecycle' = IF lifecycle = "busy" THEN "ready" ELSE lifecycle
    /\ Go("client", Idle)
    /\ UNCHANGED <<inprocess, backend, table, connection, debuggee, counters, history>>

-----------------------------------------------------------------------------
(* dapper/hotReload: what the reload itself does is the subject of         *)
(* HotReload, here it succeeds or fails.                                   *)

StartReload == At("client", "idle") /\ backend /\ reloads < MaxReloads
CountReload == reloads' = reloads + 1

\* In the adapter's own process: reload and set the breakpoints again, unless the
\* module cannot be reloaded or raises.
reload_inprocess(f) ==
    /\ StartReload /\ inprocess /\ CountReload
    /\ \/ Operate("client", f, table[f], TRUE)
       \/ UNCHANGED <<table, lifecycle, task, debuggee, history>>
    /\ UNCHANGED <<inprocess, backend, connection, requests>>

\* The command is sent beside operation_context and its time limit.  A
\* connection that fails leaves no answer, which counts as success.
reload_via_external_backend(f) ==
    /\ StartReload /\ ~inprocess /\ Available /\ CountReload
    /\ \/ /\ link = "up" /\ Len(unread) < MaxUnread
          /\ Delivered([cmd |-> "hotReload", key |-> f, set |-> {}])
          /\ reply' = "none"
       \/ link = "broken" /\ reply' = "ok" /\ UNCHANGED unread
    /\ Go("client", [at |-> "reloading", key |-> f, set |-> table[f]])
    /\ UNCHANGED <<inprocess, backend, lifecycle, table, link, debuggee, requests,
                   history>>

\* (the mutant sets again what was in the table when the reload was requested)
M_reapply_breakpoints ==
    /\ At("client", "reloading")
    /\ \/ reply = "ok"
       \/ reply = "none"
    /\ reply' = "none"
    /\ Operate("client", task["client"].key, task["client"].set, TRUE)
    /\ UNCHANGED <<inprocess, backend, link, unread, counters>>

\* Answered, or given up waiting where a time limit is configured: the file's
\* breakpoints are read from the table and set again.
reapply_breakpoints ==
    /\ At("client", "reloading")
    /\ \/ reply = "ok"
       \/ reply = "none"
    /\ reply' = "none"
    /\ Operate("client", task["client"].key, table[task["client"].key], TRUE)
    /\ UNCHANGED <<inprocess, backend, link, unread, counters>>

ReloadFails ==
    /\ At("client", "reloading") /\ reply = "failed"
    /\ reply' = "none"
    /\ Go("client", Idle)
    /\ UNCHANGED <<inprocess, backend, lifecycle, table, link, unread, debuggee,
                   counters, history>>

-----------------------------------------------------------------------------
(* The debuggee.                                                           *)

handle_set_breakpoints ==
    /\ unread # <<>> /\ Head(unread).cmd = "set"
    /\ unread' = Tail(unread)
    /\ debuggee' = [debuggee EXCEPT ![Head(unread).key] = Head(unread).set]
    /\ UNCHANGED <<adapterVars, link, reply, counters, history>>

\* The answer reaches the reload only while that one still waits.
Answer(r) == reply' = IF At("client", "reloading") THEN r ELSE reply

cmd_hot_reload ==
    /\ unread # <<>> /\ Head(unread).cmd = "hotReload"
    /\ unread' = Tail(unread)
    /\ \E r \in {"ok", "failed"} : Answer(r)
    /\ UNCHANGED <<adapterVars, link, debuggee, counters, history>>

-----------------------------------------------------------------------------
(* The session.                                                            *)

\* launch or attach; what was recorded before is not sent.
StartBackend ==
    /\ ~backend /\ backend' = TRUE
    /\ UNCHANGED <<inprocess, lifecycle, table, task, connection, debuggee, counters,
                   history>>

Connect ==
    /\ backend /\ link = "waiting" /\ link' = "up"
    /\ UNCHANGED <<adapterVars, unread, reply, debuggee, counters, history>>

\* The connection fails, then the process ends.
LoseLink ==
    /\ backend /\ ~inprocess
    /\ \/ link = "up" /\ link' = "broken"
       \/ link # "gone" /\ link' = "gone"
    /\ unread' = <<>>
    /\ UNCHANGED <<adapterVars, reply, debuggee, counters, history>>

TablesNext ==
    \/ \E t \in Tasks, s \in SUBSET Breaks :
          \/ \E f \in Files : set_breakpoints(t, f, s)
          \/ set_function_breakpoints(t, s)
          \/ set_data_breakpoints(t, s)
    \/ \E s \in SUBSET Breaks :
          set_exception_breakpoints(s) \/ handle_set_exception_breakpoints(s)
    \/ \E t \in Tasks : SendCommand(t) \/ SendSwallowed(t) \/ Fail(t) \/ Finish(t)
    \/ OtherOperation \/ FinishOther
    \/ \E f \in Files : reload_inprocess(f) \/ reload_via_external_backend(f)
    \/ reapply_breakpoints \/ ReloadFails
    \/ handle_set_breakpoints \/ cmd_hot_reload
    \/ StartBackend \/ Connect \/ LoseLink

TablesSpec == TablesInit /\ [][TablesNext]_adapterTableVars

-----------------------------------------------------------------------------
Tables == [Keys -> SUBSET Breaks]

\* Nothing on the way to the debuggee concerns the key.
Settled(k) ==
    /\ link = "up"
    /\ \A i \in DOMAIN unread : unread[i].key # k
    /\ \A t \in Tasks : task[t].at \in {"sending", "sent", "reloading"} => task[t].key # k

\* Once everything that was sent has arrived, the debuggee stops where the last
\* request that was answered with success said, and the adapter's table says the
\* same: neither an operation of the other task nor a reload, which sets again
\* what it reads from the table after its wait, brings back an older set.
\* Excused are the keys whose table changed and no command was sent.
NewestStands ==
    \A k \in Keys \ excused : Settled(k) => debuggee[k] = told[k] /\ table[k] = told[k]
=============================================================================
