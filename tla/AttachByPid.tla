------------------------------ MODULE AttachByPid ------------------------------
(***************************************************************************)
(* Attaching to a running program: a helper process writes a script and    *)
(* has the target's interpreter run it, the script starts a bootstrap      *)
(* thread in the target, and that thread builds a session: it connects to  *)
(* the extension that asked, starts a command listener, makes a debugger   *)
(* and installs its tracing.  The session ends on the listener's thread.   *)
(*                                                                         *)
(* All sessions of the target share the module's state: the current        *)
(* session debug_shared.state, the flag _ATTACH_ACTIVE, and the trace hook *)
(* of the threading module.                                                *)
(*                                                                         *)
(* Abstractions.  Each attach is asked for once, by an extension of its    *)
(* own.  A command is one that ends the session or any other.  Frames that *)
(* are traced already are left out.                                        *)
(***************************************************************************)
EXTENDS Naturals

CONSTANTS
    Attaches,       \* the attaches that are asked for
    None            \* no attach

ASSUME NoneAssumption == None \notin Attaches

VARIABLES
    extension,      \* of each attach: "idle", "waiting", "connected", "left", "gaveUp"
    helper,         \* "idle", "written", "posted", "failed" or "exited"
    ordered,        \* the target has been told to run its script, and has not yet
    bootstrap,      \* where the bootstrap thread is
    streams,        \* the connection of its session: "none", "open" or "closed"
    listener,       \* the command listener: "none", "receiving", "cleanup" or "ended"
    is_terminated,
    cleanup_func,   \* the sessions that have not run their cleanup
    debugger,       \* the sessions that have a debugger
    state,          \* debug_shared.state
    active,         \* _ATTACH_ACTIVE
    hook,           \* the session whose debugger every new thread starts with
    overtaken       \* history: sessions that got the hook after their streams were closed

asked == <<extension, helper, ordered>>
session == <<streams, listener, is_terminated, cleanup_func, debugger>>
target == <<state, active, hook, overtaken>>
attachVars == <<asked, bootstrap, session, target>>

AttachInit ==
    /\ extension = [a \in Attaches |-> "idle"] /\ helper = [a \in Attaches |-> "idle"]
    /\ ordered = {}
    /\ bootstrap = [a \in Attaches |-> "none"]
    /\ streams = [a \in Attaches |-> "none"] /\ listener = [a \in Attaches |-> "none"]
    /\ is_terminated = {} /\ cleanup_func = {} /\ debugger = {}
    /\ state = None /\ active = FALSE /\ hook = None
    /\ overtaken = {}

Set(f, a, to) == [f EXCEPT ![a] = to]

-----------------------------------------------------------------------------
(* The extension and the helper process.                                   *)

\* The extension listens, and spawns the helper, which writes the script.
attach_by_pid(a) ==
    /\ extension[a] = "idle"
    /\ extension' = Set(extension, a, "waiting")
    /\ helper' = Set(helper, a, "written")
    /\ UNCHANGED <<ordered, bootstrap, session, target>>

\* sys.remote_exec tells the target to run the script, or fails.
remote_exec(a) ==
    /\ helper[a] = "written"
    /\ helper' = Set(helper, a, "posted")
    /\ ordered' = ordered \union {a}
    /\ UNCHANGED <<extension, bootstrap, session, target>>

\* The failure is classified for the extension, which gives up.
_classify_attach_failure(a) ==
    /\ helper[a] = "written"
    /\ helper' = Set(helper, a, "failed")
    /\ extension' = Set(extension, a, "gaveUp")
    /\ UNCHANGED <<ordered, bootstrap, session, target>>

\* The helper ends, and takes the script along.
HelperExits(a) ==
    /\ helper[a] = "posted"
    /\ helper' = Set(helper, a, "exited")
    /\ UNCHANGED <<extension, ordered, bootstrap, session, target>>

\* The target has not connected in time.
_waitForPythonIpcSocket(a) ==
    /\ helper[a] = "exited" /\ extension[a] = "waiting"
    /\ extension' = Set(extension, a, "gaveUp")
    /\ UNCHANGED <<helper, ordered, bootstrap, session, target>>

\* The extension closes its end.
Leave(a) ==
    /\ extension[a] = "connected"
    /\ extension' = Set(extension, a, "left")
    /\ UNCHANGED <<helper, ordered, bootstrap, session, target>>

-----------------------------------------------------------------------------
(* The bootstrap thread.                                                   *)

\* The target's main thread reaches the script, which may be gone.
bootstrap_from_remote_exec(a) ==
    /\ a \in ordered
    /\ ordered' = ordered \ {a}
    /\ bootstrap' = Set(bootstrap, a, IF helper[a] = "posted" THEN "starting" ELSE "missing")
    /\ UNCHANGED <<extension, helper, session, target>>

\* One attach at a time.
_bootstrap_attached_process(a) ==
    /\ bootstrap[a] = "starting"
    /\ bootstrap' = Set(bootstrap, a, IF active THEN "ignored" ELSE "session")
    /\ active' = TRUE
    /\ UNCHANGED <<asked, session, state, hook, overtaken>>

\* A new session takes the place of the old one.
NewSession(a) ==
    /\ bootstrap[a] = "session"
    /\ state' = a
    /\ cleanup_func' = cleanup_func \union {a}
    /\ bootstrap' = Set(bootstrap, a, "connecting")
    /\ UNCHANGED <<asked, streams, listener, is_terminated, debugger, active, hook, overtaken>>

\* The extension listens until it has been connected to, or given up.
setup_ipc_from_args(a) ==
    /\ bootstrap[a] = "connecting"
    /\ IF extension[a] = "waiting"
       THEN /\ extension' = Set(extension, a, "connected")
            /\ streams' = Set(streams, a, "open")
            /\ bootstrap' = Set(bootstrap, a, "listening")
       ELSE /\ bootstrap' = Set(bootstrap, a, "failing")
            /\ UNCHANGED <<extension, streams>>
    /\ UNCHANGED <<helper, ordered, listener, is_terminated, cleanup_func, debugger, target>>

start_command_listener(a) ==
    /\ bootstrap[a] = "listening"
    /\ listener' = Set(listener, a, "receiving")
    /\ bootstrap' = Set(bootstrap, a, "configuring")
    /\ UNCHANGED <<asked, streams, is_terminated, cleanup_func, debugger, target>>

configure_debugger(a) ==
    /\ bootstrap[a] = "configuring"
    /\ debugger' = debugger \union {a}
    /\ bootstrap' = Set(bootstrap, a, "installing")
    /\ UNCHANGED <<asked, streams, listener, is_terminated, cleanup_func, target>>

\* The current session's debugger is installed, if it has one.  Its trace function is
\* bdb's: in a debugger that was never reset it raises at the first call it is told of,
\* and that is one of this thread's own, after the hook is set.
_install_live_tracing(a) ==
    /\ bootstrap[a] = "installing"
    /\ IF state \in debugger
       THEN /\ hook' = state
            /\ overtaken' = overtaken \union {s \in {state} : streams[s] # "open"}
            /\ \E outcome \in {"failing", "active"} :
                   bootstrap' = Set(bootstrap, a, outcome)
       ELSE bootstrap' = Set(bootstrap, a, "failing") /\ UNCHANGED <<hook, overtaken>>
    /\ UNCHANGED <<asked, session, state, active>>

\* (the mutant leaves the flag to the cleanup)
M_BootstrapFails(a) ==
    /\ bootstrap[a] = "failing"
    /\ bootstrap' = Set(bootstrap, a, "failed")
    /\ UNCHANGED <<asked, session, target>>

\* The exception handler of _bootstrap_attached_process.
BootstrapFails(a) ==
    /\ bootstrap[a] = "failing"
    /\ active' = FALSE
    /\ bootstrap' = Set(bootstrap, a, "failed")
    /\ UNCHANGED <<asked, session, state, hook, overtaken>>

-----------------------------------------------------------------------------
(* The end of a session, on its listener's thread.                         *)

\* run_cleanup: once.
run_cleanup(a) ==
    /\ cleanup_func' = cleanup_func \ {a}
    /\ listener' = Set(listener, a, IF a \in cleanup_func THEN "cleanup" ELSE "ended")

\* disconnect or terminate.
EndCommand(a) ==
    /\ listener[a] = "receiving" /\ extension[a] = "connected"
    /\ is_terminated' = is_terminated \union {a}
    /\ run_cleanup(a)
    /\ UNCHANGED <<asked, bootstrap, streams, debugger, target>>

\* The extension's end is closed: exit_if_alive.
_attached_exit(a) ==
    /\ listener[a] = "receiving" /\ extension[a] = "left"
    /\ is_terminated' = is_terminated \union {a}
    /\ run_cleanup(a)
    /\ UNCHANGED <<asked, bootstrap, streams, debugger, target>>

\* Somebody else has closed the streams this listener reads from: it raises.
ReadClosed(a) ==
    /\ listener[a] = "receiving" /\ streams[a] = "closed"
    /\ listener' = Set(listener, a, "ended")
    /\ UNCHANGED <<asked, bootstrap, streams, is_terminated, cleanup_func, debugger, target>>

\* Neither this thread nor those to come are traced.
ClearTracing == hook' = None

\* It acts on the current session, whoever's cleanup it is.
_cleanup_attached_session(a) ==
    /\ listener[a] = "cleanup"
    /\ ClearTracing
    /\ streams' = Set(streams, state, IF streams[state] = "open" THEN "closed" ELSE streams[state])
    /\ debugger' = debugger \ {state}
    /\ active' = FALSE
    /\ listener' = Set(listener, a, "ended")
    /\ UNCHANGED <<asked, bootstrap, is_terminated, cleanup_func, state, overtaken>>

-----------------------------------------------------------------------------
Bootstrap(a) ==
    \/ _bootstrap_attached_process(a) \/ NewSession(a) \/ setup_ipc_from_args(a)
    \/ start_command_listener(a) \/ configure_debugger(a) \/ _install_live_tracing(a)
    \/ BootstrapFails(a)

Listener(a) ==
    EndCommand(a) \/ _attached_exit(a) \/ ReadClosed(a) \/ _cleanup_attached_session(a)

AttachNext ==
    \E a \in Attaches :
       \/ attach_by_pid(a) \/ remote_exec(a) \/ _classify_attach_failure(a)
       \/ HelperExits(a) \/ _waitForPythonIpcSocket(a) \/ Leave(a)
       \/ bootstrap_from_remote_exec(a) \/ Bootstrap(a) \/ Listener(a)

AttachSpec == AttachInit /\ [][AttachNext]_attachVars

-----------------------------------------------------------------------------
Bootstrapping(a) ==
    bootstrap[a] \in {"session", "connecting", "listening", "configuring", "installing",
                      "failing"}

\* A target that turns attaches away is building a session or has one whose listener
\* will end it: whatever fails on the way and whichever cleanup runs, the flag does not
\* outlast what it stands for, or nobody could attach again (attach_by_pid.py:402).
StillAttachable ==
    active => \/ \E a \in Attaches : Bootstrapping(a)
              \/ \E a \in Attaches : streams[a] = "open" /\ listener[a] # "ended"

\* New threads of the program start in the debugger of a session that is there, unless
\* the bootstrap was overtaken by the session's own end (attach_by_pid.py:294).
HookGone ==
    hook # None =>
        hook \in overtaken \/ (streams[hook] = "open" /\ listener[hook] # "ended")

\* An attach that failed or has ended leaves nothing behind in the process.
NothingLeftBehind == StillAttachable /\ HookGone

=============================================================================
