------------------------- MODULE MCLauncherSession -------------------------
(***************************************************************************)
(* The clients and programs TLC runs LauncherSession with.                 *)
(***************************************************************************)
EXTENDS LauncherSession

\* A client that looks at the stack, uses every kind of step, and may end the
\* session.
CuriousClient == {"configurationDone", "continue", "next", "stepIn", "stepOut",
                  "stackTrace", "disconnect", "terminate"}

\* One that also pauses the program and asks for its exception.
PausingClient == {"configurationDone", "stepOut", "pause", "exceptionInfo",
                  "disconnect"}

\* Clients that send just what a single question needs.
ContinuingClient == {"configurationDone", "continue"}
PlainProgram == {"breakpoint", "line", "exception"}
MixedProgram == {"breakpoint", "falseBreakpoint", "line", "exception"}
WatchProgram == {"line", "function", "watch"}

=============================================================================
