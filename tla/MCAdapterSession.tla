-------------------------- MODULE MCAdapterSession --------------------------
(***************************************************************************)
(* Small instances of AdapterSession for TLC.                              *)
(***************************************************************************)
EXTENDS AdapterSession

\* What the client of a run may ask for.
EveryRequest      == AllRequests \ {"setBreakpoints"}
InspectingClient  == {"launch", "configurationDone", "continue", "exceptionInfo",
                      "stackTrace", "disconnect"}
Either == {TRUE, FALSE}
Never  == {FALSE}

=============================================================================
