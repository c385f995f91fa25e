--------------------------- MODULE MCBreakpoints ---------------------------
(***************************************************************************)
(* Small instances of Breakpoints for TLC.                                 *)
(***************************************************************************)
EXTENDS Breakpoints, TLC

Plain       == NoKind
Conditional == [NoKind EXCEPT !.cond = TRUE]
Logpoint    == [NoKind EXCEPT !.log = TRUE]
SecondHit   == [NoKind EXCEPT !.hit = [op |-> "==", n |-> 2]]
FromSecond  == [NoKind EXCEPT !.hit = [op |-> ">=", n |-> 2]]
EverySecond == [NoKind EXCEPT !.hit = [op |-> "%", n |-> 2]]

TwoLines == {1, 2}

\* No breakpoint, one of each kind, and two at a time.
SomeRequests ==
    {NoBreakpoints, 1 :> Plain, 1 :> Conditional, 1 :> Logpoint, 1 :> SecondHit,
     1 :> FromSecond @@ 2 :> Plain, 1 :> EverySecond @@ 2 :> Conditional}

OneLogpoint == {1 :> Logpoint}

=============================================================================
