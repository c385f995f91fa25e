-------------------------- MODULE Extension_proofs --------------------------
(***************************************************************************)
(* Proofs about the extension's side: BreakpointReadiness, LaunchRecords,  *)
(* PythonEnvironment, ChildSessions, MainSessions and SessionJournal, each *)
(* for every value of its constants.                                       *)
(***************************************************************************)
EXTENDS BreakpointReadiness, LaunchRecords, PythonEnvironment, ChildSessions,
        MainSessions, SessionJournal, Integers, SequenceTheorems,
        FiniteSetTheorems, TLAPS

-----------------------------------------------------------------------------
(***************************************************************************)
(* BreakpointReadiness: the gate follows the answers.                      *)
(***************************************************************************)

\* What the records must be when only the request r is under way.
StillWaiting(r) == [l \in Lines |-> IF l \in r.lines THEN "pending" ELSE "none"]

Requested == [lines : SUBSET Lines, by : {"editor", "tool"}]

\* Without overlaps there is one request at most; it has left its lines pending
\* and nothing else.
GateInv ==
    /\ outstanding \in Seq(Requested)
    /\ ~crossed => \/ outstanding = <<>> /\ gate = answers
                   \/ Len(outstanding) = 1 /\ gate = StillWaiting(outstanding[1])

LEMMA RequestKeepsGate ==
    ASSUME GateInv, NEW reqs \in Seq(Requested), Len(reqs) \in {1, 2}, setBreakPointsRequest(reqs)
    PROVE  GateInv'
  <1> DEFINE last == reqs[Len(reqs)]
  <1>1. /\ outstanding' = outstanding \o reqs /\ gate' = StillWaiting(last)
        /\ crossed' = ((crossed /\ outstanding # <<>>) \/ Len(outstanding') > 1)
    BY DEF setBreakPointsRequest, setPendingBreakpoints, StillWaiting
  <1>2. outstanding \in Seq(Requested) /\ Len(outstanding) \in Nat
    BY DEF GateInv
  <1>3. outstanding' \in Seq(Requested) /\ Len(outstanding') = Len(outstanding) + Len(reqs)
    BY <1>1, <1>2, ConcatProperties
  <1>4. ASSUME ~crossed' PROVE Len(outstanding') = 1 /\ gate' = StillWaiting(outstanding'[1])
    <2>1. ~(Len(outstanding') > 1)
      BY <1>1, <1>4, Zenon
    <2>2. Len(outstanding) = 0 /\ Len(reqs) = 1
      <3> DEFINE n == Len(outstanding)
                 k == Len(reqs)
                 m == Len(outstanding')
      <3>1. n \in Nat /\ k \in {1, 2} /\ m = n + k /\ ~(m > 1)
        BY <2>1, <1>2, <1>3
      <3> HIDE DEF n, k, m
      <3>2. n = 0 /\ k = 1
        BY <3>1
      <3> QED BY <3>2 DEF n, k
    <2>3. outstanding' = reqs
      BY <2>2, <1>1, <1>2, EmptySeq, ConcatEmptySeq
    <2>4. Len(outstanding') = 1 /\ last = reqs[1]
      BY <2>2, <2>3
    <2> HIDE DEF last
    <2> QED BY <2>3, <2>4, <1>1
  <1> QED BY <1>3, <1>4 DEF GateInv

LEMMA SyncKeepsGate ==
    ASSUME GateInv, NEW lines \in SUBSET Lines, NEW r, syncBreakpoints(lines, r)
    PROVE  GateInv'
  <1> DEFINE own == [lines |-> lines, by |-> "tool"]
             theirs == [lines |-> lines, by |-> "editor"]
  <1>1. own \in Requested /\ theirs \in Requested
    BY DEF Requested
  <1>2. setBreakPointsRequest(<<own>>) \/ setBreakPointsRequest(<<theirs>> \o <<own>>)
    BY DEF syncBreakpoints
  <1> HIDE DEF own, theirs
  <1>3. <<own>> \in Seq(Requested) /\ Len(<<own>>) = 1
    BY <1>1
  <1>4. <<theirs>> \o <<own>> \in Seq(Requested) /\ Len(<<theirs>> \o <<own>>) = 2
    BY <1>1
  <1> QED BY <1>2, <1>3, <1>4, RequestKeepsGate

LEMMA AnswerKeepsGate ==
    ASSUME GateInv, setBreakpointsAnswered PROVE GateInv'
  <1> DEFINE request == Head(outstanding)
  <1>1. /\ outstanding # <<>> /\ outstanding' = Tail(outstanding) /\ crossed' = crossed
        /\ outstanding \in Seq(Requested)
    BY DEF setBreakpointsAnswered, GateInv
  <1>2. PICK result \in [request.lines -> Verdicts] :
           /\ gate' = [l \in Lines |-> IF l \in request.lines THEN result[l] ELSE gate[l]]
           /\ answers' = IF Len(outstanding) = 1
                         THEN [l \in Lines |-> IF l \in request.lines THEN result[l] ELSE "none"]
                         ELSE answers
    BY DEF setBreakpointsAnswered, updateBreakpointVerification
  <1>3. outstanding' \in Seq(Requested)
    BY <1>1, HeadTailProperties
  <1>4. ASSUME ~crossed' PROVE outstanding' = <<>> /\ gate' = answers'
    <2>1. Len(outstanding) = 1 /\ gate = StillWaiting(outstanding[1])
      BY <1>1, <1>4 DEF GateInv
    <2>2. request = outstanding[1] /\ outstanding' = <<>>
      BY <1>1, <2>1, HeadTailProperties, EmptySeq
    <2> HIDE DEF request
    <2>3. \A l \in Lines : l \notin request.lines => gate[l] = "none"
      BY <2>1, <2>2 DEF StillWaiting
    <2> QED BY <1>2, <2>1, <2>2, <2>3
  <1> QED BY <1>3, <1>4 DEF GateInv

LEMMA WantedStays ==
    ASSUME wanted \subseteq Lines, [ReadinessNext]_readinessVars PROVE wanted' \subseteq Lines
  BY DEF ReadinessNext, readinessVars, editorChanges, toolAdds, toolRemoves,
         setBreakpointsAnswered, setBreakpointsFails, breakpointEvent, initializedEvent,
         configurationDoneRequest, waitForReadinessGateState

LEMMA ReadinessStep ==
    ASSUME wanted \subseteq Lines, GateInv, [ReadinessNext]_readinessVars PROVE GateInv'
  <1>1. ASSUME NEW lines \in SUBSET Lines, editorChanges(lines) PROVE GateInv'
    <2> DEFINE r == [lines |-> lines, by |-> "editor"]
    <2>1. r \in Requested /\ setBreakPointsRequest(<<r>>)
      BY <1>1 DEF editorChanges, Requested
    <2> HIDE DEF r
    <2>2. <<r>> \in Seq(Requested) /\ Len(<<r>>) = 1
      BY <2>1
    <2> QED BY <2>1, <2>2, RequestKeepsGate
  <1>2. ASSUME NEW lines \in SUBSET Lines, toolAdds(lines) \/ \E d \in BOOLEAN : toolRemoves(lines, d)
        PROVE  GateInv'
    <2>1. PICK ls, r : ls \in SUBSET Lines /\ syncBreakpoints(ls, r)
      <3>1. CASE toolAdds(lines)
        <4>1. syncBreakpoints(wanted \union lines, seen)
          BY <3>1 DEF toolAdds
        <4> QED BY <4>1
      <3>2. ASSUME NEW d \in BOOLEAN, toolRemoves(lines, d) PROVE \E ls, r : ls \in SUBSET Lines /\ syncBreakpoints(ls, r)
        <4>1. syncBreakpoints(wanted \ lines, IF d THEN seen ELSE
                  [l \in Lines |-> IF l \in lines THEN "none" ELSE seen[l]])
          BY <3>2 DEF toolRemoves
        <4> QED BY <4>1
      <3> QED BY <1>2, <3>1, <3>2
    <2> QED BY <2>1, SyncKeepsGate
  <1>3. CASE setBreakpointsAnswered
    BY <1>3, AnswerKeepsGate
  <1>4. CASE setBreakpointsFails
    BY <1>4, HeadTailProperties DEF setBreakpointsFails, GateInv
  <1>5. ASSUME NEW l \in Lines, NEW verdict \in Verdicts, breakpointEvent(l, verdict) PROVE GateInv'
    BY <1>5 DEF breakpointEvent, GateInv
  <1>6. CASE initializedEvent \/ configurationDoneRequest \/ waitForReadinessGateState
             \/ UNCHANGED readinessVars
    BY <1>6 DEF initializedEvent, configurationDoneRequest, waitForReadinessGateState,
                readinessVars, GateInv
  <1> QED BY <1>1, <1>2, <1>3, <1>4, <1>5, <1>6 DEF ReadinessNext

ReadinessInv == wanted \subseteq Lines /\ GateInv

\* Once the requests that were sent are answered the gate is what the newest answer makes it, for
\* any lines and any number of requests of which no two crossed (setPendingBreakpoints,
\* updateBreakpointVerification).
THEOREM GateFollowsAnswersAlways == ReadinessSpec => []GateFollowsAnswers
  <1>1. ReadinessInit => ReadinessInv
    BY EmptySeq DEF ReadinessInit, GateInv, ReadinessInv
  <1>2. ReadinessInv => GateFollowsAnswers
    BY EmptySeq DEF ReadinessInv, GateInv, GateFollowsAnswers
  <1>3. ReadinessInv /\ [ReadinessNext]_readinessVars => ReadinessInv'
    BY WantedStays, ReadinessStep DEF ReadinessInv
  <1> QED BY <1>1, <1>2, <1>3, PTL DEF ReadinessSpec

-----------------------------------------------------------------------------
(***************************************************************************)
(* LaunchRecords: a record follows its session.                            *)
(***************************************************************************)

Statuses == {"absent", "launching", "running", "failed", "terminated", "exited"}

LaunchTypeOK ==
    /\ mode \in [Launches -> {"debug", "run"}]
    /\ call \in [Launches -> {"new", "preparing", "opening", "starting", "waiting", "returned", "threw"}]
    /\ waiter \in [Launches -> {"none", "pending", "resolved", "rejected"}]
    /\ session \in [Launches -> {"none", "starting", "live", "over"}]
    /\ tab \in [Launches -> {"none", "open", "closed"}]
    /\ status \in [Launches -> Statuses]

\* A record that says its launch is under way or its program running.
Shown(l) == status[l] \in {"launching", "running"}

\* How the record of a debug launch, and that of a run, goes with the session.
DebugRecord(l) ==
    /\ call[l] \in {"new", "starting", "waiting", "returned", "threw"}
    /\ call[l] = "starting" => session[l] \in {"starting", "live", "over"}
    /\ call[l] = "waiting" => session[l] \in {"live", "over"}
    /\ session[l] = "live" /\ Recorded(l) => l \in linked /\ status[l] \in {"running", "exited"}
    /\ session[l] = "over" /\ l \notin revived => ~Shown(l)
    /\ session[l] = "starting" /\ Settled(l) /\ l \notin revived => ~Shown(l)
    /\ session[l] = "none" => ~Shown(l)

RunRecord(l) ==
    /\ call[l] \in {"new", "preparing", "opening", "returned", "threw"}
    /\ session[l] = "none"
    /\ Settled(l) /\ Shown(l) => tab[l] = "open"

RecordInv(l) ==
    /\ call[l] = "new" => ~Recorded(l) /\ session[l] = "none"
    /\ mode[l] = "debug" => DebugRecord(l)
    /\ mode[l] = "run" => RunRecord(l)

LaunchInv == LaunchTypeOK /\ \A l \in Launches : RecordInv(l)

LEMMA LaunchTypeStep ==
    ASSUME LaunchTypeOK, [LaunchNext]_launchVars PROVE LaunchTypeOK'
  <1> USE DEF LaunchTypeOK, Statuses, Marked, markLaunchStarted, attachSession,
              markSessionTerminated, attachTerminal, Recorded
  <1>1. ASSUME NEW l \in Launches, launch(l) \/ waiterTimesOut(l) \/ cancel(l) \/ startDebuggingFails(l)
        PROVE  LaunchTypeOK'
    BY <1>1 DEF launch, waiterTimesOut, cancel, startDebuggingFails
  <1>2. ASSUME NEW l \in Launches, startDebuggingReturns(l) \/ waitForStopEnds(l)
                                   \/ runStarts(l) \/ runFails(l) \/ runExits(l)
        PROVE  LaunchTypeOK'
    BY <1>2 DEF startDebuggingReturns, waitForStopEnds, runStarts, runFails, runExits
  <1>3. ASSUME NEW l \in Launches, adapterTerminalCreated(l) \/ sessionStarts(l)
                                   \/ sessionTerminates(l) \/ sessionRestarts(l)
        PROVE  LaunchTypeOK'
    BY <1>3 DEF adapterTerminalCreated, sessionStarts, sessionTerminates, sessionRestarts
  <1>4. ASSUME NEW l \in Launches, restartFails(l) \/ onDidCloseTerminal(l)
        PROVE  LaunchTypeOK'
    BY <1>4 DEF restartFails, onDidCloseTerminal
  <1>5. ASSUME NEW ls \in SUBSET Launches, deleteLaunches(ls) PROVE LaunchTypeOK'
    BY <1>5 DEF deleteLaunches
  <1>6. CASE prepareEnvironment \/ UNCHANGED launchVars
    BY <1>6 DEF prepareEnvironment, launchVars
  <1> QED BY <1>1, <1>2, <1>3, <1>4, <1>5, <1>6 DEF LaunchNext

LEMMA RecordStep ==
    ASSUME LaunchInv, [LaunchNext]_launchVars, NEW k \in Launches PROVE RecordInv(k)'
  <1>0. LaunchTypeOK /\ LaunchTypeOK' /\ RecordInv(k)
    BY LaunchTypeStep DEF LaunchInv
  <1> USE DEF RecordInv, DebugRecord, RunRecord, Shown, Recorded, Settled
  <1>1. ASSUME NEW l \in Launches, launch(l) \/ waiterTimesOut(l) \/ cancel(l)
        PROVE  RecordInv(k)'
    BY <1>0, <1>1 DEF LaunchTypeOK, launch, waiterTimesOut, cancel
  <1>2. ASSUME NEW l \in Launches, startDebuggingFails(l) PROVE RecordInv(k)'
    BY <1>0, <1>2 DEF LaunchTypeOK, startDebuggingFails, Marked
  <1>3. ASSUME NEW l \in Launches, startDebuggingReturns(l) PROVE RecordInv(k)'
    BY <1>0, <1>3 DEF LaunchTypeOK, startDebuggingReturns, attachSession, markLaunchStarted
  <1>4. ASSUME NEW l \in Launches, waitForStopEnds(l) \/ runStarts(l) PROVE RecordInv(k)'
    BY <1>0, <1>4 DEF LaunchTypeOK, waitForStopEnds, runStarts, attachTerminal, markLaunchStarted
  <1>5. ASSUME NEW l \in Launches, runFails(l) \/ runExits(l) PROVE RecordInv(k)'
    BY <1>0, <1>5 DEF LaunchTypeOK, runFails, runExits, Marked
  <1>6. ASSUME NEW l \in Launches, adapterTerminalCreated(l) \/ sessionStarts(l) PROVE RecordInv(k)'
    BY <1>0, <1>6 DEF LaunchTypeOK, adapterTerminalCreated, sessionStarts, attachTerminal, attachSession
  <1>7. ASSUME NEW l \in Launches, sessionTerminates(l) PROVE RecordInv(k)'
    BY <1>0, <1>7 DEF LaunchTypeOK, sessionTerminates, markSessionTerminated
  <1>8. ASSUME NEW l \in Launches, sessionRestarts(l) \/ restartFails(l) PROVE RecordInv(k)'
    BY <1>0, <1>8 DEF LaunchTypeOK, sessionRestarts, restartFails
  <1>9. ASSUME NEW l \in Launches, onDidCloseTerminal(l) PROVE RecordInv(k)'
    BY <1>0, <1>9 DEF LaunchTypeOK, onDidCloseTerminal, Marked
  <1>10. ASSUME NEW ls \in SUBSET Launches, deleteLaunches(ls) PROVE RecordInv(k)'
    BY <1>0, <1>10 DEF LaunchTypeOK, deleteLaunches
  <1>11. CASE prepareEnvironment
    BY <1>0, <1>11 DEF LaunchTypeOK, prepareEnvironment
  <1>12. CASE UNCHANGED launchVars
    BY <1>0, <1>12 DEF launchVars
  <1> QED BY <1>1, <1>2, <1>3, <1>4, <1>5, <1>6, <1>7, <1>8, <1>9, <1>10, <1>11, <1>12
          DEF LaunchNext

\* Once launch() is through, a record is running exactly as long as there is something to it, for
\* any number of launches and any order of the ends of their sessions and terminals.
THEOREM RecordFollowsSessionAlways == LaunchSpec => []RecordFollowsSession
  <1>1. LaunchInit => LaunchInv
    BY DEF LaunchInit, LaunchInv, LaunchTypeOK, Statuses, RecordInv, DebugRecord, RunRecord,
           Shown, Recorded, Settled
  <1>2. LaunchInv => RecordFollowsSession
    BY DEF LaunchInv, LaunchTypeOK, RecordFollowsSession, RecordInv, DebugRecord, RunRecord,
           Shown, Recorded, Settled
  <1>3. LaunchInv /\ [LaunchNext]_launchVars => LaunchInv'
    BY LaunchTypeStep, RecordStep DEF LaunchInv
  <1> QED BY <1>1, <1>2, <1>3, PTL DEF LaunchSpec

-----------------------------------------------------------------------------
(***************************************************************************)
(* PythonEnvironment: an environment that is reused is whole.              *)
(***************************************************************************)

Contents == [build : Builds \union {Nothing}, whole : BOOLEAN, entry : BOOLEAN]

\* What a manager may be doing, as a record of one of two shapes.
IsProgress(r) ==
    \/ r = [at |-> "idle", answer |-> r.answer]
    \/ /\ r = [at |-> r.at, request |-> r.request, for |-> r.for,
               importable |-> r.importable, disturbed |-> r.disturbed]
       /\ r.at # "idle" /\ r.disturbed \in BOOLEAN

EnvironmentTypeOK ==
    /\ bundle \in Builds
    /\ site \in [Places -> Contents]
    /\ lib \in [Versions -> Contents]
    /\ dapper_env \in Builds \union {Nothing} /\ dapper_lib \in Builds \union {Nothing}
    /\ overwritten \in [Stores -> SUBSET Builds]
    /\ progress = [m \in Managers |-> progress[m]]
    /\ \A m \in Managers : IsProgress(progress[m])

\* The directories: a manifest that counts says what is there; who removes or
\* unpacks has had it struck off; and what was unpacked in peace is whole.
LibraryInv ==
    /\ dapper_lib # Nothing /\ dapper_lib \notin overwritten["lib"]
           => lib[VersionOf[dapper_lib]] = Whole(dapper_lib)
    /\ \A m \in Managers :
        /\ progress[m].at \in {"removing", "extracting"} /\ dapper_lib # Nothing
           /\ VersionOf[dapper_lib] = Version => dapper_lib \in overwritten["lib"]
        /\ progress[m].at \in {"removing", "extracting", "record"} => lib[Version].build # Nothing
        /\ progress[m].at = "record" /\ ~progress[m].disturbed => lib[Version] = Whole(bundle)

WholeOf(c, v) == c.whole /\ c.entry /\ HasVersion(c, v)

\* The managed interpreter likewise, and what a manager that reuses it knows of
\* the manifest.
ManagedInv ==
    /\ dapper_env # Nothing /\ dapper_env \notin overwritten["managed"]
           => WholeOf(site["managed"], VersionOf[dapper_env])
    /\ \A m \in Managers :
        /\ progress[m].at = "installing" /\ Place(m) = "managed" /\ dapper_env # Nothing
               => dapper_env \in overwritten["managed"]
        /\ progress[m].at = "check" /\ ~progress[m].disturbed => WholeOf(site["managed"], Version)
        /\ progress[m].at = "verify" /\ dapper_env # Nothing => VersionOf[dapper_env] = Version
        /\ progress[m].at = "verify" /\ dapper_env = Nothing /\ ~progress[m].disturbed
               => ~site["managed"].entry \/ WholeOf(site["managed"], Version)

EnvironmentInv == EnvironmentTypeOK /\ LibraryInv /\ ManagedInv

-----------------------------------------------------------------------------
LEMMA NothingIsNoBuild == Nothing \notin Builds /\ Nothing # "lib reused" /\ Nothing # "managed reused"
  BY BuildsAssumption

LEMMA WholeIs ==
    ASSUME NEW b \in Builds
    PROVE  /\ Whole(b) \in Contents /\ Whole(b).build = b /\ Whole(b).whole /\ Whole(b).entry
           /\ WholeOf(Whole(b), VersionOf[b]) /\ VersionOf[b] \in Versions
  BY NothingIsNoBuild DEF Whole, Content, Contents, WholeOf, HasVersion, Versions

LEMMA VersionIs == bundle \in Builds => Version \in Versions /\ Version = VersionOf[bundle]
  BY DEF Version, Versions

\* A step of one manager that touches no file and comes to none of the places
\* the invariant speaks of.
Quiet == {"idle", "preferred", "workspace", "ask", "library", "remove", "managed", "ensurepip",
          "decide", "pip"}

\* The fields of a manager's record change one at a time.
LEMMA SetAt ==
    ASSUME NEW p, IsProgress(p), p.at # "idle", NEW a, a # "idle"
    PROVE  LET q == [p EXCEPT !.at = a]
           IN  IsProgress(q) /\ q.at = a /\ q.for = p.for /\ q.disturbed = p.disturbed
  <1> DEFINE q == [p EXCEPT !.at = a]
  <1>1. p = [at |-> p.at, request |-> p.request, for |-> p.for,
             importable |-> p.importable, disturbed |-> p.disturbed] /\ p.disturbed \in BOOLEAN
    BY DEF IsProgress
  <1>2. q = [at |-> a, request |-> p.request, for |-> p.for,
             importable |-> p.importable, disturbed |-> p.disturbed]
    BY <1>1
  <1> HIDE DEF q
  <1>3. /\ q.at = a /\ q.request = p.request /\ q.for = p.for
        /\ q.importable = p.importable /\ q.disturbed = p.disturbed
    BY <1>2
  <1>4. IsProgress(q)
    BY <1>1, <1>2, <1>3 DEF IsProgress
  <1> QED BY <1>3, <1>4 DEF q

LEMMA SetFor ==
    ASSUME NEW p, IsProgress(p), p.at # "idle", NEW a
    PROVE  LET q == [p EXCEPT !.for = a]
           IN  IsProgress(q) /\ q.at = p.at /\ q.for = a /\ q.disturbed = p.disturbed
  <1> DEFINE q == [p EXCEPT !.for = a]
  <1>1. p = [at |-> p.at, request |-> p.request, for |-> p.for,
             importable |-> p.importable, disturbed |-> p.disturbed] /\ p.disturbed \in BOOLEAN
    BY DEF IsProgress
  <1>2. q = [at |-> p.at, request |-> p.request, for |-> a,
             importable |-> p.importable, disturbed |-> p.disturbed]
    BY <1>1
  <1> HIDE DEF q
  <1>3. /\ q.at = p.at /\ q.request = p.request /\ q.for = a
        /\ q.importable = p.importable /\ q.disturbed = p.disturbed
    BY <1>2
  <1>4. IsProgress(q)
    BY <1>1, <1>2, <1>3 DEF IsProgress
  <1> QED BY <1>3, <1>4 DEF q

LEMMA SetImportable ==
    ASSUME NEW p, IsProgress(p), p.at # "idle", NEW a
    PROVE  LET q == [p EXCEPT !.importable = a]
           IN  IsProgress(q) /\ q.at = p.at /\ q.for = p.for /\ q.disturbed = p.disturbed
  <1> DEFINE q == [p EXCEPT !.importable = a]
  <1>1. p = [at |-> p.at, request |-> p.request, for |-> p.for,
             importable |-> p.importable, disturbed |-> p.disturbed] /\ p.disturbed \in BOOLEAN
    BY DEF IsProgress
  <1>2. q = [at |-> p.at, request |-> p.request, for |-> p.for,
             importable |-> a, disturbed |-> p.disturbed]
    BY <1>1
  <1> HIDE DEF q
  <1>3. /\ q.at = p.at /\ q.request = p.request /\ q.for = p.for
        /\ q.importable = a /\ q.disturbed = p.disturbed
    BY <1>2
  <1>4. IsProgress(q)
    BY <1>1, <1>2, <1>3 DEF IsProgress
  <1> QED BY <1>3, <1>4 DEF q

LEMMA SetDisturbed ==
    ASSUME NEW p, IsProgress(p), p.at # "idle", NEW a \in BOOLEAN
    PROVE  LET q == [p EXCEPT !.disturbed = a]
           IN  IsProgress(q) /\ q.at = p.at /\ q.for = p.for /\ q.disturbed = a
  <1> DEFINE q == [p EXCEPT !.disturbed = a]
  <1>1. p = [at |-> p.at, request |-> p.request, for |-> p.for,
             importable |-> p.importable, disturbed |-> p.disturbed] /\ p.disturbed \in BOOLEAN
    BY DEF IsProgress
  <1>2. q = [at |-> p.at, request |-> p.request, for |-> p.for,
             importable |-> p.importable, disturbed |-> a]
    BY <1>1
  <1> HIDE DEF q
  <1>3. /\ q.at = p.at /\ q.request = p.request /\ q.for = p.for
        /\ q.importable = p.importable /\ q.disturbed = a
    BY <1>2
  <1>4. IsProgress(q)
    BY <1>1, <1>2, <1>3 DEF IsProgress
  <1> QED BY <1>3, <1>4 DEF q

LEMMA SetRequest ==
    ASSUME NEW p, IsProgress(p), p.at # "idle", NEW a
    PROVE  LET q == [p EXCEPT !.request = a]
           IN  IsProgress(q) /\ q.at = p.at /\ q.for = p.for /\ q.disturbed = p.disturbed
  <1> DEFINE q == [p EXCEPT !.request = a]
  <1>1. p = [at |-> p.at, request |-> p.request, for |-> p.for,
             importable |-> p.importable, disturbed |-> p.disturbed] /\ p.disturbed \in BOOLEAN
    BY DEF IsProgress
  <1>2. q = [at |-> p.at, request |-> a, for |-> p.for,
             importable |-> p.importable, disturbed |-> p.disturbed]
    BY <1>1
  <1> HIDE DEF q
  <1>3. /\ q.at = p.at /\ q.request = a /\ q.for = p.for
        /\ q.importable = p.importable /\ q.disturbed = p.disturbed
    BY <1>2
  <1>4. IsProgress(q)
    BY <1>1, <1>2, <1>3 DEF IsProgress
  <1> QED BY <1>3, <1>4 DEF q

Moves(m, places) ==
    \E r : /\ IsProgress(r) /\ r.at \in places
           /\ progress' = [progress EXCEPT ![m] = r]

LEMMA QuietStep ==
    ASSUME EnvironmentInv, UNCHANGED <<site, dapper_env, lib, dapper_lib, overwritten, bundle>>,
           NEW m \in Managers, Moves(m, Quiet)
    PROVE  EnvironmentInv'
  <1>0. PICK r : IsProgress(r) /\ r.at \in Quiet /\ progress' = [progress EXCEPT ![m] = r]
    BY DEF Moves
  <1>1. \A n \in Managers : progress'[n] = IF n = m THEN r ELSE progress[n]
    BY <1>0 DEF EnvironmentInv, EnvironmentTypeOK
  <1>2. EnvironmentTypeOK'
    BY <1>0, <1>1 DEF EnvironmentInv, EnvironmentTypeOK
  <1>3. LibraryInv'
    BY <1>0, <1>1 DEF EnvironmentInv, LibraryInv, Quiet, Version
  <1>4. ManagedInv'
    BY <1>0, <1>1 DEF EnvironmentInv, ManagedInv, Quiet, Version, Place
  <1> QED BY <1>2, <1>3, <1>4 DEF EnvironmentInv

LEMMA FinishMoves ==
    ASSUME NEW m \in Managers, NEW how, Finish(m, how)
    PROVE  Moves(m, Quiet)
  <1> DEFINE r == [at |-> "idle", answer |-> how]
  <1>1. IsProgress(r) /\ r.at = "idle"
    BY DEF IsProgress
  <1> QED BY <1>1 DEF Finish, Moves, Quiet

LEMMA GoOnMoves ==
    ASSUME EnvironmentTypeOK, NEW m \in Managers, progress[m].at # "idle",
           NEW place \in Quiet \ {"idle"}, GoOn(m, place)
    PROVE  Moves(m, Quiet)
  <1> DEFINE r == [progress[m] EXCEPT !.at = place]
  <1>1. IsProgress(progress[m])
    BY DEF EnvironmentTypeOK
  <1>2. IsProgress(r) /\ r.at = place
    BY <1>1, SetAt
  <1>3. progress' = [progress EXCEPT ![m] = r]
    BY DEF GoOn
  <1> QED BY <1>2, <1>3 DEF Moves

LEMMA GoForMoves ==
    ASSUME EnvironmentTypeOK, NEW m \in Managers, progress[m].at # "idle",
           NEW place \in Quiet \ {"idle"}, NEW f,
           progress' = [progress EXCEPT ![m].at = place, ![m].for = f]
    PROVE  Moves(m, Quiet)
  <1> DEFINE q == [progress[m] EXCEPT !.at = place]
             r == [q EXCEPT !.for = f]
  <1>1. IsProgress(progress[m])
    BY DEF EnvironmentTypeOK
  <1>2. IsProgress(q) /\ q.at = place
    BY <1>1, SetAt
  <1>3. progress' = [progress EXCEPT ![m] = r]
    BY DEF EnvironmentTypeOK
  <1> HIDE DEF q
  <1>4. IsProgress(r) /\ r.at = place
    BY <1>2, SetFor
  <1> QED BY <1>3, <1>4 DEF Moves

LEMMA WithoutLibraryMoves ==
    ASSUME EnvironmentTypeOK, NEW m \in Managers, progress[m].at # "idle", NEW i, WithoutLibrary(m, i)
    PROVE  Moves(m, Quiet)
  BY FinishMoves, GoOnMoves DEF WithoutLibrary, AfterPreferred, Quiet

LEMMA NoLibraryMoves ==
    ASSUME EnvironmentTypeOK, NEW m \in Managers, progress[m].at # "idle", NoLibrary(m)
    PROVE  Moves(m, Quiet)
  <1>1. WithoutLibrary(m, progress[m].importable) \/ GoOn(m, "ask") \/ GoOn(m, "pip")
    BY DEF NoLibrary
  <1> QED BY <1>1, WithoutLibraryMoves, GoOnMoves DEF Quiet

LEMMA PrepareStep ==
    ASSUME EnvironmentInv, NEW m \in Managers, NEW q \in Requests, PrepareOnce(m, q)
    PROVE  EnvironmentInv'
  <1>1. UNCHANGED <<site, dapper_env, lib, dapper_lib, overwritten, bundle>>
    BY DEF PrepareOnce, disk
  <1> DEFINE r == [at |-> IF q.preferred THEN "preferred" ELSE AfterPreferred(q), request |-> q,
                   for |-> "managed", importable |-> FALSE, disturbed |-> FALSE]
  <1>2. IsProgress(r) /\ r.at \in Quiet
    BY DEF IsProgress, AfterPreferred, Quiet
  <1>3. Finish(m, "interpreter") \/ progress' = [progress EXCEPT ![m] = r]
    BY DEF PrepareOnce
  <1> HIDE DEF r
  <1>4. Moves(m, Quiet)
    BY <1>2, <1>3, FinishMoves DEF Moves
  <1> QED BY <1>1, <1>4, QuietStep

LEMMA ChoosingStep ==
    ASSUME EnvironmentInv, NEW m \in Managers,
           \/ tryPreferredInterpreter(m) \/ tryWorkspaceVenv(m) \/ createWorkspaceVenvOrAbort(m)
           \/ ensureDapperLib(m) \/ createVenv(m) \/ ensurePip(m)
    PROVE  EnvironmentInv'
  <1>1. UNCHANGED <<site, dapper_env, lib, dapper_lib, overwritten, bundle>>
    BY DEF tryPreferredInterpreter, tryWorkspaceVenv, createWorkspaceVenvOrAbort, ensureDapperLib,
           createVenv, ensurePip, disk, counters
  <1>2. EnvironmentTypeOK
    BY DEF EnvironmentInv
  <1>3. CASE tryPreferredInterpreter(m)
    <2>1. progress[m].at # "idle"
      BY <1>3 DEF tryPreferredInterpreter, At
    <2>2. \/ Finish(m, "interpreter")
          \/ progress' = [progress EXCEPT ![m].at = "library", ![m].for = "preferred",
                                          ![m].importable = site["preferred"].entry]
          \/ progress' = [progress EXCEPT ![m].at = "pip", ![m].for = "preferred"]
          \/ WithoutLibrary(m, site["preferred"].entry)
      BY <1>3 DEF tryPreferredInterpreter
    <2>3. CASE progress' = [progress EXCEPT ![m].at = "library", ![m].for = "preferred",
                                           ![m].importable = site["preferred"].entry]
      <3> DEFINE p == [progress[m] EXCEPT !.at = "library"]
                 q == [p EXCEPT !.for = "preferred"]
                 r == [q EXCEPT !.importable = site["preferred"].entry]
      <3>1. IsProgress(progress[m])
        BY <1>2 DEF EnvironmentTypeOK
      <3>2. progress' = [progress EXCEPT ![m] = r]
        BY <2>3, <1>2 DEF EnvironmentTypeOK
      <3>3. IsProgress(p) /\ p.at = "library"
        BY <2>1, <3>1, SetAt
      <3> HIDE DEF p
      <3>4. IsProgress(q) /\ q.at = "library"
        BY <3>3, SetFor
      <3> HIDE DEF q
      <3>5. IsProgress(r) /\ r.at = "library"
        BY <3>4, SetImportable
      <3> HIDE DEF r
      <3> QED BY <3>2, <3>5, <1>1, QuietStep DEF Moves, Quiet
    <2> QED BY <1>1, <1>2, <2>1, <2>2, <2>3, FinishMoves, GoForMoves, WithoutLibraryMoves, QuietStep
            DEF Quiet
  <1>4. CASE tryWorkspaceVenv(m)
    <2>1. progress[m].at # "idle"
      BY <1>4 DEF tryWorkspaceVenv, At
    <2>2. \/ Finish(m, "interpreter") \/ GoOn(m, "ask")
          \/ progress' = [progress EXCEPT ![m].at = "library", ![m].for = "workspace"]
      BY <1>4 DEF tryWorkspaceVenv
    <2> QED BY <1>1, <1>2, <2>1, <2>2, FinishMoves, GoForMoves, GoOnMoves, QuietStep DEF Quiet
  <1>5. CASE createWorkspaceVenvOrAbort(m)
    <2>1. progress[m].at # "idle"
      BY <1>5 DEF createWorkspaceVenvOrAbort, At
    <2>2. \/ Finish(m, "failed")
          \/ \E a \in {"library", "pip"} :
                progress' = [progress EXCEPT ![m].at = a, ![m].for = "created"]
      BY <1>5 DEF createWorkspaceVenvOrAbort
    <2> QED BY <1>1, <1>2, <2>1, <2>2, FinishMoves, GoForMoves, QuietStep DEF Quiet
  <1>6. CASE ensureDapperLib(m)
    <2>1. progress[m].at # "idle"
      BY <1>6 DEF ensureDapperLib, At
    <2>2. Finish(m, "lib reused") \/ GoOn(m, "remove")
      BY <1>6 DEF ensureDapperLib
    <2> QED BY <1>1, <1>2, <2>1, <2>2, FinishMoves, GoOnMoves, QuietStep DEF Quiet
  <1>7. CASE createVenv(m)
    <2>1. progress[m].at # "idle"
      BY <1>7 DEF createVenv, At
    <2>2. Finish(m, "failed") \/ progress' = [progress EXCEPT ![m].at = "ensurepip",
                                                             ![m].for = "managed"]
      BY <1>7 DEF createVenv
    <2> QED BY <1>1, <1>2, <2>1, <2>2, FinishMoves, GoForMoves, QuietStep DEF Quiet
  <1>8. CASE ensurePip(m)
    <2>1. progress[m].at # "idle"
      BY <1>8 DEF ensurePip, At
    <2>2. Finish(m, "failed") \/ GoOn(m, "decide")
      BY <1>8 DEF ensurePip
    <2> QED BY <1>1, <1>2, <2>1, <2>2, FinishMoves, GoOnMoves, QuietStep DEF Quiet
  <1> QED BY <1>3, <1>4, <1>5, <1>6, <1>7, <1>8

\* The other managers stay where they are; a file may go from under them.
OthersStay(m) ==
    \A n \in Managers \ {m} :
        /\ IsProgress(progress'[n])
        /\ progress'[n].at = progress[n].at /\ progress'[n].for = progress[n].for
        /\ ~progress'[n].disturbed => ~progress[n].disturbed

LEMMA AloneIs ==
    ASSUME EnvironmentTypeOK, NEW m \in Managers, NEW r, IsProgress(r),
           progress' = [progress EXCEPT ![m] = r]
    PROVE  /\ progress'[m] = r /\ OthersStay(m)
           /\ progress' = [n \in Managers |-> progress'[n]]
           /\ \A n \in Managers : IsProgress(progress'[n])
  BY DEF EnvironmentTypeOK, OthersStay

LEMMA DisturbingIs ==
    ASSUME EnvironmentTypeOK, NEW m \in Managers, NEW r, IsProgress(r), NEW steps, "idle" \notin steps,
           progress' = Disturbing(m, steps, r)
    PROVE  /\ progress'[m] = r /\ OthersStay(m)
           /\ progress' = [n \in Managers |-> progress'[n]]
           /\ \A n \in Managers : IsProgress(progress'[n])
           /\ \A n \in Managers \ {m} : progress[n].at \in steps => progress'[n].disturbed
  <1>1. /\ progress' = [n \in Managers |-> progress'[n]] /\ progress'[m] = r
        /\ \A n \in Managers \ {m} :
              progress'[n] = IF progress[n].at \in steps THEN [progress[n] EXCEPT !.disturbed = TRUE]
                             ELSE progress[n]
    BY DEF Disturbing
  <1>2. ASSUME NEW n \in Managers \ {m}, progress[n].at \in steps
        PROVE  /\ IsProgress(progress'[n]) /\ progress'[n].disturbed
               /\ progress'[n].at = progress[n].at /\ progress'[n].for = progress[n].for
    <2>1. IsProgress(progress[n]) /\ progress[n].at # "idle"
      BY <1>2 DEF EnvironmentTypeOK
    <2>2. progress'[n] = [progress[n] EXCEPT !.disturbed = TRUE]
      BY <1>1, <1>2
    <2> QED BY <2>1, <2>2, SetDisturbed
  <1>3. ASSUME NEW n \in Managers \ {m}, progress[n].at \notin steps
        PROVE  IsProgress(progress'[n]) /\ progress'[n] = progress[n]
    BY <1>1, <1>3 DEF EnvironmentTypeOK
  <1> QED BY <1>1, <1>2, <1>3 DEF OthersStay

LEMMA LibraryApart ==
    ASSUME EnvironmentInv, NEW m \in Managers, OthersStay(m), UNCHANGED <<lib, dapper_lib, bundle>>,
           overwritten'["lib"] = overwritten["lib"],
           progress'[m].at \notin {"removing", "extracting", "record"}
    PROVE  LibraryInv'
  BY DEF EnvironmentInv, LibraryInv, OthersStay, Version

LEMMA ManagedApart ==
    ASSUME EnvironmentInv, NEW m \in Managers, OthersStay(m), UNCHANGED <<site, dapper_env, bundle>>,
           overwritten'["managed"] = overwritten["managed"],
           progress'[m].at \notin {"installing", "check", "verify"}
    PROVE  ManagedInv'
  <1>1. \A n \in Managers \ {m} : Place(n)' = Place(n)
    BY DEF OthersStay, Place
  <1> QED BY <1>1 DEF EnvironmentInv, ManagedInv, OthersStay, Version, WholeOf

\* A manifest that counts is the one of a directory, or of an interpreter, that
\* is there.
LEMMA NoneToCount ==
    ASSUME EnvironmentInv, lib[Version].build = Nothing, dapper_lib # Nothing,
           VersionOf[dapper_lib] = Version
    PROVE  dapper_lib \in overwritten["lib"]
  <1>1. dapper_lib \in Builds
    BY DEF EnvironmentInv, EnvironmentTypeOK
  <1> QED BY <1>1, WholeIs DEF EnvironmentInv, LibraryInv

LEMMA DecideStep ==
    ASSUME EnvironmentInv, NEW m \in Managers, Decide(m)
    PROVE  EnvironmentInv'
  <1>1. /\ UNCHANGED <<site, dapper_env, lib, dapper_lib, overwritten, bundle>>
        /\ progress[m].at = "decide" /\ EnvironmentTypeOK
    BY DEF Decide, At, disk, counters, EnvironmentInv
  <1>2. CASE shouldReinstall(m)
    <2>1. Finish(m, "failed") \/ GoOn(m, "pip")
      BY <1>2 DEF Decide
    <2> QED BY <1>1, <2>1, FinishMoves, GoOnMoves, QuietStep DEF Quiet
  <1>3. CASE ~shouldReinstall(m)
    <2> DEFINE p == [progress[m] EXCEPT !.at = "verify"]
               r == [p EXCEPT !.disturbed = FALSE]
    <2>1. dapper_env # Nothing /\ VersionOf[dapper_env] = Version
      BY <1>3 DEF shouldReinstall
    <2>2. progress' = [progress EXCEPT ![m] = r]
      BY <1>1, <1>3 DEF Decide, EnvironmentTypeOK
    <2>3. IsProgress(p) /\ p.at = "verify"
      BY <1>1, SetAt DEF EnvironmentTypeOK
    <2> HIDE DEF p
    <2>4. IsProgress(r) /\ r.at = "verify"
      BY <2>3, SetDisturbed
    <2> HIDE DEF r
    <2>5. /\ progress'[m] = r /\ OthersStay(m) /\ progress' = [n \in Managers |-> progress'[n]]
          /\ \A n \in Managers : IsProgress(progress'[n])
      BY <1>1, <2>2, <2>4, AloneIs
    <2>6. EnvironmentTypeOK'
      BY <1>1, <2>5 DEF EnvironmentTypeOK
    <2>7. LibraryInv'
      BY <1>1, <2>4, <2>5, LibraryApart
    <2>8. \A n \in Managers \ {m} : Place(n)' = Place(n)
      BY <2>5 DEF OthersStay, Place
    <2>9. ManagedInv'
      BY <1>1, <2>1, <2>4, <2>5, <2>8 DEF EnvironmentInv, ManagedInv, OthersStay, Version, WholeOf
    <2> QED BY <2>6, <2>7, <2>9 DEF EnvironmentInv
  <1> QED BY <1>2, <1>3

LEMMA ExtractionStep ==
    ASSUME EnvironmentInv, NEW m \in Managers, BeginExtraction(m),
           progress[m].at = "removing" \/ (progress[m].at = "remove" /\ lib[Version].build = Nothing),
           UNCHANGED <<site, dapper_env, overwritten, bundle>>
    PROVE  EnvironmentInv'
  <1> DEFINE p == [progress[m] EXCEPT !.at = "extracting"]
             r == [p EXCEPT !.disturbed = FALSE]
             steps == IF At(m, "removing") THEN Unpacking ELSE {}
  <1>1. EnvironmentTypeOK /\ bundle \in Builds /\ Version \in Versions
    BY VersionIs DEF EnvironmentInv, EnvironmentTypeOK
  <1>2. PICK entry \in BOOLEAN : lib' = [lib EXCEPT ![Version] = Content(bundle, FALSE, entry)]
    BY DEF BeginExtraction
  <1>3. progress' = Disturbing(m, steps, r) /\ dapper_lib' = dapper_lib
    BY DEF BeginExtraction, Extracting
  <1>4. IsProgress(p) /\ p.at = "extracting"
    BY <1>1, SetAt DEF EnvironmentTypeOK
  <1> HIDE DEF p
  <1>5. IsProgress(r) /\ r.at = "extracting"
    BY <1>4, SetDisturbed
  <1>6. "idle" \notin steps /\ (progress[m].at = "removing" => "record" \in steps)
    BY DEF Unpacking, At
  <1> HIDE DEF r, steps
  <1>7. /\ progress'[m] = r /\ OthersStay(m) /\ progress' = [n \in Managers |-> progress'[n]]
        /\ \A n \in Managers : IsProgress(progress'[n])
        /\ \A n \in Managers \ {m} : progress[n].at \in steps => progress'[n].disturbed
    BY <1>1, <1>3, <1>5, <1>6, DisturbingIs
  <1>8. /\ Content(bundle, FALSE, entry) \in Contents /\ Content(bundle, FALSE, entry).build # Nothing
    BY <1>1, NothingIsNoBuild DEF Content, Contents
  <1>9. /\ lib' \in [Versions -> Contents] /\ lib'[Version].build # Nothing
        /\ \A v \in Versions : v # Version => lib'[v] = lib[v]
    BY <1>1, <1>2, <1>8 DEF EnvironmentTypeOK
  <1>10. EnvironmentTypeOK'
    BY <1>1, <1>3, <1>7, <1>9 DEF EnvironmentTypeOK
  <1>11. dapper_lib # Nothing /\ VersionOf[dapper_lib] = Version => dapper_lib \in overwritten["lib"]
    BY NoneToCount DEF EnvironmentInv, LibraryInv
  <1>12. ASSUME NEW n \in Managers, progress'[n].at = "record" PROVE progress'[n].disturbed
    <2>1. n # m /\ progress[n].at = "record"
      BY <1>5, <1>7, <1>12 DEF OthersStay
    <2>2. CASE progress[m].at = "removing"
      BY <1>6, <1>7, <2>1, <2>2
    <2>3. CASE lib[Version].build = Nothing
      BY <2>1, <2>3 DEF EnvironmentInv, LibraryInv
    <2> QED BY <2>2, <2>3
  <1>13. dapper_lib # Nothing => VersionOf[dapper_lib] \in Versions
    BY <1>1 DEF EnvironmentTypeOK, Versions
  <1>14. LibraryInv'
    BY <1>3, <1>5, <1>7, <1>9, <1>11, <1>12, <1>13 DEF EnvironmentInv, LibraryInv, OthersStay, Version
  <1>15. ManagedInv'
    BY <1>5, <1>7, ManagedApart
  <1> QED BY <1>10, <1>14, <1>15 DEF EnvironmentInv

LEMMA RemoveStep ==
    ASSUME EnvironmentInv, NEW m \in Managers, RemoveDirectory(m)
    PROVE  EnvironmentInv'
  <1>1. /\ UNCHANGED <<site, dapper_env, bundle>> /\ progress[m].at = "remove" /\ EnvironmentTypeOK
        /\ Version \in Versions
    BY VersionIs DEF RemoveDirectory, At, counters, EnvironmentInv, EnvironmentTypeOK
  <1>2. CASE lib[Version].build = Nothing
    <2>1. BeginExtraction(m) /\ UNCHANGED overwritten
      BY <1>2 DEF RemoveDirectory
    <2> QED BY <1>1, <1>2, <2>1, ExtractionStep
  <1>3. CASE lib[Version].build # Nothing
    <2> DEFINE r == [progress[m] EXCEPT !.at = "removing"]
    <2>1. PICK entry \in {FALSE, lib[Version].entry} :
             lib' = [lib EXCEPT ![Version].whole = FALSE, ![Version].entry = entry]
      BY <1>3 DEF RemoveDirectory
    <2>2. /\ progress' = Disturbing(m, Unpacking, r) /\ dapper_lib' = dapper_lib
          /\ overwritten' = IF dapper_lib # Nothing /\ VersionOf[dapper_lib] = Version
                            THEN Touched("lib", dapper_lib) ELSE overwritten
      BY <1>3 DEF RemoveDirectory
    <2>3. IsProgress(r) /\ r.at = "removing"
      BY <1>1, SetAt DEF EnvironmentTypeOK
    <2> HIDE DEF r
    <2>4. /\ progress'[m] = r /\ OthersStay(m) /\ progress' = [n \in Managers |-> progress'[n]]
          /\ \A n \in Managers : IsProgress(progress'[n])
          /\ \A n \in Managers \ {m} : progress[n].at \in Unpacking => progress'[n].disturbed
      <3>1. "idle" \notin Unpacking
        BY DEF Unpacking
      <3> QED BY <1>1, <2>2, <2>3, <3>1, DisturbingIs
    <2>5. /\ lib' \in [Versions -> Contents] /\ lib'[Version].build # Nothing
          /\ \A v \in Versions : v # Version => lib'[v] = lib[v]
      <3> DEFINE c == lib[Version]
                 d == [[c EXCEPT !.whole = FALSE] EXCEPT !.entry = entry]
      <3>1. c \in Contents
        BY <1>1 DEF EnvironmentTypeOK
      <3>2. d \in Contents /\ d.build = c.build
        <4>1. entry \in BOOLEAN
          BY <2>1, <3>1 DEF Contents
        <4> HIDE DEF c
        <4> QED BY <3>1, <4>1 DEF Contents
      <3>3. lib' = [lib EXCEPT ![Version] = d]
        BY <2>1, <1>1 DEF EnvironmentTypeOK
      <3> HIDE DEF d
      <3> QED BY <1>1, <1>3, <3>2, <3>3 DEF EnvironmentTypeOK
    <2>6. /\ overwritten' \in [Stores -> SUBSET Builds] /\ overwritten'["managed"] = overwritten["managed"]
          /\ overwritten["lib"] \subseteq overwritten'["lib"]
          /\ dapper_lib # Nothing /\ VersionOf[dapper_lib] = Version => dapper_lib \in overwritten'["lib"]
      BY <1>1, <2>2 DEF EnvironmentTypeOK, Touched, Stores
    <2>7. EnvironmentTypeOK'
      BY <1>1, <2>2, <2>4, <2>5, <2>6 DEF EnvironmentTypeOK
    <2>8. dapper_lib # Nothing => VersionOf[dapper_lib] \in Versions
      BY <1>1 DEF EnvironmentTypeOK, Versions
    <2>9. ASSUME NEW n \in Managers, progress'[n].at = "record" PROVE progress'[n].disturbed
      BY <2>3, <2>4, <2>9 DEF OthersStay, Unpacking
    <2>10. LibraryInv'
      BY <1>1, <1>3, <2>2, <2>3, <2>4, <2>5, <2>6, <2>8, <2>9
         DEF EnvironmentInv, LibraryInv, OthersStay, Version
    <2>11. ManagedInv'
      BY <1>1, <2>3, <2>4, <2>6, ManagedApart
    <2> QED BY <2>7, <2>10, <2>11 DEF EnvironmentInv
  <1> QED BY <1>2, <1>3

LEMMA RemovedStep ==
    ASSUME EnvironmentInv, NEW m \in Managers, DirectoryRemoved(m)
    PROVE  EnvironmentInv'
  <1>1. UNCHANGED <<site, dapper_env, overwritten, bundle>> /\ progress[m].at = "removing"
    BY DEF DirectoryRemoved, At, counters
  <1>2. CASE BeginExtraction(m)
    BY <1>1, <1>2, ExtractionStep
  <1>3. CASE Finish(m, "failed") /\ UNCHANGED <<lib, dapper_lib>>
    BY <1>1, <1>3, FinishMoves, QuietStep
  <1> QED BY <1>2, <1>3 DEF DirectoryRemoved

LEMMA UnpackStep ==
    ASSUME EnvironmentInv, NEW m \in Managers, installToTargetDir(m)
    PROVE  EnvironmentInv'
  <1>1. /\ UNCHANGED <<site, dapper_env, dapper_lib, overwritten, bundle>>
        /\ progress[m].at = "extracting" /\ EnvironmentTypeOK /\ Version \in Versions /\ bundle \in Builds
    BY VersionIs DEF installToTargetDir, At, counters, EnvironmentInv, EnvironmentTypeOK
  <1>2. CASE UNCHANGED lib /\ NoLibrary(m)
    BY <1>1, <1>2, NoLibraryMoves, QuietStep
  <1>3. CASE lib' = Unpacked(m) /\ GoOn(m, "record")
    <2> DEFINE r == [progress[m] EXCEPT !.at = "record"]
    <2>1. progress' = [progress EXCEPT ![m] = r]
      BY <1>3 DEF GoOn
    <2>2. IsProgress(r) /\ r.at = "record" /\ r.disturbed = progress[m].disturbed
      BY <1>1, SetAt DEF EnvironmentTypeOK
    <2> HIDE DEF r
    <2>3. /\ progress'[m] = r /\ OthersStay(m) /\ progress' = [n \in Managers |-> progress'[n]]
          /\ \A n \in Managers : IsProgress(progress'[n])
      BY <1>1, <2>1, <2>2, AloneIs
    <2>4. /\ lib' \in [Versions -> Contents]
          /\ \A v \in Versions : v # Version => lib'[v] = lib[v]
          /\ lib'[Version] = Whole(bundle) \/ lib'[Version] = lib[Version]
          /\ ~progress[m].disturbed => lib'[Version] = Whole(bundle)
      BY <1>1, <1>3, WholeIs DEF Unpacked, EnvironmentTypeOK
    <2>5. lib'[Version].build # Nothing
      <3>1. lib[Version].build # Nothing
        BY <1>1 DEF EnvironmentInv, LibraryInv
      <3>2. Whole(bundle).build # Nothing
        BY <1>1, WholeIs, NothingIsNoBuild
      <3> QED BY <2>4, <3>1, <3>2
    <2>6. EnvironmentTypeOK'
      BY <1>1, <2>3, <2>4 DEF EnvironmentTypeOK
    <2>7. dapper_lib # Nothing => VersionOf[dapper_lib] \in Versions
      BY <1>1 DEF EnvironmentTypeOK, Versions
    <2>8. LibraryInv'
      BY <1>1, <2>2, <2>3, <2>4, <2>5, <2>7 DEF EnvironmentInv, LibraryInv, OthersStay, Version
    <2>9. ManagedInv'
      BY <1>1, <2>2, <2>3, ManagedApart
    <2> QED BY <2>6, <2>8, <2>9 DEF EnvironmentInv
  <1> QED BY <1>2, <1>3 DEF installToTargetDir

LEMMA RecordLibraryStep ==
    ASSUME EnvironmentInv, NEW m \in Managers, RecordLibrary(m)
    PROVE  EnvironmentInv'
  <1>1. /\ UNCHANGED <<site, dapper_env, lib, bundle>>
        /\ progress[m].at = "record" /\ EnvironmentTypeOK /\ bundle \in Builds
    BY DEF RecordLibrary, At, counters, EnvironmentInv, EnvironmentTypeOK
  <1>2. CASE ~lib[Version].entry
    <2>1. NoLibrary(m) /\ UNCHANGED <<dapper_lib, overwritten>>
      BY <1>2 DEF RecordLibrary
    <2> QED BY <1>1, <2>1, NoLibraryMoves, QuietStep
  <1>3. CASE lib[Version].entry
    <2> DEFINE r == [at |-> "idle", answer |-> "lib"]
    <2>1. dapper_lib' = bundle /\ overwritten' = Accounted("lib", m, InLibrary) /\ Finish(m, "lib")
      BY <1>3 DEF RecordLibrary
    <2>2. IsProgress(r) /\ r.at = "idle" /\ progress' = [progress EXCEPT ![m] = r]
      BY <2>1 DEF IsProgress, Finish
    <2> HIDE DEF r
    <2>3. /\ progress'[m] = r /\ OthersStay(m) /\ progress' = [n \in Managers |-> progress'[n]]
          /\ \A n \in Managers : IsProgress(progress'[n])
      BY <1>1, <2>2, AloneIs
    <2>4. /\ overwritten' \in [Stores -> SUBSET Builds] /\ overwritten'["managed"] = overwritten["managed"]
          /\ progress[m].disturbed \/ Others(m, InLibrary) => bundle \in overwritten'["lib"]
      BY <1>1, <2>1 DEF EnvironmentTypeOK, Accounted, Stores
    <2>5. ~progress[m].disturbed => lib[Version] = Whole(bundle)
      BY <1>1 DEF EnvironmentInv, LibraryInv
    <2>6. EnvironmentTypeOK'
      BY <1>1, <2>1, <2>3, <2>4 DEF EnvironmentTypeOK
    <2>7. \A n \in Managers : progress'[n].at \in {"removing", "extracting"} => Others(m, InLibrary)
      BY <2>2, <2>3 DEF Others, InLibrary, Unpacking, OthersStay
    <2>8. LibraryInv'
      BY <1>1, <2>1, <2>2, <2>3, <2>4, <2>5, <2>7
         DEF EnvironmentInv, LibraryInv, OthersStay, Version
    <2>9. ManagedInv'
      BY <1>1, <2>2, <2>3, <2>4, ManagedApart
    <2> QED BY <2>6, <2>8, <2>9 DEF EnvironmentInv
  <1> QED BY <1>2, <1>3

LEMMA BeginInstallStep ==
    ASSUME EnvironmentInv, NEW m \in Managers, BeginInstall(m)
    PROVE  EnvironmentInv'
  <1>1. /\ UNCHANGED <<dapper_env, lib, dapper_lib, bundle>>
        /\ progress[m].at = "pip" /\ EnvironmentTypeOK /\ bundle \in Builds
    BY DEF BeginInstall, At, counters, EnvironmentInv, EnvironmentTypeOK
  <1> DEFINE p == [progress[m] EXCEPT !.at = "installing"]
             r == [p EXCEPT !.disturbed = FALSE]
             steps == IF Place(m) = "managed" THEN {"verify"} \union Installing ELSE {}
  <1>2. CASE (Finish(m, "failed") \/ Finish(m, "interpreter")) /\ UNCHANGED <<site, overwritten>>
    BY <1>1, <1>2, FinishMoves, QuietStep
  <1>3. ASSUME progress' = Disturbing(m, steps, r),
               NEW entry \in BOOLEAN, site' = [site EXCEPT ![Place(m)] = Content(bundle, FALSE, entry)],
               overwritten' = IF Place(m) = "managed" THEN Touched("managed", dapper_env)
                              ELSE overwritten
        PROVE  EnvironmentInv'
    <2>1. IsProgress(p) /\ p.at = "installing" /\ p.for = progress[m].for
      BY <1>1, SetAt DEF EnvironmentTypeOK
    <2> HIDE DEF p
    <2>2. IsProgress(r) /\ r.at = "installing" /\ r.for = progress[m].for
      BY <2>1, SetDisturbed
    <2>3. /\ "idle" \notin steps
          /\ Place(m) = "managed" => "check" \in steps /\ "verify" \in steps
      BY DEF Installing
    <2> HIDE DEF r, steps
    <2>4. /\ progress'[m] = r /\ OthersStay(m) /\ progress' = [n \in Managers |-> progress'[n]]
          /\ \A n \in Managers : IsProgress(progress'[n])
          /\ \A n \in Managers \ {m} : progress[n].at \in steps => progress'[n].disturbed
      BY <1>1, <1>3, <2>2, <2>3, DisturbingIs
    <2>5. Content(bundle, FALSE, entry) \in Contents
      BY <1>1 DEF Content, Contents
    <2>6. site' \in [Places -> Contents] /\ (Place(m) # "managed" => site'["managed"] = site["managed"])
      BY <1>1, <1>3, <2>5 DEF EnvironmentTypeOK, Places
    <2>7. /\ overwritten' \in [Stores -> SUBSET Builds] /\ overwritten'["lib"] = overwritten["lib"]
          /\ overwritten["managed"] \subseteq overwritten'["managed"]
          /\ Place(m) = "managed" /\ dapper_env # Nothing => dapper_env \in overwritten'["managed"]
      BY <1>1, <1>3 DEF EnvironmentTypeOK, Touched, Stores
    <2>8. EnvironmentTypeOK'
      BY <1>1, <2>4, <2>6, <2>7 DEF EnvironmentTypeOK
    <2>9. LibraryInv'
      BY <1>1, <2>2, <2>4, <2>7, LibraryApart
    <2>10. \A n \in Managers : Place(n)' = Place(n)
      BY <2>2, <2>4 DEF OthersStay, Place
    <2>11. Place(m) = "managed" =>
              \A n \in Managers : progress'[n].at \in {"check", "verify"} => progress'[n].disturbed
      BY <2>2, <2>3, <2>4 DEF OthersStay
    <2>12. ManagedInv'
      <3>1. CASE Place(m) = "managed"
        BY <1>1, <2>2, <2>4, <2>7, <2>10, <2>11, <3>1
           DEF EnvironmentInv, ManagedInv, OthersStay, Version, WholeOf
      <3>2. CASE Place(m) # "managed"
        BY <1>1, <2>2, <2>4, <2>6, <2>7, <2>10, <3>2
           DEF EnvironmentInv, ManagedInv, OthersStay, Version, WholeOf
      <3> QED BY <3>1, <3>2
    <2> QED BY <2>8, <2>9, <2>12 DEF EnvironmentInv
  <1> QED BY <1>2, <1>3 DEF BeginInstall

LEMMA EndInstallStep ==
    ASSUME EnvironmentInv, NEW m \in Managers, EndInstall(m)
    PROVE  EnvironmentInv'
  <1>1. /\ UNCHANGED <<dapper_env, lib, dapper_lib, overwritten, bundle>>
        /\ progress[m].at = "installing" /\ EnvironmentTypeOK /\ bundle \in Builds
    BY DEF EndInstall, At, counters, EnvironmentInv, EnvironmentTypeOK
  <1>2. CASE UNCHANGED site /\ Finish(m, "failed")
    BY <1>1, <1>2, FinishMoves, QuietStep
  <1>3. ASSUME site' = Installed(m),
               IF Place(m) = "managed" THEN GoOn(m, "check") ELSE Finish(m, "interpreter")
        PROVE  EnvironmentInv'
    <2>1. PICK r : /\ IsProgress(r) /\ progress' = [progress EXCEPT ![m] = r]
                   /\ IF Place(m) = "managed"
                      THEN r.at = "check" /\ r.disturbed = progress[m].disturbed
                      ELSE r.at = "idle"
      <3>1. CASE Place(m) = "managed"
        <4> DEFINE r == [progress[m] EXCEPT !.at = "check"]
        <4>1. progress' = [progress EXCEPT ![m] = r]
          BY <1>3, <3>1 DEF GoOn
        <4>2. IsProgress(r) /\ r.at = "check" /\ r.disturbed = progress[m].disturbed
          BY <1>1, SetAt DEF EnvironmentTypeOK
        <4> HIDE DEF r
        <4> QED BY <3>1, <4>1, <4>2
      <3>2. CASE Place(m) # "managed"
        <4> DEFINE r == [at |-> "idle", answer |-> "interpreter"]
        <4>1. IsProgress(r) /\ r.at = "idle" /\ progress' = [progress EXCEPT ![m] = r]
          BY <1>3, <3>2 DEF IsProgress, Finish
        <4> HIDE DEF r
        <4> QED BY <3>2, <4>1
      <3> QED BY <3>1, <3>2
    <2>2. /\ progress'[m] = r /\ OthersStay(m) /\ progress' = [n \in Managers |-> progress'[n]]
          /\ \A n \in Managers : IsProgress(progress'[n])
      BY <1>1, <2>1, AloneIs
    <2>3. /\ site' \in [Places -> Contents]
          /\ site'["managed"] = site["managed"]
             \/ (site'["managed"] = Whole(bundle) /\ Place(m) = "managed")
          /\ Place(m) = "managed" /\ ~progress[m].disturbed => site'["managed"] = Whole(bundle)
      BY <1>1, <1>3, WholeIs DEF Installed, EnvironmentTypeOK, Places
    <2>4. WholeOf(Whole(bundle), Version)
      BY <1>1, WholeIs DEF Version
    <2>5. EnvironmentTypeOK'
      BY <1>1, <2>2, <2>3 DEF EnvironmentTypeOK
    <2>6. LibraryInv'
      BY <1>1, <2>1, <2>2, LibraryApart
    <2>7. \A n \in Managers \ {m} : Place(n)' = Place(n)
      BY <2>2 DEF OthersStay, Place
    <2>8. \A v : WholeOf(site["managed"], v)' <=> WholeOf(site'["managed"], v)
      BY DEF WholeOf, HasVersion
    <2>9. ManagedInv'
      <3>1. CASE site'["managed"] = site["managed"]
        BY <1>1, <2>1, <2>2, <2>3, <2>4, <2>7, <2>8, <3>1
           DEF EnvironmentInv, ManagedInv, OthersStay, Version
      <3>2. CASE site'["managed"] = Whole(bundle) /\ Place(m) = "managed"
        <4>1. dapper_env # Nothing => dapper_env \in overwritten["managed"]
          BY <1>1, <3>2 DEF EnvironmentInv, ManagedInv
        <4> QED BY <1>1, <2>1, <2>2, <2>4, <2>7, <2>8, <3>2, <4>1
                DEF EnvironmentInv, ManagedInv, OthersStay, Version
      <3> QED BY <2>3, <3>1, <3>2
    <2> QED BY <2>5, <2>6, <2>9 DEF EnvironmentInv
  <1> QED BY <1>2, <1>3 DEF EndInstall

LEMMA RecordInstallationStep ==
    ASSUME EnvironmentInv, NEW m \in Managers, RecordInstallation(m)
    PROVE  EnvironmentInv'
  <1>1. /\ UNCHANGED <<site, lib, dapper_lib, bundle>>
        /\ progress[m].at = "check" /\ EnvironmentTypeOK /\ bundle \in Builds
    BY DEF RecordInstallation, At, counters, EnvironmentInv, EnvironmentTypeOK
  <1>2. CASE Finish(m, "failed") /\ UNCHANGED <<dapper_env, overwritten>>
    BY <1>1, <1>2, FinishMoves, QuietStep
  <1>3. CASE /\ dapper_env' = bundle
             /\ overwritten' = Accounted("managed", m, {"pip"} \union Installing)
             /\ Finish(m, "managed")
    <2> DEFINE r == [at |-> "idle", answer |-> "managed"]
    <2>1. IsProgress(r) /\ r.at = "idle" /\ progress' = [progress EXCEPT ![m] = r]
      BY <1>3 DEF IsProgress, Finish
    <2> HIDE DEF r
    <2>2. /\ progress'[m] = r /\ OthersStay(m) /\ progress' = [n \in Managers |-> progress'[n]]
          /\ \A n \in Managers : IsProgress(progress'[n])
      BY <1>1, <2>1, AloneIs
    <2>3. /\ overwritten' \in [Stores -> SUBSET Builds] /\ overwritten'["lib"] = overwritten["lib"]
          /\ progress[m].disturbed \/ Others(m, {"pip"} \union Installing)
                => bundle \in overwritten'["managed"]
      BY <1>1, <1>3 DEF EnvironmentTypeOK, Accounted, Stores
    <2>4. ~progress[m].disturbed => WholeOf(site["managed"], Version)
      BY <1>1 DEF EnvironmentInv, ManagedInv
    <2>5. EnvironmentTypeOK'
      BY <1>1, <1>3, <2>2, <2>3 DEF EnvironmentTypeOK
    <2>6. LibraryInv'
      BY <1>1, <2>1, <2>2, <2>3, LibraryApart
    <2>7. \A n \in Managers \ {m} : Place(n)' = Place(n)
      BY <2>2 DEF OthersStay, Place
    <2>8. \A n \in Managers : progress'[n].at = "installing" => Others(m, {"pip"} \union Installing)
      BY <2>1, <2>2 DEF Others, Installing, OthersStay
    <2>9. bundle # Nothing /\ VersionOf[bundle] = Version
      BY <1>1, NothingIsNoBuild DEF Version
    <2>10. ManagedInv'
      BY <1>1, <1>3, <2>1, <2>2, <2>3, <2>4, <2>7, <2>8, <2>9
         DEF EnvironmentInv, ManagedInv, OthersStay, Version, WholeOf
    <2> QED BY <2>5, <2>6, <2>10 DEF EnvironmentInv
  <1> QED BY <1>2, <1>3 DEF RecordInstallation

LEMMA VerifyStep ==
    ASSUME EnvironmentInv, NEW m \in Managers, VerifyReuse(m)
    PROVE  EnvironmentInv'
  <1>1. /\ UNCHANGED <<site, lib, dapper_lib, overwritten, bundle>>
        /\ progress[m].at = "verify" /\ EnvironmentTypeOK
    BY DEF VerifyReuse, At, counters, EnvironmentInv
  <1>2. CASE Finish(m, "managed reused") /\ UNCHANGED dapper_env
    BY <1>1, <1>2, FinishMoves, QuietStep
  <1>3. CASE /\ progress' = [progress EXCEPT ![m].at = "pip", ![m].request.mode = "wheel"]
             /\ UNCHANGED dapper_env
    <2> DEFINE p == [progress[m] EXCEPT !.at = "pip"]
               r == [p EXCEPT !.request = [p.request EXCEPT !.mode = "wheel"]]
    <2>1. progress' = [progress EXCEPT ![m] = r]
      BY <1>1, <1>3 DEF EnvironmentTypeOK
    <2>2. IsProgress(p) /\ p.at = "pip"
      BY <1>1, SetAt DEF EnvironmentTypeOK
    <2> HIDE DEF p
    <2>3. IsProgress(r) /\ r.at = "pip"
      BY <2>2, SetRequest
    <2> HIDE DEF r
    <2> QED BY <1>1, <1>3, <2>1, <2>3, QuietStep DEF Moves, Quiet
  <1>4. CASE dapper_env' = Nothing /\ Finish(m, "failed") /\ ~site["managed"].entry
    <2> DEFINE r == [at |-> "idle", answer |-> "failed"]
    <2>1. IsProgress(r) /\ r.at = "idle" /\ progress' = [progress EXCEPT ![m] = r]
      BY <1>4 DEF IsProgress, Finish
    <2> HIDE DEF r
    <2>2. /\ progress'[m] = r /\ OthersStay(m) /\ progress' = [n \in Managers |-> progress'[n]]
          /\ \A n \in Managers : IsProgress(progress'[n])
      BY <1>1, <2>1, AloneIs
    <2>3. EnvironmentTypeOK'
      BY <1>1, <1>4, <2>2 DEF EnvironmentTypeOK
    <2>4. LibraryInv'
      BY <1>1, <2>1, <2>2, LibraryApart
    <2>5. ManagedInv'
      BY <1>1, <1>4, <2>1, <2>2 DEF EnvironmentInv, ManagedInv, OthersStay, Version, WholeOf
    <2> QED BY <2>3, <2>4, <2>5 DEF EnvironmentInv
  <1> QED BY <1>2, <1>3, <1>4 DEF VerifyReuse

LEMMA RestartStep ==
    ASSUME EnvironmentInv, NEW b \in Builds, Restart(b)
    PROVE  EnvironmentInv'
  <1>1. /\ bundle' = b /\ progress' = [m \in Managers |-> Resting] /\ overwritten' = overwritten
        /\ dapper_lib' \in {dapper_lib, Nothing} /\ dapper_env' \in {dapper_env, Nothing}
    BY DEF Restart
  <1>2. EnvironmentTypeOK /\ bundle \in Builds /\ Version \in Versions
    BY VersionIs DEF EnvironmentInv, EnvironmentTypeOK
  <1>3. lib' = lib \/ \E m \in Managers : progress[m].at = "extracting" /\ lib' = Unpacked(m)
    BY DEF Restart, At
  <1>4. site' = site \/ \E m \in Managers : progress[m].at = "installing" /\ site' = Installed(m)
    BY DEF Restart, At
  <1>5. \A m \in Managers : IsProgress(progress'[m]) /\ progress'[m].at = "idle"
    BY <1>1 DEF IsProgress, Resting
  <1>6. lib' \in [Versions -> Contents]
    BY <1>2, <1>3, WholeIs DEF EnvironmentTypeOK, Unpacked
  <1>7. site' \in [Places -> Contents]
    BY <1>2, <1>4, WholeIs DEF EnvironmentTypeOK, Installed
  <1>8. EnvironmentTypeOK'
    BY <1>1, <1>2, <1>5, <1>6, <1>7 DEF EnvironmentTypeOK
  <1>9. ASSUME dapper_lib # Nothing, dapper_lib \notin overwritten["lib"]
        PROVE  lib'[VersionOf[dapper_lib]] = Whole(dapper_lib)
    <2>1. lib[VersionOf[dapper_lib]] = Whole(dapper_lib)
      BY <1>9 DEF EnvironmentInv, LibraryInv
    <2>2. ASSUME NEW m \in Managers, progress[m].at = "extracting", lib' = Unpacked(m)
          PROVE  lib'[VersionOf[dapper_lib]] = lib[VersionOf[dapper_lib]]
      <3>1. VersionOf[dapper_lib] # Version
        BY <1>9, <2>2 DEF EnvironmentInv, LibraryInv
      <3> QED BY <1>2, <2>2, <3>1 DEF Unpacked, EnvironmentTypeOK
    <2> QED BY <1>3, <2>1, <2>2
  <1>10. LibraryInv'
    BY <1>1, <1>5, <1>9 DEF LibraryInv
  <1>11. ASSUME dapper_env # Nothing, dapper_env \notin overwritten["managed"]
         PROVE  WholeOf(site'["managed"], VersionOf[dapper_env])
    <2>1. WholeOf(site["managed"], VersionOf[dapper_env])
      BY <1>11 DEF EnvironmentInv, ManagedInv
    <2>2. ASSUME NEW m \in Managers, progress[m].at = "installing", site' = Installed(m)
          PROVE  site'["managed"] = site["managed"]
      <3>1. Place(m) # "managed"
        BY <1>11, <2>2 DEF EnvironmentInv, ManagedInv
      <3> QED BY <1>2, <2>2, <3>1 DEF Installed, EnvironmentTypeOK, Places
    <2> QED BY <1>4, <2>1, <2>2
  <1>12. ManagedInv'
    BY <1>1, <1>5, <1>11 DEF ManagedInv, WholeOf, HasVersion
  <1> QED BY <1>8, <1>10, <1>12 DEF EnvironmentInv

LEMMA EnvironmentStep ==
    ASSUME EnvironmentInv, [EnvironmentNext]_environmentVars
    PROVE  EnvironmentInv'
  <1>1. ASSUME NEW m \in Managers, Preparing(m) PROVE EnvironmentInv'
    BY <1>1, ChoosingStep, RemoveStep, RemovedStep, UnpackStep, RecordLibraryStep, DecideStep,
       BeginInstallStep, EndInstallStep, RecordInstallationStep, VerifyStep DEF Preparing
  <1>2. CASE UNCHANGED environmentVars
    BY <1>2 DEF environmentVars, EnvironmentInv, EnvironmentTypeOK, LibraryInv, ManagedInv, WholeOf,
                HasVersion, Version, Place
  <1> QED BY <1>1, <1>2, PrepareStep, RestartStep DEF EnvironmentNext

-----------------------------------------------------------------------------
\* What a manager answers, and when it does.
LEMMA AnsweredBy ==
    ASSUME EnvironmentTypeOK, NEW m \in Managers, NEW how, Finish(m, how)
    PROVE  progress'[m].answer = how
  BY DEF EnvironmentTypeOK, Finish

LEMMA WentOn ==
    ASSUME EnvironmentTypeOK, NEW m \in Managers, progress[m].at # "idle", NEW a, a # "idle"
    PROVE  /\ GoOn(m, a) => progress'[m].at # "idle"
           /\ \A f : progress' = [progress EXCEPT ![m].at = a, ![m].for = f]
                  => progress'[m].at # "idle"
           /\ \A f, i : progress' = [progress EXCEPT ![m].at = a, ![m].for = f, ![m].importable = i]
                  => progress'[m].at # "idle"
           /\ \A d \in BOOLEAN : progress' = [progress EXCEPT ![m].at = a, ![m].disturbed = d]
                  => progress'[m].at # "idle"
           /\ \A o : progress' = [progress EXCEPT ![m].at = a, ![m].request.mode = o]
                  => progress'[m].at # "idle"
  <1> DEFINE p == [progress[m] EXCEPT !.at = a]
  <1>1. IsProgress(p) /\ p.at = a
    BY SetAt DEF EnvironmentTypeOK
  <1>2. ASSUME GoOn(m, a) PROVE progress'[m].at # "idle"
    BY <1>1, <1>2 DEF EnvironmentTypeOK, GoOn
  <1>3. ASSUME NEW f, progress' = [progress EXCEPT ![m].at = a, ![m].for = f]
        PROVE  progress'[m].at # "idle"
    <2>1. progress'[m] = [p EXCEPT !.for = f]
      BY <1>3 DEF EnvironmentTypeOK
    <2> HIDE DEF p
    <2> QED BY <1>1, <2>1, SetFor
  <1>4. ASSUME NEW f, NEW i,
               progress' = [progress EXCEPT ![m].at = a, ![m].for = f, ![m].importable = i]
        PROVE  progress'[m].at # "idle"
    <2> DEFINE q == [p EXCEPT !.for = f]
    <2>1. progress'[m] = [q EXCEPT !.importable = i]
      BY <1>4 DEF EnvironmentTypeOK
    <2> HIDE DEF p
    <2>2. IsProgress(q) /\ q.at = a
      BY <1>1, SetFor
    <2> HIDE DEF q
    <2> QED BY <2>1, <2>2, SetImportable
  <1>5. ASSUME NEW d \in BOOLEAN, progress' = [progress EXCEPT ![m].at = a, ![m].disturbed = d]
        PROVE  progress'[m].at # "idle"
    <2>1. progress'[m] = [p EXCEPT !.disturbed = d]
      BY <1>5 DEF EnvironmentTypeOK
    <2> HIDE DEF p
    <2> QED BY <1>1, <2>1, SetDisturbed
  <1>6. ASSUME NEW o, progress' = [progress EXCEPT ![m].at = a, ![m].request.mode = o]
        PROVE  progress'[m].at # "idle"
    <2>1. progress'[m] = [p EXCEPT !.request = [p.request EXCEPT !.mode = o]]
      BY <1>6 DEF EnvironmentTypeOK
    <2> HIDE DEF p
    <2> QED BY <1>1, <2>1, SetRequest
  <1> HIDE DEF p
  <1> QED BY <1>2, <1>3, <1>4, <1>5, <1>6

LEMMA OthersDoNotAnswer ==
    ASSUME EnvironmentTypeOK, NEW n \in Managers, NEW m \in Managers \ {n},
           Preparing(n) \/ \E q \in Requests : PrepareOnce(n, q)
    PROVE  progress'[m].at = progress[m].at
  <1>1. ASSUME \E r : progress' = [progress EXCEPT ![n] = r] PROVE progress'[m].at = progress[m].at
    BY <1>1 DEF EnvironmentTypeOK
  <1>2. ASSUME NEW steps, NEW r, "idle" \notin steps, progress' = Disturbing(n, steps, r)
        PROVE  progress'[m].at = progress[m].at
    <2>1. progress'[m] = IF progress[m].at \in steps THEN [progress[m] EXCEPT !.disturbed = TRUE]
                         ELSE progress[m]
      BY <1>2 DEF Disturbing
    <2> QED BY <1>2, <2>1, SetDisturbed DEF EnvironmentTypeOK
  <1>3. CASE \E q \in Requests : PrepareOnce(n, q)
    BY <1>1, <1>3 DEF PrepareOnce, Finish
  <1>4. CASE \/ tryPreferredInterpreter(n) \/ tryWorkspaceVenv(n) \/ createWorkspaceVenvOrAbort(n)
             \/ ensureDapperLib(n) \/ createVenv(n) \/ ensurePip(n)
    BY <1>4 DEF tryPreferredInterpreter, tryWorkspaceVenv, createWorkspaceVenvOrAbort,
                ensureDapperLib, createVenv, ensurePip, GoOn, Finish, WithoutLibrary, EnvironmentTypeOK
  <1>5. CASE installToTargetDir(n) \/ RecordLibrary(n) \/ Decide(n) \/ EndInstall(n)
    BY <1>5 DEF installToTargetDir, RecordLibrary, Decide, EndInstall, NoLibrary, WithoutLibrary,
                GoOn, Finish, EnvironmentTypeOK
  <1>6. CASE RecordInstallation(n) \/ VerifyReuse(n)
    BY <1>6 DEF RecordInstallation, VerifyReuse, Finish, EnvironmentTypeOK
  <1>7. ASSUME BeginExtraction(n) PROVE progress'[m].at = progress[m].at
    <2>1. "idle" \notin (IF At(n, "removing") THEN Unpacking ELSE {})
      BY DEF Unpacking
    <2> QED BY <1>2, <1>7, <2>1 DEF BeginExtraction, Extracting
  <1>8. CASE RemoveDirectory(n)
    <2>1. "idle" \notin Unpacking
      BY DEF Unpacking
    <2>2. BeginExtraction(n) \/ \E r : progress' = Disturbing(n, Unpacking, r)
      BY <1>8 DEF RemoveDirectory
    <2> QED BY <1>2, <1>7, <2>1, <2>2
  <1>9. CASE DirectoryRemoved(n)
    BY <1>1, <1>7, <1>9 DEF DirectoryRemoved, Finish
  <1>10. CASE BeginInstall(n)
    <2> DEFINE steps == IF Place(n) = "managed" THEN {"verify"} \union Installing ELSE {}
    <2>1. "idle" \notin steps
      BY DEF Installing
    <2>2. (\E r : progress' = [progress EXCEPT ![n] = r]) \/ \E r : progress' = Disturbing(n, steps, r)
      BY <1>10 DEF BeginInstall, Finish
    <2> HIDE DEF steps
    <2> QED BY <1>1, <1>2, <2>1, <2>2
  <1> QED BY <1>3, <1>4, <1>5, <1>6, <1>8, <1>9, <1>10 DEF Preparing

\* Only two steps answer that something is reused.
LEMMA WhoAnswers ==
    ASSUME EnvironmentTypeOK, NEW m \in Managers, NEW how \in {"lib reused", "managed reused"},
           EnvironmentNext, Answers(m, how)
    PROVE  \/ how = "lib reused" /\ ensureDapperLib(m)
           \/ how = "managed reused" /\ VerifyReuse(m)
  <1>1. progress[m].at # "idle" /\ progress'[m].at = "idle" /\ progress'[m].answer = how
    BY DEF Answers
  <1>2. ASSUME NEW other, other \notin {"lib reused", "managed reused"}, Finish(m, other) PROVE FALSE
    BY <1>1, <1>2, AnsweredBy
  <1>3. ASSUME NEW i, WithoutLibrary(m, i) PROVE FALSE
    <2>1. Finish(m, "interpreter") \/ GoOn(m, "pip") \/ GoOn(m, "workspace") \/ GoOn(m, "managed")
      BY <1>3 DEF WithoutLibrary, AfterPreferred
    <2> QED BY <1>1, <1>2, <2>1, WentOn
  <1>4. ASSUME NoLibrary(m) PROVE FALSE
    <2>1. WithoutLibrary(m, progress[m].importable) \/ GoOn(m, "ask") \/ GoOn(m, "pip")
      BY <1>4 DEF NoLibrary
    <2> QED BY <1>1, <1>3, <2>1, WentOn
  <1>5. ASSUME NEW steps, NEW r, r.at # "idle", progress' = Disturbing(m, steps, r) PROVE FALSE
    BY <1>1, <1>5 DEF Disturbing
  <1>19. ASSUME NEW a, a # "idle", GoOn(m, a) PROVE FALSE
    BY <1>1, <1>19, WentOn
  <1>20. ASSUME NEW a, a # "idle", NEW f, progress' = [progress EXCEPT ![m].at = a, ![m].for = f]
         PROVE  FALSE
    BY <1>1, <1>20, WentOn
  <1>21. ASSUME NEW a, a # "idle", NEW f, NEW i,
                progress' = [progress EXCEPT ![m].at = a, ![m].for = f, ![m].importable = i]
         PROVE  FALSE
    BY <1>1, <1>21, WentOn
  <1>6. ASSUME NEW b \in Builds, Restart(b) PROVE FALSE
    BY <1>1, <1>6, NothingIsNoBuild DEF Restart, Resting
  <1>7. Preparing(m)
    <2>1. PICK n \in Managers : Preparing(n) \/ \E q \in Requests : PrepareOnce(n, q)
      BY <1>6 DEF EnvironmentNext
    <2>2. n = m
      BY <1>1, <2>1, OthersDoNotAnswer
    <2>3. \A q : ~PrepareOnce(m, q)
      BY <1>1 DEF PrepareOnce, At
    <2> QED BY <2>1, <2>2, <2>3
  <1>8. ~tryPreferredInterpreter(m)
    <2> SUFFICES ASSUME tryPreferredInterpreter(m) PROVE FALSE
      OBVIOUS
    <2>1. \/ Finish(m, "interpreter")
          \/ progress' = [progress EXCEPT ![m].at = "library", ![m].for = "preferred",
                                          ![m].importable = site["preferred"].entry]
          \/ progress' = [progress EXCEPT ![m].at = "pip", ![m].for = "preferred"]
          \/ WithoutLibrary(m, site["preferred"].entry)
      BY DEF tryPreferredInterpreter
    <2>2. progress' # [progress EXCEPT ![m].at = "library", ![m].for = "preferred",
                                       ![m].importable = site["preferred"].entry]
      BY <1>21
    <2>3. progress' # [progress EXCEPT ![m].at = "pip", ![m].for = "preferred"]
      BY <1>20
    <2> QED BY <1>2, <1>3, <2>1, <2>2, <2>3
  <1>9. ~tryWorkspaceVenv(m)
    <2>1. tryWorkspaceVenv(m) =>
             \/ Finish(m, "interpreter") \/ GoOn(m, "ask")
             \/ progress' = [progress EXCEPT ![m].at = "library", ![m].for = "workspace"]
      BY DEF tryWorkspaceVenv
    <2>2. progress' # [progress EXCEPT ![m].at = "library", ![m].for = "workspace"]
      BY <1>20
    <2> QED BY <1>2, <1>19, <2>1, <2>2
  <1>10. ~createWorkspaceVenvOrAbort(m)
    <2>1. createWorkspaceVenvOrAbort(m) =>
             \/ Finish(m, "failed")
             \/ progress' = [progress EXCEPT ![m].at = "library", ![m].for = "created"]
             \/ progress' = [progress EXCEPT ![m].at = "pip", ![m].for = "created"]
      BY DEF createWorkspaceVenvOrAbort
    <2>2. /\ progress' # [progress EXCEPT ![m].at = "library", ![m].for = "created"]
          /\ progress' # [progress EXCEPT ![m].at = "pip", ![m].for = "created"]
      BY <1>20
    <2> QED BY <1>2, <2>1, <2>2
  <1>11. ~createVenv(m) /\ ~ensurePip(m)
    <2>1. createVenv(m) =>
             \/ Finish(m, "failed")
             \/ progress' = [progress EXCEPT ![m].at = "ensurepip", ![m].for = "managed"]
      BY DEF createVenv
    <2>2. progress' # [progress EXCEPT ![m].at = "ensurepip", ![m].for = "managed"]
      BY <1>20
    <2>3. ensurePip(m) => Finish(m, "failed") \/ GoOn(m, "decide")
      BY DEF ensurePip
    <2> QED BY <1>2, <1>19, <2>1, <2>2, <2>3
  <1>12. ~BeginExtraction(m)
    <2> DEFINE p == [progress[m] EXCEPT !.at = "extracting"]
    <2>1. IsProgress(p) /\ p.at = "extracting"
      BY ZenonT(40), <1>1, SetAt DEF EnvironmentTypeOK
    <2> HIDE DEF p
    <2>2. [p EXCEPT !.disturbed = FALSE].at # "idle"
      BY <2>1, SetDisturbed
    <2> QED BY <1>5, <2>2 DEF BeginExtraction, Extracting, p
  <1>13. ~RemoveDirectory(m)
    <2> DEFINE p == [progress[m] EXCEPT !.at = "removing"]
    <2>1. p.at = "removing"
      BY ZenonT(40), <1>1, SetAt DEF EnvironmentTypeOK
    <2>2. RemoveDirectory(m) => BeginExtraction(m) \/ progress' = Disturbing(m, Unpacking, p)
      BY DEF RemoveDirectory
    <2> HIDE DEF p
    <2> QED BY <1>5, <1>12, <2>1, <2>2
  <1>14. ~DirectoryRemoved(m) /\ ~installToTargetDir(m) /\ ~RecordLibrary(m)
    BY <1>1, <1>2, <1>4, <1>12, WentOn DEF DirectoryRemoved, installToTargetDir, RecordLibrary
  <1>15. ~Decide(m) /\ ~EndInstall(m) /\ ~RecordInstallation(m)
    BY <1>1, <1>2, WentOn DEF Decide, EndInstall, RecordInstallation
  <1>16. ~BeginInstall(m)
    <2> DEFINE p == [progress[m] EXCEPT !.at = "installing"]
    <2>1. IsProgress(p) /\ p.at = "installing"
      BY ZenonT(40), <1>1, SetAt DEF EnvironmentTypeOK
    <2> HIDE DEF p
    <2>2. [p EXCEPT !.disturbed = FALSE].at # "idle"
      BY <2>1, SetDisturbed
    <2> QED BY <1>2, <1>5, <2>2 DEF BeginInstall, p
  <1>17. ensureDapperLib(m) => how = "lib reused"
    <2>1. ensureDapperLib(m) => Finish(m, "lib reused") \/ GoOn(m, "remove")
      BY DEF ensureDapperLib
    <2> QED BY <1>1, <2>1, AnsweredBy, WentOn
  <1>18. VerifyReuse(m) => how = "managed reused"
    <2>1. VerifyReuse(m) => \/ Finish(m, "managed reused") \/ Finish(m, "failed")
                            \/ progress' = [progress EXCEPT ![m].at = "pip", ![m].request.mode = "wheel"]
      BY DEF VerifyReuse
    <2>2. progress' # [progress EXCEPT ![m].at = "pip", ![m].request.mode = "wheel"]
      BY <1>1, WentOn
    <2> QED BY <1>1, <1>2, <2>1, <2>2, AnsweredBy
  <1> QED BY <1>7, <1>8, <1>9, <1>10, <1>11, <1>13, <1>14, <1>15, <1>16, <1>17, <1>18 DEF Preparing

LEMMA ReuseStep ==
    ASSUME EnvironmentInv, EnvironmentNext, NEW m \in Managers
    PROVE  /\ Answers(m, "lib reused") => \/ bundle \in overwritten["lib"]
                                          \/ lib[Version] = Whole(bundle)
           /\ Answers(m, "managed reused") =>
                 \/ dapper_env \in overwritten["managed"]
                 \/ dapper_env = Nothing /\ progress[m].disturbed
                 \/ site["managed"].whole /\ HasVersion(site["managed"], Version)
  <1>1. EnvironmentTypeOK /\ bundle \in Builds
    BY DEF EnvironmentInv, EnvironmentTypeOK
  <1>2. ASSUME Answers(m, "lib reused") PROVE bundle \in overwritten["lib"] \/ lib[Version] = Whole(bundle)
    <2>1. ensureDapperLib(m)
      BY <1>1, <1>2, WhoAnswers
    <2>2. dapper_lib = bundle
      <3>1. ~GoOn(m, "remove")
        BY <1>1, <1>2, WentOn DEF Answers
      <3> QED BY <2>1, <3>1 DEF ensureDapperLib
    <2> QED BY <1>1, <2>2, NothingIsNoBuild DEF EnvironmentInv, LibraryInv, Version
  <1>3. ASSUME Answers(m, "managed reused")
        PROVE  \/ dapper_env \in overwritten["managed"]
               \/ dapper_env = Nothing /\ progress[m].disturbed
               \/ site["managed"].whole /\ HasVersion(site["managed"], Version)
    <2>1. VerifyReuse(m)
      BY <1>1, <1>3, WhoAnswers
    <2>2. progress[m].at = "verify" /\ site["managed"].entry
      <3>1. ~Finish(m, "failed")
        BY <1>1, <1>3, AnsweredBy DEF Answers
      <3>2. progress' # [progress EXCEPT ![m].at = "pip", ![m].request.mode = "wheel"]
        BY <1>1, <1>3, WentOn DEF Answers
      <3> QED BY <2>1, <3>1, <3>2 DEF VerifyReuse, At
    <2> QED BY <2>2 DEF EnvironmentInv, ManagedInv, WholeOf
  <1> QED BY <1>2, <1>3

\* An environment that is handed out without being installed into is complete, for any number of
\* managers and preparations and whatever fails in between, but for what the other manager did
\* meanwhile (PythonEnvironmentManager.prepareDapperEnvironment).
THEOREM ReusedIsWholeAlways == EnvironmentSpec => ReusedIsWhole
  <1>1. EnvironmentInit => EnvironmentInv
    <2> SUFFICES ASSUME EnvironmentInit PROVE EnvironmentInv
      OBVIOUS
    <2>1. EnvironmentTypeOK
      <3>1. Bare \in Contents /\ \A b \in Builds : Whole(b) \in Contents
        BY WholeIs DEF Bare, Content, Contents
      <3>2. site \in [Places -> Contents] /\ lib \in [Versions -> Contents]
        BY <3>1 DEF EnvironmentInit
      <3>3. \A m \in Managers : IsProgress(progress[m])
        BY DEF EnvironmentInit, IsProgress, Resting
      <3> QED BY <3>2, <3>3 DEF EnvironmentInit, EnvironmentTypeOK
    <2>2. \A m \in Managers : progress[m].at = "idle"
      BY DEF EnvironmentInit, Resting
    <2>3. dapper_env = Nothing /\ dapper_lib = Nothing
      BY DEF EnvironmentInit
    <2> QED BY <2>1, <2>2, <2>3 DEF EnvironmentInv, LibraryInv, ManagedInv
  <1>2. EnvironmentInv /\ [EnvironmentNext]_environmentVars => EnvironmentInv'
    BY EnvironmentStep
  <1>3. EnvironmentInv /\ [EnvironmentNext]_environmentVars =>
          [\A m \in Managers :
             /\ Answers(m, "lib reused") => \/ bundle \in overwritten["lib"]
                                            \/ lib[Version] = Whole(bundle)
             /\ Answers(m, "managed reused") =>
                   \/ dapper_env \in overwritten["managed"]
                   \/ dapper_env = Nothing /\ progress[m].disturbed
                   \/ site["managed"].whole /\ HasVersion(site["managed"], Version)]_environmentVars
    BY ReuseStep
  <1> QED BY <1>1, <1>2, <1>3, PTL DEF EnvironmentSpec, ReusedIsWhole

-----------------------------------------------------------------------------
(***************************************************************************)
(* ChildSessions: a child is served at an open socket.                     *)
(***************************************************************************)

ChildEvents == [kind : {"child", "exited"}, child : Children, pid : Pids]

\* The announcements of a child that a session has still to handle.
Told(c, s) == {i \in DOMAIN events[s] : events[s][i].kind = "child" /\ events[s][i].child = c}
Held(c, s) == {i \in DOMAIN handling : handling[i] = <<c, s>>}

ChildTypeOK ==
    /\ events \in [MainSessions -> Seq(ChildEvents)]
    /\ handling \in Seq(Children \X MainSessions)
    /\ registry \in [Children -> MainSessions \cup {NoSession}]
    /\ holder \in [Children -> MainSessions \cup {NoSession}]
    /\ socket \in [Children -> {"none", "hello", "attached", "destroyed"}]
    /\ process \in [Children -> {"new", "spawned", "alive", "dead", "reaped", "done"}]
    /\ pid \in [Children -> Pids]
    /\ tracked \in [Pids -> Children \cup {NoChild}]
    /\ idOfPid \in [Pids -> Children \cup {NoChild}]
    /\ start = [c \in Children |-> start[c]]
    /\ announced \subseteq Children

\* A session announces a child once: what is announced is pending or handled,
\* and never pending again.
Pending(c, s) == Told(c, s) # {} \/ Held(c, s) # {}

AnnouncedOnce ==
    \A c \in Children, s \in MainSessions :
        /\ c \notin announced => ~Pending(c, s) /\ registry[c] # s /\ holder[c] # s
        /\ \A i, j \in Told(c, s) : i = j
        /\ \A i, j \in Held(c, s) : i = j
        /\ Told(c, s) = {} \/ Held(c, s) = {}
        /\ registry[c] = s \/ holder[c] = s => ~Pending(c, s)

SocketHeld ==
    /\ \A c \in Children : process[c] = "spawned" => c \notin announced
    /\ \A c \in Children : process[c] = "new" => c \notin announced
    /\ \A c \in Children :
         /\ holder[c] # NoSession => socket[c] \in {"attached", "destroyed"}
         /\ holder[c] # NoSession /\ holder[c] = registry[c] => socket[c] = "attached"

ChildInv == ChildTypeOK /\ AnnouncedOnce /\ SocketHeld

-----------------------------------------------------------------------------
LEMMA NoChildIs == NoChild \notin Children /\ NoSession \notin MainSessions
  BY ChildAssumption DEF NoChild, Children

\* Steps that neither announce, nor handle, nor touch a socket.
LEMMA ApartStep ==
    ASSUME ChildInv,
           UNCHANGED <<events, handling, registry, holder, socket, announced>>,
           pid' \in [Children -> Pids], tracked' \in [Pids -> Children \cup {NoChild}],
           idOfPid' = idOfPid,
           start' = [c \in Children |-> start'[c]],
           process' \in [Children -> {"new", "spawned", "alive", "dead", "reaped", "done"}],
           \A c \in Children : process'[c] \in {"new", "spawned"} => process[c] \in {"new", "spawned"}
    PROVE  ChildInv'
  <1>1. ChildTypeOK'
    BY DEF ChildInv, ChildTypeOK
  <1>2. \A c \in Children, s \in MainSessions : Told(c, s)' = Told(c, s) /\ Held(c, s)' = Held(c, s)
    BY DEF Told, Held
  <1>3. AnnouncedOnce'
    BY <1>2 DEF ChildInv, AnnouncedOnce, Pending
  <1>4. SocketHeld'
    BY DEF ChildInv, SocketHeld
  <1> QED BY <1>1, <1>3, <1>4 DEF ChildInv

\* Announcements are taken, none is made.
Taken ==
    /\ events' \in [MainSessions -> Seq(ChildEvents)]
    /\ \A c \in Children, s \in MainSessions :
         /\ Told(c, s) = {} => Told(c, s)' = {}
         /\ (\A i, j \in Told(c, s) : i = j) => \A i, j \in Told(c, s)' : i = j

LEMMA NothingTaken == ChildInv /\ UNCHANGED events => Taken
  BY DEF Taken, Told, ChildInv, ChildTypeOK

LEMMA HeadTaken ==
    ASSUME ChildInv, NEW s \in MainSessions, events[s] # <<>>, TakeEvent(s)
    PROVE  /\ Taken /\ Head(events[s]) \in ChildEvents
           /\ \A c \in Children : Head(events[s]).kind = "child" /\ Head(events[s]).child = c
                  => Told(c, s) # {} /\ Told(c, s)' = {}
  <1> DEFINE q == events[s]
  <1>1. q \in Seq(ChildEvents) /\ q # <<>> /\ events' = [events EXCEPT ![s] = Tail(q)]
    BY DEF ChildInv, ChildTypeOK, TakeEvent
  <1>2. /\ Head(q) \in ChildEvents /\ Head(q) = q[1] /\ 1 \in DOMAIN q /\ Tail(q) \in Seq(ChildEvents)
        /\ \A i \in DOMAIN Tail(q) : i \in Nat /\ i >= 1 /\ i + 1 \in DOMAIN q /\ Tail(q)[i] = q[i + 1]
    <2> HIDE DEF q
    <2>1. Head(q) \in ChildEvents /\ Tail(q) \in Seq(ChildEvents) /\ Len(q) \in Nat /\ Len(q) # 0
      BY <1>1, HeadTailProperties, EmptySeq
    <2>2. Len(Tail(q)) = Len(q) - 1 /\ \A i \in 1..Len(Tail(q)) : Tail(q)[i] = q[i + 1]
      BY <1>1, HeadTailProperties
    <2> QED BY <1>1, <2>1, <2>2
  <1>3. events' \in [MainSessions -> Seq(ChildEvents)]
    BY <1>1, <1>2 DEF ChildInv, ChildTypeOK
  <1>4. ASSUME NEW c \in Children, NEW t \in MainSessions
        PROVE  /\ Told(c, t) = {} => Told(c, t)' = {}
               /\ (\A i, j \in Told(c, t) : i = j) => \A i, j \in Told(c, t)' : i = j
    <2>1. CASE t = s
      <3>1. \A i \in Told(c, s)' : i \in Nat /\ i + 1 \in Told(c, s)
        BY <1>1, <1>2 DEF Told, ChildInv, ChildTypeOK
      <3> QED BY <2>1, <3>1
    <2>2. CASE t # s
      BY <1>1, <2>2 DEF Told, ChildInv, ChildTypeOK
    <2> QED BY <2>1, <2>2
  <1>5. ASSUME NEW c \in Children, Head(q).kind = "child", Head(q).child = c
        PROVE  Told(c, s) # {} /\ Told(c, s)' = {}
    <2>1. 1 \in Told(c, s)
      BY <1>2, <1>5 DEF Told
    <2>2. \A i \in Told(c, s)' : i \in Nat /\ i >= 1 /\ i + 1 \in Told(c, s)
      BY <1>1, <1>2 DEF Told, ChildInv, ChildTypeOK
    <2>3. \A i \in Told(c, s) : i = 1
      BY <2>1 DEF ChildInv, AnnouncedOnce
    <2> QED BY <2>1, <2>2, <2>3
  <1> QED BY <1>2, <1>3, <1>4, <1>5 DEF Taken

\* The end of registrations: their sockets go with them.
LEMMA DisposeStep ==
    ASSUME ChildInv, NEW cs \in SUBSET Children, disposePendingChildSession(cs),
           Taken, UNCHANGED <<handling, holder, announced, pid, tracked, process>>,
           start' = [c \in Children |-> start'[c]]
    PROVE  ChildInv'
  <1>1. \A c \in Children :
           \/ registry'[c] = registry[c] /\ socket'[c] = socket[c]
           \/ /\ registry'[c] = NoSession /\ registry[c] # NoSession
              /\ socket'[c] \in {socket[c], "destroyed"}
              /\ socket'[c] # socket[c] => socket[c] = "attached"
    BY DEF disposePendingChildSession, Registered
  <1>2. /\ registry' = [c \in Children |-> registry'[c]] /\ socket' = [c \in Children |-> socket'[c]]
        /\ idOfPid' \in [Pids -> Children \cup {NoChild}]
    BY DEF disposePendingChildSession, ChildInv, ChildTypeOK
  <1>3. ChildTypeOK'
    <2>1. registry' \in [Children -> MainSessions \cup {NoSession}]
      BY <1>1, <1>2 DEF ChildInv, ChildTypeOK
    <2>2. socket' \in [Children -> {"none", "hello", "attached", "destroyed"}]
      BY <1>1, <1>2 DEF ChildInv, ChildTypeOK
    <2> QED BY <1>2, <2>1, <2>2 DEF ChildInv, ChildTypeOK, Taken
  <1>4. \A c \in Children, s \in MainSessions : Held(c, s)' = Held(c, s)
    BY DEF Held
  <1>5. AnnouncedOnce'
    BY <1>1, <1>4, NoChildIs DEF ChildInv, AnnouncedOnce, Pending, Taken
  <1>6. SocketHeld'
    BY <1>1 DEF ChildInv, SocketHeld
  <1> QED BY <1>3, <1>5, <1>6 DEF ChildInv

\* What Append and Tail do to the pending announcements.
LEMMA AppendTells ==
    ASSUME NEW q \in Seq(ChildEvents), NEW e \in ChildEvents
    PROVE  /\ Append(q, e) \in Seq(ChildEvents)
           /\ DOMAIN Append(q, e) = DOMAIN q \cup {Len(q) + 1} /\ Len(q) + 1 \notin DOMAIN q
           /\ \A i \in DOMAIN q : Append(q, e)[i] = q[i]
           /\ Append(q, e)[Len(q) + 1] = e
  <1>1. DOMAIN q = 1..Len(q) /\ Len(q) \in Nat
    OBVIOUS
  <1> QED BY <1>1, AppendProperties

LEMMA AnnounceStep ==
    ASSUME ChildInv, NEW e \in ChildEvents, e.kind = "child" => e.child \notin announced, Announce(e),
           e.kind = "child" => announced' = announced \cup {e.child},
           e.kind # "child" => announced' = announced,
           UNCHANGED <<handling, registry, holder, socket, pid, idOfPid, start>>,
           tracked' \in [Pids -> Children \cup {NoChild}],
           process' \in [Children -> {"new", "spawned", "alive", "dead", "reaped", "done"}],
           \A c \in Children : process'[c] \in {"new", "spawned"} =>
                                  process[c] \in {"new", "spawned"} /\ c \notin announced'
    PROVE  ChildInv'
  <1>1. \A s \in MainSessions : events[s] \in Seq(ChildEvents)
    BY DEF ChildInv, ChildTypeOK
  <1>2. /\ events' = [s \in MainSessions |-> events'[s]]
        /\ \A s \in MainSessions : events'[s] = events[s] \/ events'[s] = Append(events[s], e)
    BY DEF Announce
  <1>3. events' \in [MainSessions -> Seq(ChildEvents)]
    <2>1. \A s \in MainSessions : events'[s] \in Seq(ChildEvents)
      BY SMTT(30), <1>1, <1>2, AppendTells
    <2> QED BY <1>2, <2>1
  <1>4. announced' \subseteq Children
    BY DEF ChildEvents, ChildInv, ChildTypeOK
  <1>5. ChildTypeOK'
    BY <1>3, <1>4 DEF ChildInv, ChildTypeOK
  <1>6. ASSUME NEW c \in Children, NEW s \in MainSessions
        PROVE  /\ Held(c, s)' = Held(c, s)
               /\ Told(c, s)' = Told(c, s) \/ (Told(c, s) = {} /\ e.kind = "child" /\ e.child = c
                                               /\ Told(c, s)' = {Len(events[s]) + 1})
    <2>1. Held(c, s)' = Held(c, s)
      BY DEF Held
    <2>2. CASE events'[s] = events[s]
      BY <2>1, <2>2 DEF Told
    <2>3. CASE events'[s] = Append(events[s], e) /\ e.kind = "child" /\ e.child = c
      <3>1. Told(c, s) = {}
        BY <2>3 DEF ChildInv, AnnouncedOnce, Pending
      <3>2. Told(c, s)' = {Len(events[s]) + 1}
        BY <1>1, <2>3, <3>1, AppendTells DEF Told
      <3> QED BY <2>1, <2>3, <3>1, <3>2
    <2>4. CASE events'[s] = Append(events[s], e) /\ ~(e.kind = "child" /\ e.child = c)
      <3>1. Told(c, s)' = Told(c, s)
        BY <1>1, <2>4, AppendTells DEF Told
      <3> QED BY <2>1, <3>1
    <2> QED BY <1>2, <2>2, <2>3, <2>4
  <1>7. AnnouncedOnce'
    <2> SUFFICES ASSUME NEW c \in Children, NEW s \in MainSessions
                 PROVE  /\ c \notin announced' => ~Pending(c, s)' /\ registry'[c] # s /\ holder'[c] # s
                        /\ \A i, j \in Told(c, s)' : i = j
                        /\ \A i, j \in Held(c, s)' : i = j
                        /\ Told(c, s)' = {} \/ Held(c, s)' = {}
                        /\ registry'[c] = s \/ holder'[c] = s => ~Pending(c, s)'
      BY DEF AnnouncedOnce
    <2>1. CASE Told(c, s)' = Told(c, s)
      BY <1>6, <2>1 DEF ChildInv, AnnouncedOnce, Pending
    <2>2. CASE Told(c, s) = {} /\ e.kind = "child" /\ e.child = c
               /\ Told(c, s)' = {Len(events[s]) + 1}
      <3>1. c \notin announced /\ c \in announced'
        BY <2>2
      <3>2. Held(c, s) = {} /\ registry[c] # s /\ holder[c] # s
        BY <3>1 DEF ChildInv, AnnouncedOnce, Pending
      <3> QED BY <1>6, <2>2, <3>1, <3>2
    <2> QED BY <1>6, <2>1, <2>2
  <1>8. SocketHeld'
    BY DEF ChildInv, SocketHeld
  <1> QED BY <1>5, <1>7, <1>8 DEF ChildInv

LEMMA DetectStep ==
    ASSUME ChildInv, NEW c \in Children, on_child_detected(c)
    PROVE  ChildInv'
  <1>1. /\ c \notin announced /\ announced' = announced \cup {c}
        /\ process' = [process EXCEPT ![c] = IF @ = "spawned" THEN "alive" ELSE @]
        /\ UNCHANGED <<pid, handling, registry, idOfPid, holder, socket, start>>
        /\ process[c] \in {"spawned", "dead"}
    BY DEF on_child_detected, registration, wires, ChildInv, SocketHeld
  <1> DEFINE e == [kind |-> "child", child |-> c, pid |-> pid[c]]
  <1>2. e \in ChildEvents /\ e.kind = "child" /\ e.child = c
    BY DEF ChildEvents, ChildInv, ChildTypeOK
  <1>3. \/ UNCHANGED <<tracked, events>>
        \/ tracked' = [tracked EXCEPT ![pid[c]] = c] /\ Announce(e)
    BY DEF on_child_detected
  <1> HIDE DEF e
  <1>4. /\ tracked' \in [Pids -> Children \cup {NoChild}]
        /\ process' \in [Children -> {"new", "spawned", "alive", "dead", "reaped", "done"}]
    BY <1>1, <1>3 DEF ChildInv, ChildTypeOK
  <1>5. \A d \in Children : process'[d] \in {"new", "spawned"} =>
              process[d] \in {"new", "spawned"} /\ d \notin announced'
    BY <1>1 DEF ChildInv, ChildTypeOK, SocketHeld
  <1>6. CASE Announce(e)
    BY <1>1, <1>2, <1>4, <1>5, <1>6, AnnounceStep
  <1>7. CASE UNCHANGED <<tracked, events>>
    <2>1. ChildTypeOK'
      BY <1>1, <1>4, <1>7 DEF ChildInv, ChildTypeOK
    <2>2. \A d \in Children, s \in MainSessions : Told(d, s)' = Told(d, s) /\ Held(d, s)' = Held(d, s)
      BY <1>1, <1>7 DEF Told, Held
    <2>3. AnnouncedOnce'
      BY <1>1, <2>2 DEF ChildInv, AnnouncedOnce, Pending
    <2>4. SocketHeld'
      BY <1>1, <1>5 DEF ChildInv, SocketHeld
    <2> QED BY <2>1, <2>3, <2>4 DEF ChildInv
  <1> QED BY <1>3, <1>6, <1>7

LEMMA ExitStep ==
    ASSUME ChildInv, NEW c \in Children, on_child_exited(c)
    PROVE  ChildInv'
  <1> DEFINE found == tracked[pid[c]]
             e == [kind |-> "exited", child |-> found, pid |-> pid[c]]
  <1>1. /\ process[c] = "reaped" /\ process' = [process EXCEPT ![c] = "done"]
        /\ tracked' = [tracked EXCEPT ![pid[c]] = NoChild]
        /\ UNCHANGED <<pid, announced, handling, registry, idOfPid, holder, socket, start>>
        /\ IF found = NoChild THEN UNCHANGED events ELSE Announce(e)
    BY DEF on_child_exited, registration, wires
  <1>2. /\ tracked' \in [Pids -> Children \cup {NoChild}]
        /\ process' \in [Children -> {"new", "spawned", "alive", "dead", "reaped", "done"}]
        /\ \A d \in Children : process'[d] \in {"new", "spawned"} =>
              process[d] \in {"new", "spawned"} /\ d \notin announced'
    BY <1>1 DEF ChildInv, ChildTypeOK, SocketHeld
  <1>3. CASE found = NoChild
    BY <1>1, <1>2, <1>3, ApartStep DEF ChildInv, ChildTypeOK
  <1>4. CASE found # NoChild
    <2>1. e \in ChildEvents /\ e.kind = "exited"
      BY <1>4 DEF ChildEvents, ChildInv, ChildTypeOK
    <2>2. Announce(e)
      BY <1>1, <1>4
    <2> HIDE DEF e, found
    <2> QED BY <1>1, <1>2, <2>1, <2>2, AnnounceStep
  <1> QED BY <1>3, <1>4

LEMMA TakeChildStep ==
    ASSUME ChildInv, NEW s \in MainSessions, handleChildProcessEvent(s)
    PROVE  ChildInv'
  <1>0. /\ events[s] # <<>> /\ Head(events[s]).kind = "child" /\ TakeEvent(s)
        /\ UNCHANGED <<process, pid, tracked, announced, registry, idOfPid, holder, socket, start>>
    BY DEF handleChildProcessEvent, subprocesses, registration, wires
  <1>1. PICK c \in Children :
           /\ Head(events[s]).child = c
           /\ handling' = handling \/ handling' = Append(handling, <<c, s>>)
    <2>1. Head(events[s]) \in ChildEvents
      BY <1>0, HeadTaken
    <2> QED BY <2>1 DEF ChildEvents, handleChildProcessEvent
  <1>2. Taken /\ c \in Children /\ Told(c, s) # {} /\ Told(c, s)' = {}
    BY <1>0, <1>1, HeadTaken
  <1>3. handling \in Seq(Children \X MainSessions) /\ <<c, s>> \in Children \X MainSessions
    BY <1>2 DEF ChildInv, ChildTypeOK
  <1>4. handling' \in Seq(Children \X MainSessions)
    BY <1>1, <1>3, AppendProperties
  <1>5. Held(c, s) = {} /\ c \in announced /\ registry[c] # s /\ holder[c] # s
    BY <1>2 DEF ChildInv, AnnouncedOnce, Pending
  <1>6. ASSUME NEW d \in Children, NEW t \in MainSessions
        PROVE  \/ Held(d, t)' = Held(d, t)
               \/ d = c /\ t = s /\ \A i, j \in Held(d, t)' : i = j
    <2>1. CASE handling' = handling
      BY <2>1 DEF Held
    <2>2. CASE handling' = Append(handling, <<c, s>>)
      <3>1. /\ DOMAIN handling' = DOMAIN handling \cup {Len(handling) + 1}
            /\ \A i \in DOMAIN handling : handling'[i] = handling[i]
            /\ handling'[Len(handling) + 1] = <<c, s>>
        BY <1>3, <2>2, AppendProperties
      <3>2. CASE d = c /\ t = s
        <4>1. \A i \in DOMAIN handling : handling[i] # <<c, s>>
          BY <1>5 DEF Held
        <4>2. \A i \in Held(c, s)' : i \in DOMAIN handling' /\ handling'[i] = <<c, s>>
          BY DEF Held
        <4>3. \A i \in Held(c, s)' : i = Len(handling) + 1
          BY <3>1, <4>1, <4>2
        <4> QED BY <3>2, <4>3
      <3>3. CASE <<d, t>> # <<c, s>>
        <4>1. Len(handling) + 1 \notin DOMAIN handling
          BY <1>3
        <4> QED BY <3>1, <3>3, <4>1 DEF Held
      <3> QED BY <3>2, <3>3
    <2> QED BY <1>1, <2>1, <2>2
  <1>7. ChildTypeOK'
    BY <1>0, <1>2, <1>4 DEF ChildInv, ChildTypeOK, Taken
  <1>8. AnnouncedOnce'
    <2> SUFFICES ASSUME NEW d \in Children, NEW t \in MainSessions
                 PROVE  /\ d \notin announced' => ~Pending(d, t)' /\ registry'[d] # t /\ holder'[d] # t
                        /\ \A i, j \in Told(d, t)' : i = j
                        /\ \A i, j \in Held(d, t)' : i = j
                        /\ Told(d, t)' = {} \/ Held(d, t)' = {}
                        /\ registry'[d] = t \/ holder'[d] = t => ~Pending(d, t)'
      BY DEF AnnouncedOnce
    <2>1. CASE Held(d, t)' = Held(d, t)
      BY <1>0, <1>2, <2>1 DEF ChildInv, AnnouncedOnce, Pending, Taken
    <2>2. CASE d = c /\ t = s /\ \A i, j \in Held(d, t)' : i = j
      BY <1>0, <1>2, <1>5, <2>2
    <2> QED BY <1>6, <2>1, <2>2
  <1>9. SocketHeld'
    BY <1>0 DEF ChildInv, SocketHeld
  <1> QED BY <1>7, <1>8, <1>9 DEF ChildInv

LEMMA TakeExitStep ==
    ASSUME ChildInv, NEW s \in MainSessions, handleChildProcessExitedEvent(s)
    PROVE  ChildInv'
  <1> DEFINE c == idOfPid[Head(events[s]).pid]
  <1>1. /\ events[s] # <<>> /\ TakeEvent(s)
        /\ UNCHANGED <<process, pid, tracked, announced, handling, holder, start>>
        /\ UNCHANGED <<registry, idOfPid, socket>> \/ disposePendingChildSession({c} \ {NoChild})
    BY DEF handleChildProcessExitedEvent, subprocesses
  <1>2. Taken /\ Head(events[s]) \in ChildEvents
    BY <1>1, HeadTaken
  <1>3. {c} \ {NoChild} \in SUBSET Children /\ start' = [d \in Children |-> start'[d]]
    BY <1>1, <1>2 DEF ChildInv, ChildTypeOK, ChildEvents
  <1> HIDE DEF c
  <1>4. CASE disposePendingChildSession({c} \ {NoChild})
    BY <1>1, <1>2, <1>3, <1>4, DisposeStep
  <1>5. CASE UNCHANGED <<registry, idOfPid, socket>>
    <2>1. ChildTypeOK'
      BY <1>1, <1>2, <1>3, <1>5 DEF ChildInv, ChildTypeOK, Taken
    <2>2. \A d \in Children, t \in MainSessions : Held(d, t)' = Held(d, t)
      BY <1>1 DEF Held
    <2>3. AnnouncedOnce'
      BY <1>1, <1>2, <1>5, <2>2 DEF ChildInv, AnnouncedOnce, Pending, Taken
    <2>4. SocketHeld'
      BY <1>1, <1>5 DEF ChildInv, SocketHeld
    <2> QED BY <2>1, <2>3, <2>4 DEF ChildInv
  <1> QED BY <1>1, <1>4, <1>5

LEMMA RegisterStep ==
    ASSUME ChildInv, registerPendingChildSession
    PROVE  ChildInv'
  <1>2. handling \in Seq(Children \X MainSessions) /\ handling # <<>>
    BY DEF registerPendingChildSession, ChildInv, ChildTypeOK
  <1>3. Head(handling) \in Children \X MainSessions /\ Tail(handling) \in Seq(Children \X MainSessions)
        /\ 1 \in DOMAIN handling /\ handling[1] = Head(handling)
    BY <1>2, HeadTailProperties, EmptySeq
  <1>4. PICK c \in Children, s \in MainSessions : Head(handling) = <<c, s>>
    BY <1>3
  <1>1. /\ handling # <<>> /\ handling' = Tail(handling)
        /\ registry' = [registry EXCEPT ![c] = s] /\ idOfPid' = [idOfPid EXCEPT ![pid[c]] = c]
        /\ UNCHANGED <<events, process, pid, tracked, announced, holder, socket, start>>
    <2>1. Head(handling)[1] = c /\ Head(handling)[2] = s
      BY <1>4
    <2> QED BY <2>1 DEF registerPendingChildSession, subprocesses, wires
  <1>5. \A i \in DOMAIN Tail(handling) : i \in Nat /\ i >= 1 /\ i + 1 \in DOMAIN handling
                                         /\ Tail(handling)[i] = handling[i + 1]
    <2>1. Len(Tail(handling)) = Len(handling) - 1 /\ Len(handling) \in Nat
      BY <1>1, <1>2, HeadTailProperties
    <2> QED BY <1>1, <1>2, <1>3, <2>1, HeadTailProperties
  <1>6. 1 \in Held(c, s)
    BY <1>3, <1>4 DEF Held
  <1>7. /\ Told(c, s) = {} /\ c \in announced /\ holder[c] # s /\ \A i \in Held(c, s) : i = 1
    BY <1>4, <1>6 DEF ChildInv, AnnouncedOnce, Pending
  <1>8. \A d \in Children, t \in MainSessions : \A i \in Held(d, t)' : i \in Nat /\ i >= 1 /\ i + 1 \in Held(d, t)
    BY <1>1, <1>5 DEF Held
  <1>9. Held(c, s)' = {}
    <2> SUFFICES ASSUME NEW i \in Held(c, s)' PROVE FALSE
      OBVIOUS
    <2>1. i \in Nat /\ i >= 1 /\ i + 1 \in Held(c, s)
      BY <1>4, <1>8
    <2>2. i + 1 = 1
      BY <1>7, <2>1
    <2> QED BY <2>1, <2>2
  <1>10. ChildTypeOK'
    BY <1>1, <1>3, <1>4 DEF ChildInv, ChildTypeOK
  <1>11. \A d \in Children, t \in MainSessions : Told(d, t)' = Told(d, t)
    BY <1>1 DEF Told
  <1>12. \A d \in Children, t \in MainSessions :
            /\ Held(d, t) = {} => Held(d, t)' = {}
            /\ (\A i, j \in Held(d, t) : i = j) => \A i, j \in Held(d, t)' : i = j
    BY <1>8
  <1>13. \A d \in Children, t \in MainSessions : registry'[d] = t => registry[d] = t \/ (d = c /\ t = s)
    BY <1>1, <1>4 DEF ChildInv, ChildTypeOK
  <1>14. AnnouncedOnce'
    <2> SUFFICES ASSUME NEW d \in Children, NEW t \in MainSessions
                 PROVE  /\ d \notin announced' => ~Pending(d, t)' /\ registry'[d] # t /\ holder'[d] # t
                        /\ \A i, j \in Told(d, t)' : i = j
                        /\ \A i, j \in Held(d, t)' : i = j
                        /\ Told(d, t)' = {} \/ Held(d, t)' = {}
                        /\ registry'[d] = t \/ holder'[d] = t => ~Pending(d, t)'
      BY DEF AnnouncedOnce
    <2>1. /\ Told(d, t)' = Told(d, t) /\ (Held(d, t) = {} => Held(d, t)' = {})
          /\ (\A i, j \in Held(d, t) : i = j) => \A i, j \in Held(d, t)' : i = j
      BY <1>11, <1>12
    <2>2. CASE d = c /\ t = s
      <3>1. ~Pending(c, s)' /\ Told(c, s)' = {} /\ c \in announced'
        BY <1>1, <1>4, <1>7, <1>9, <1>11 DEF Pending
      <3> QED BY <1>9, <2>2, <3>1
    <2>3. CASE ~(d = c /\ t = s)
      <3>1. registry'[d] = t => registry[d] = t
        BY <1>13, <2>3
      <3> QED BY <1>1, <2>1, <3>1 DEF ChildInv, AnnouncedOnce, Pending
    <2> QED BY <2>2, <2>3
  <1>15. SocketHeld'
    BY <1>1, <1>4, <1>7 DEF ChildInv, ChildTypeOK, SocketHeld
  <1> QED BY <1>10, <1>14, <1>15 DEF ChildInv

LEMMA SharedSocketStep ==
    ASSUME ChildInv, NEW c \in Children, handleSharedChildSocket(c) \/ Hello(c)
    PROVE  ChildInv'
  <1>1. /\ UNCHANGED <<events, handling, process, pid, tracked, announced, registry, idOfPid>>
        /\ start' = start \/ start' = [start EXCEPT ![c] = "asked"]
        /\ \/ socket[c] = "none" /\ socket' = [socket EXCEPT ![c] = "hello"] /\ holder' = holder
           \/ socket[c] = "hello" /\ socket' = [socket EXCEPT ![c] = "destroyed"] /\ holder' = holder
           \/ /\ socket[c] = "hello" /\ socket' = [socket EXCEPT ![c] = "attached"]
              /\ holder' = [holder EXCEPT ![c] = registry[c]] /\ registry[c] # NoSession
    BY DEF handleSharedChildSocket, Hello, subprocesses, registration, Registered
  <1>2. holder[c] = NoSession
    BY <1>1 DEF ChildInv, SocketHeld
  <1>3. ChildTypeOK'
    BY <1>1 DEF ChildInv, ChildTypeOK
  <1>4. \A d \in Children, t \in MainSessions : Told(d, t)' = Told(d, t) /\ Held(d, t)' = Held(d, t)
    BY <1>1 DEF Told, Held
  <1>5. AnnouncedOnce'
    <2>1. \A d \in Children, t \in MainSessions : holder'[d] = t => holder[d] = t \/ registry[d] = t
      BY <1>1 DEF ChildInv, ChildTypeOK
    <2> QED BY <1>1, <1>4, <2>1 DEF ChildInv, AnnouncedOnce, Pending
  <1>6. SocketHeld'
    BY <1>1, <1>2 DEF ChildInv, ChildTypeOK, SocketHeld
  <1> QED BY <1>3, <1>5, <1>6 DEF ChildInv

LEMMA ChildStep ==
    ASSUME ChildInv, [ChildNext]_childVars
    PROVE  ChildInv'
  <1>1. ASSUME NEW c \in Children, patched_popen_init(c) \/ ChildEnds(c) \/ Reap(c)
        PROVE  ChildInv'
    <2>1. /\ UNCHANGED <<events, handling, registry, holder, socket, announced, tracked, idOfPid, start>>
          /\ pid' \in [Children -> Pids]
          /\ \/ process[c] = "new" /\ process' = [process EXCEPT ![c] = "spawned"]
             \/ process' = [process EXCEPT ![c] = "dead"]
             \/ process' = [process EXCEPT ![c] = "reaped"]
      BY ZenonT(40), <1>1 DEF patched_popen_init, ChildEnds, Reap, registration, wires, ChildInv, ChildTypeOK
    <2>2. /\ process' \in [Children -> {"new", "spawned", "alive", "dead", "reaped", "done"}]
          /\ \A d \in Children : process'[d] \in {"new", "spawned"} => process[d] \in {"new", "spawned"}
          /\ start' = [d \in Children |-> start'[d]] /\ tracked' \in [Pids -> Children \cup {NoChild}]
      BY <2>1 DEF ChildInv, ChildTypeOK
    <2> QED BY <2>1, <2>2, ApartStep
  <1>2. ASSUME NEW c \in Children, SocketStep(c) PROVE ChildInv'
    <2>1. CASE handleSharedChildSocket(c)
      BY <2>1, SharedSocketStep
    <2>2. ASSUME UNCHANGED <<events, handling, holder, announced, pid, tracked, process>>,
                 start' = [start EXCEPT ![c] = start'[c]],
                 UNCHANGED <<registry, idOfPid, socket>> \/ disposePendingChildSession({c})
          PROVE  ChildInv'
      <3>1. /\ start' = [d \in Children |-> start'[d]]
            /\ pid' \in [Children -> Pids] /\ tracked' \in [Pids -> Children \cup {NoChild}]
            /\ process' \in [Children -> {"new", "spawned", "alive", "dead", "reaped", "done"}]
        BY <2>2 DEF ChildInv, ChildTypeOK
      <3> QED BY <2>2, <3>1, NothingTaken, DisposeStep, ApartStep
    <2>3. start' = [start EXCEPT ![c] = start'[c]] \/ handleSharedChildSocket(c)
      BY <1>2 DEF SocketStep, SocketCloses, childLaunchDeclined, createChildDebugAdapterDescriptor,
                  adapterServerFails, childDescriptorReady, clientConnects, childSessionTerminated,
                  ChildInv, ChildTypeOK
    <2>4. handleSharedChildSocket(c) \/
          /\ UNCHANGED <<events, handling, holder, announced, pid, tracked, process>>
          /\ UNCHANGED <<registry, idOfPid, socket>> \/ disposePendingChildSession({c})
      BY <1>2 DEF SocketStep, SocketCloses, childLaunchDeclined, createChildDebugAdapterDescriptor,
                  adapterServerFails, childDescriptorReady, clientConnects, childSessionTerminated,
                  subprocesses, registration, wires
    <2> QED BY <2>1, <2>2, <2>3, <2>4
  <1>3. ASSUME NEW s \in MainSessions, handleParentSessionTerminated(s) PROVE ChildInv'
    <2>1. /\ UNCHANGED <<events, handling, holder, announced, pid, tracked, process, start>>
          /\ UNCHANGED <<registry, idOfPid, socket>>
             \/ disposePendingChildSession({c \in Children : registry[c] = s})
      BY <1>3 DEF handleParentSessionTerminated, subprocesses, registration
    <2>2. /\ start' = [d \in Children |-> start'[d]]
          /\ pid' \in [Children -> Pids] /\ tracked' \in [Pids -> Children \cup {NoChild}]
          /\ process' \in [Children -> {"new", "spawned", "alive", "dead", "reaped", "done"}]
      BY <2>1 DEF ChildInv, ChildTypeOK
    <2> QED BY <2>1, <2>2, NothingTaken, DisposeStep, ApartStep
  <1>4. CASE UNCHANGED childVars
    <2>1. UNCHANGED <<events, handling, holder, announced, pid, tracked, process, start, registry, idOfPid,
                      socket>>
      BY <1>4 DEF childVars, subprocesses, registration, wires
    <2>2. /\ start' = [d \in Children |-> start'[d]]
          /\ pid' \in [Children -> Pids] /\ tracked' \in [Pids -> Children \cup {NoChild}]
          /\ process' \in [Children -> {"new", "spawned", "alive", "dead", "reaped", "done"}]
      BY <2>1 DEF ChildInv, ChildTypeOK
    <2> QED BY <2>1, <2>2, ApartStep
  <1> QED BY <1>1, <1>2, <1>3, <1>4, DetectStep, ExitStep, TakeChildStep, TakeExitStep, RegisterStep,
             SharedSocketStep DEF ChildNext

LEMMA ReadyHasSocket ==
    ASSUME ChildInv, ChildNext, NEW c \in Children, start[c] = "listening", start'[c] = "ready"
    PROVE  Registered(c) /\ socket[c] = "attached"
  <1>1. PICK d \in Children : childDescriptorReady(d) /\ start' = [start EXCEPT ![d] = "ready"] /\ HasSocket(d)
    BY ZenonT(40) DEF ChildNext, SocketStep, patched_popen_init, on_child_detected, Hello, ChildEnds, Reap,
           on_child_exited, handleChildProcessEvent, handleChildProcessExitedEvent,
           handleParentSessionTerminated, registerPendingChildSession, handleSharedChildSocket,
           SocketCloses, childLaunchDeclined, createChildDebugAdapterDescriptor, adapterServerFails,
           childDescriptorReady, clientConnects, childSessionTerminated, ChildInv, ChildTypeOK
  <1>2. d = c
    BY <1>1 DEF ChildInv, ChildTypeOK
  <1> QED BY <1>1, <1>2 DEF HasSocket, Registered, ChildInv, SocketHeld

\* A child session is served only while its listener has an open socket, for any number of
\* children and sessions, pids that come back, and any order of announcement, connection and exit.
THEOREM ServesOpenSocketAlways == ChildSpec => ServesOpenSocket
  <1>1. ChildInit => ChildInv
    <2> SUFFICES ASSUME ChildInit PROVE ChildInv
      OBVIOUS
    <2>1. ChildTypeOK
      BY NoChildIs, EmptySeq, ChildAssumption DEF ChildInit, ChildTypeOK
    <2>2. \A c \in Children, s \in MainSessions : ~Pending(c, s)
      BY EmptySeq DEF ChildInit, Pending, Told, Held
    <2>3. AnnouncedOnce
      BY <2>2, NoChildIs DEF ChildInit, AnnouncedOnce, Pending
    <2> QED BY <2>1, <2>3 DEF ChildInit, ChildInv, SocketHeld
  <1>2. ChildInv /\ [ChildNext]_childVars => ChildInv'
    BY ChildStep
  <1>3. ChildInv /\ [ChildNext]_childVars =>
          [\A c \in Children : (start[c] = "listening" /\ start'[c] = "ready")
                => (Registered(c) /\ socket[c] = "attached")]_childVars
    BY ReadyHasSocket
  <1> QED BY <1>1, <1>2, <1>3, PTL DEF ChildSpec, ServesOpenSocket

-----------------------------------------------------------------------------
(***************************************************************************)
(* MainSessions: a session that has gone is told.                          *)
(***************************************************************************)

USE MainAssumption

-----------------------------------------------------------------------------
(* The inductive invariant.                                                *)

MainPlaces == {"new", "waiting", "described", "connected", "asking", "running", "attached",
           "refused", "stuck", "left", "ended"}

SessionTypeOK ==
    /\ at \in [Clients -> MainPlaces]
    /\ on \in [Clients -> Boots \union {None}]
    /\ running \subseteq Clients /\ told \subseteq Clients

TransportTypeOK ==
    /\ link \in [Boots -> {"waiting", "open", "shut"}]
    /\ debuggee \in [Boots -> {"none", "starting", "connected", "ended"}]
    /\ built \in 0..MaxBoots /\ up \in BOOLEAN
    /\ up => built > 0

\* While an environment is prepared the bootstrap is pending, so nobody else starts
\* one, and there is room for its transport; nothing is taken down then, since no
\* session has an id and no terminal is watched.
OneBootstrap ==
    /\ preparing \subseteq Clients
    /\ \A s, t \in preparing : s = t
    /\ preparing # {} => bootstrap = "pending" /\ ~up /\ built < MaxBoots
    /\ bootstrap = "done" => up
    /\ connecting # None => bootstrap = "pending" /\ up
    /\ ids # {} => bootstrap # "pending" /\ up
    /\ terminal # None => bootstrap # "pending" /\ up

\* The program of the transport in use has not connected before its socket opens.
LinkIsNew ==
    \A g \in Boots :
        /\ g > built => link[g] = "waiting"
        /\ up /\ g = built /\ debuggee[g] = "starting" => link[g] = "waiting"

\* A session that shows a running program is known to run as long as its transport's
\* socket has not closed, so the close tells it.
KnownToRun ==
    \A s \in Clients :
        at[s] = "running" /\ on[s] # None /\ link[on[s]] # "shut" => s \in running

MainInv == SessionTypeOK /\ TransportTypeOK /\ OneBootstrap /\ LinkIsNew /\ KnownToRun
          /\ GoneIsTold

-----------------------------------------------------------------------------
(* The controller.                                                         *)

\* Taking everything down tells who is still known to run before it lets go of them.
LEMMA ResetStep ==
    ASSUME MainInv, NEW states \in [Clients -> MainPlaces],
           \A s \in Clients : states[s] = "running" => at[s] = "running",
           reset(states), UNCHANGED <<built, late>>,
           preparing' = {}, connecting' = None,
           debuggee' \in [Boots -> {"none", "starting", "connected", "ended"}]
    PROVE  MainInv'
<1> USE DEF reset, disposeTransport, handleTransportClosed, Rejected, Attached, controller, programs
<1>1. SessionTypeOK'
  <2>1. at' \in [Clients -> MainPlaces]
    BY DEF MainInv, SessionTypeOK, MainPlaces
  <2>2. on' \in [Clients -> Boots \union {None}]
    BY DEF MainInv, SessionTypeOK
  <2>3. running' \subseteq Clients /\ told' \subseteq Clients
    BY DEF MainInv, SessionTypeOK
  <2> QED BY <2>1, <2>2, <2>3 DEF SessionTypeOK
<1>2. TransportTypeOK'
  BY DEF MainInv, TransportTypeOK, Boots
<1>3. OneBootstrap'
  BY DEF MainInv, OneBootstrap, TransportTypeOK
<1>4. LinkIsNew'
  BY DEF MainInv, LinkIsNew, TransportTypeOK, Boots
<1>5. KnownToRun'
  BY DEF MainInv, KnownToRun, SessionTypeOK, TransportTypeOK, Boots, None
<1>6. GoneIsTold'
  BY DEF MainInv, GoneIsTold, KnownToRun, SessionTypeOK, TransportTypeOK, Boots, None
<1> QED BY <1>1, <1>2, <1>3, <1>4, <1>5, <1>6 DEF MainInv

\* A bootstrap is started when none is under way and nothing is up.
LEMMA DescriptorStep ==
    ASSUME MainInv, NEW s \in Clients, createDebugAdapterDescriptor(s)
    PROVE  MainInv'
<1> USE DEF createDebugAdapterDescriptor, controller, programs
<1>1. SessionTypeOK'
  BY DEF MainInv, SessionTypeOK, TransportTypeOK, MainPlaces, Boots, Clients, None
<1>2. TransportTypeOK'
  BY DEF MainInv, TransportTypeOK, Boots
<1>3. OneBootstrap'
  <2>1. bootstrap = "none" /\ ~up => preparing = {}
    BY DEF MainInv, OneBootstrap
  <2>2. Cardinality({}) = 0
    BY FS_EmptySet
  <2>3. bootstrap = "none" /\ ~up => built < MaxBoots
    BY <2>1, <2>2 DEF MainInv, TransportTypeOK
  <2>4. UNCHANGED preparing \/ preparing' = {s}
    BY <2>1
  <2> QED BY <2>1, <2>3, <2>4 DEF MainInv, OneBootstrap, TransportTypeOK
<1>4. LinkIsNew'
  BY DEF MainInv, LinkIsNew, TransportTypeOK, Boots
<1>5. KnownToRun'
  BY DEF MainInv, KnownToRun, SessionTypeOK, TransportTypeOK, Boots, None
<1>6. GoneIsTold'
  BY DEF MainInv, GoneIsTold, KnownToRun, SessionTypeOK, TransportTypeOK, Boots, None
<1> QED BY <1>1, <1>2, <1>3, <1>4, <1>5, <1>6 DEF MainInv

\* The new transport has a new link.
LEMMA PreparedStep ==
    ASSUME MainInv, NEW s \in Clients, environmentPrepared(s)
    PROVE  MainInv'
<1> USE DEF environmentPrepared, Bootstrapped, Waiting, controller, programs
<1>1. SessionTypeOK'
  BY DEF MainInv, SessionTypeOK, TransportTypeOK, MainPlaces, Boots, Clients, None
<1>2. TransportTypeOK'
  BY DEF MainInv, OneBootstrap, TransportTypeOK, Boots
<1>3. OneBootstrap'
  BY DEF MainInv, OneBootstrap, TransportTypeOK
<1>4. LinkIsNew'
  BY DEF MainInv, LinkIsNew, TransportTypeOK, Boots
<1>5. KnownToRun'
  BY DEF MainInv, KnownToRun, SessionTypeOK, TransportTypeOK, Boots, None
<1>6. GoneIsTold'
  BY DEF MainInv, GoneIsTold, KnownToRun, SessionTypeOK, TransportTypeOK, Boots, None
<1> QED BY <1>1, <1>2, <1>3, <1>4, <1>5, <1>6 DEF MainInv

\* The attach helper is done.
LEMMA HelperStep ==
    ASSUME MainInv, attachHelperSucceeds
    PROVE  MainInv'
<1> USE DEF attachHelperSucceeds, Bootstrapped, Waiting, controller, programs
<1>1. SessionTypeOK'
  BY DEF MainInv, SessionTypeOK, TransportTypeOK, MainPlaces, Boots, Clients, None
<1>2. TransportTypeOK'
  BY DEF MainInv, TransportTypeOK, Boots
<1>3. OneBootstrap'
  BY DEF MainInv, OneBootstrap, TransportTypeOK
<1>4. LinkIsNew'
  BY DEF MainInv, LinkIsNew, TransportTypeOK, Boots
<1>5. KnownToRun'
  BY DEF MainInv, KnownToRun, SessionTypeOK, TransportTypeOK, Boots, None
<1>6. GoneIsTold'
  BY DEF MainInv, GoneIsTold, KnownToRun, SessionTypeOK, TransportTypeOK, Boots, None
<1> QED BY <1>1, <1>2, <1>3, <1>4, <1>5, <1>6 DEF MainInv

\* A failed bootstrap ends only sessions that wait for it.
LEMMA FailStep ==
    ASSUME MainInv, bootstrapFails
    PROVE  MainInv'
<1> DEFINE states == [s \in Clients |-> IF s \in Waiting THEN "ended" ELSE at[s]]
<1>1. states \in [Clients -> MainPlaces]
  BY DEF MainInv, SessionTypeOK, MainPlaces
<1>2. \A s \in Clients : states[s] = "running" => at[s] = "running"
  OBVIOUS
<1>3. /\ reset(states) /\ UNCHANGED <<built, late>> /\ preparing' = {} /\ connecting' = None
      /\ debuggee' = debuggee
  BY DEF bootstrapFails
<1>4. debuggee' \in [Boots -> {"none", "starting", "connected", "ended"}]
  BY <1>3 DEF MainInv, TransportTypeOK
<1> HIDE DEF states
<1> QED BY <1>1, <1>2, <1>3, <1>4, ResetStep

\* The last session takes everything down, another one leaves alone.
LEMMA EndStep ==
    ASSUME MainInv, NEW s \in Clients, mainSessionTerminated(s)
    PROVE  MainInv'
<1> DEFINE states == [at EXCEPT ![s] = "ended"]
<1>1. states \in [Clients -> MainPlaces]
  BY DEF MainInv, SessionTypeOK, MainPlaces
<1>2. \A c \in Clients : states[c] = "running" => at[c] = "running"
  BY DEF MainInv, SessionTypeOK
<1>3. CASE s \in ids /\ ids = {s}
  <2>1. /\ reset(states) /\ UNCHANGED <<built, late, preparing, connecting>>
        /\ debuggee' = IF terminal = None THEN debuggee
                       ELSE [debuggee EXCEPT ![terminal] = "ended"]
    BY <1>3 DEF mainSessionTerminated
  <2>2. debuggee' \in [Boots -> {"none", "starting", "connected", "ended"}]
    BY <2>1 DEF MainInv, TransportTypeOK
  <2>3. preparing = {} /\ connecting = None
    BY <1>3 DEF MainInv, OneBootstrap
  <2> HIDE DEF states
  <2> QED BY <1>1, <1>2, <2>1, <2>2, <2>3, ResetStep
<1>4. CASE ~(s \in ids /\ ids = {s})
  <2> USE <1>4 DEF mainSessionTerminated, programs
  <2>1. SessionTypeOK'
    BY DEF MainInv, SessionTypeOK, TransportTypeOK, MainPlaces, Boots, Clients, None
  <2>2. TransportTypeOK'
    BY DEF MainInv, TransportTypeOK, Boots
  <2>3. OneBootstrap'
    BY DEF MainInv, OneBootstrap, TransportTypeOK
  <2>4. LinkIsNew'
    BY DEF MainInv, LinkIsNew, TransportTypeOK, Boots
  <2>5. KnownToRun'
    BY DEF MainInv, KnownToRun, SessionTypeOK, TransportTypeOK, Boots, None
  <2>6. GoneIsTold'
    BY DEF MainInv, GoneIsTold, KnownToRun, SessionTypeOK, TransportTypeOK, Boots, None
  <2> QED BY <2>1, <2>2, <2>3, <2>4, <2>5, <2>6 DEF MainInv
<1> QED BY <1>3, <1>4

\* A terminal that is watched takes everything down, another one its program only.
LEMMA TerminalStep ==
    ASSUME MainInv, NEW g \in Boots, terminalCloses(g)
    PROVE  MainInv'
<1> DEFINE states == Rejected(g, at)
<1>1. states \in [Clients -> MainPlaces]
  BY DEF MainInv, SessionTypeOK, MainPlaces, Rejected
<1>2. \A c \in Clients : states[c] = "running" => at[c] = "running"
  BY DEF Rejected
<1>3. debuggee' \in [Boots -> {"none", "starting", "connected", "ended"}]
  BY DEF MainInv, TransportTypeOK, terminalCloses
<1>4. CASE g = terminal
  <2>1. reset(states) /\ UNCHANGED <<built, late, preparing, connecting>>
    BY <1>4 DEF terminalCloses
  <2>2. preparing = {} /\ connecting = None
    BY <1>4 DEF MainInv, OneBootstrap, None, Boots
  <2> HIDE DEF states
  <2> QED BY <1>1, <1>2, <1>3, <2>1, <2>2, ResetStep
<1>5. CASE g # terminal
  <2> USE <1>5 DEF terminalCloses
  <2>1. SessionTypeOK'
    BY DEF MainInv, SessionTypeOK, TransportTypeOK, MainPlaces, Boots, Clients, None
  <2>2. TransportTypeOK'
    BY DEF MainInv, TransportTypeOK, Boots
  <2>3. OneBootstrap'
    BY DEF MainInv, OneBootstrap, TransportTypeOK
  <2>4. LinkIsNew'
    BY DEF MainInv, LinkIsNew, TransportTypeOK, Boots
  <2>5. KnownToRun'
    BY DEF MainInv, KnownToRun, SessionTypeOK, TransportTypeOK, Boots, None
  <2>6. GoneIsTold'
    BY DEF MainInv, GoneIsTold, KnownToRun, SessionTypeOK, TransportTypeOK, Boots, None
  <2> QED BY <2>1, <2>2, <2>3, <2>4, <2>5, <2>6 DEF MainInv
<1> QED BY <1>4, <1>5

-----------------------------------------------------------------------------
(* The sessions and the program.                                           *)

\* A session joins the transport that is up.
LEMMA ConnectStep ==
    ASSUME MainInv, NEW s \in Clients, clientConnectsToServer(s)
    PROVE  MainInv'
<1> USE DEF clientConnectsToServer, controller, programs
<1>1. SessionTypeOK'
  BY DEF MainInv, SessionTypeOK, TransportTypeOK, MainPlaces, Boots, Clients, None
<1>2. TransportTypeOK'
  BY DEF MainInv, TransportTypeOK, Boots
<1>3. OneBootstrap'
  BY DEF MainInv, OneBootstrap, TransportTypeOK
<1>4. LinkIsNew'
  BY DEF MainInv, LinkIsNew, TransportTypeOK, Boots
<1>5. KnownToRun'
  BY DEF MainInv, KnownToRun, SessionTypeOK, TransportTypeOK, Boots, None
<1>6. GoneIsTold'
  BY DEF MainInv, GoneIsTold, KnownToRun, SessionTypeOK, TransportTypeOK, Boots, None
<1> QED BY <1>1, <1>2, <1>3, <1>4, <1>5, <1>6 DEF MainInv

\* A session that is answered at once is known to run, or late.
LEMMA LaunchStep ==
    ASSUME MainInv, NEW s \in Clients, launchRequest(s)
    PROVE  MainInv'
<1> USE DEF launchRequest, Answered, controller, programs
<1>1. SessionTypeOK'
  <2>1. at' \in [Clients -> MainPlaces]
    BY DEF MainInv, SessionTypeOK, MainPlaces
  <2>2. on' \in [Clients -> Boots \union {None}]
    BY DEF MainInv, SessionTypeOK
  <2>3. running' \subseteq Clients /\ told' \subseteq Clients
    BY DEF MainInv, SessionTypeOK
  <2> QED BY <2>1, <2>2, <2>3 DEF SessionTypeOK
<1>2. TransportTypeOK'
  BY DEF MainInv, TransportTypeOK, Boots
<1>3. OneBootstrap'
  BY DEF MainInv, OneBootstrap, TransportTypeOK
<1>4. LinkIsNew'
  BY DEF MainInv, LinkIsNew, TransportTypeOK, Boots
<1>5. KnownToRun'
  BY DEF MainInv, KnownToRun, SessionTypeOK, TransportTypeOK, Boots, None
<1>6. GoneIsTold'
  BY DEF MainInv, GoneIsTold, KnownToRun, SessionTypeOK, TransportTypeOK, Boots, None
<1> QED BY <1>1, <1>2, <1>3, <1>4, <1>5, <1>6 DEF MainInv

\* An answered launch makes every session that waited for it known to run.
LEMMA AnsweredStep ==
    ASSUME MainInv, NEW g \in Boots, requestAnswered(g, "launch") \/ requestAnswered(g, "attach")
    PROVE  MainInv'
<1> USE DEF requestAnswered, Answered, Attached, controller, programs
<1>1. SessionTypeOK'
  <2>1. at' \in [Clients -> MainPlaces]
    BY DEF MainInv, SessionTypeOK, MainPlaces
  <2>2. on' \in [Clients -> Boots \union {None}]
    BY DEF MainInv, SessionTypeOK
  <2>3. running' \subseteq Clients /\ told' \subseteq Clients
    BY DEF MainInv, SessionTypeOK
  <2> QED BY <2>1, <2>2, <2>3 DEF SessionTypeOK
<1>2. TransportTypeOK'
  BY DEF MainInv, TransportTypeOK, Boots
<1>3. OneBootstrap'
  BY DEF MainInv, OneBootstrap, TransportTypeOK
<1>4. LinkIsNew'
  BY DEF MainInv, LinkIsNew, TransportTypeOK, Boots
<1>5. KnownToRun'
  BY DEF MainInv, KnownToRun, SessionTypeOK, TransportTypeOK, Boots, None
<1>6. GoneIsTold'
  BY DEF MainInv, GoneIsTold, KnownToRun, SessionTypeOK, TransportTypeOK, Boots, None
<1> QED BY <1>1, <1>2, <1>3, <1>4, <1>5, <1>6 DEF MainInv

\* A session that leaves shows nothing any more.
LEMMA DisconnectStep ==
    ASSUME MainInv, NEW s \in Clients, disconnectRequest(s)
    PROVE  MainInv'
<1> USE DEF disconnectRequest, controller, programs
<1>1. SessionTypeOK'
  BY DEF MainInv, SessionTypeOK, TransportTypeOK, MainPlaces, Boots, Clients, None
<1>2. TransportTypeOK'
  BY DEF MainInv, TransportTypeOK, Boots
<1>3. OneBootstrap'
  BY DEF MainInv, OneBootstrap, TransportTypeOK
<1>4. LinkIsNew'
  BY DEF MainInv, LinkIsNew, TransportTypeOK, Boots
<1>5. KnownToRun'
  BY DEF MainInv, KnownToRun, SessionTypeOK, TransportTypeOK, Boots, None
<1>6. GoneIsTold'
  BY DEF MainInv, GoneIsTold, KnownToRun, SessionTypeOK, TransportTypeOK, Boots, None
<1> QED BY <1>1, <1>2, <1>3, <1>4, <1>5, <1>6 DEF MainInv

\* A program that connects opens a new link.
LEMMA DebuggeeStep ==
    ASSUME MainInv, NEW g \in Boots, debuggeeConnects(g) \/ debuggeeEnds(g)
    PROVE  MainInv'
<1> USE DEF debuggeeConnects, debuggeeEnds, controller, programs
<1>1. SessionTypeOK'
  BY DEF MainInv, SessionTypeOK, TransportTypeOK, MainPlaces, Boots, Clients, None
<1>2. TransportTypeOK'
  BY DEF MainInv, TransportTypeOK, Boots
<1>3. OneBootstrap'
  BY DEF MainInv, OneBootstrap, TransportTypeOK
<1>4. LinkIsNew'
  BY DEF MainInv, LinkIsNew, TransportTypeOK, Boots
<1>5. KnownToRun'
  BY DEF MainInv, KnownToRun, LinkIsNew, SessionTypeOK, TransportTypeOK, Boots, None
<1>6. GoneIsTold'
  BY DEF MainInv, GoneIsTold, KnownToRun, SessionTypeOK, TransportTypeOK, Boots, None
<1> QED BY <1>1, <1>2, <1>3, <1>4, <1>5, <1>6 DEF MainInv

\* Whoever is known to run is told when the socket closes.
LEMMA MessageStep ==
    ASSUME MainInv, NEW g \in Boots, terminatedMessage(g) \/ socketCloses(g)
    PROVE  MainInv'
<1> USE DEF terminatedMessage, socketCloses, handleTransportClosed, Rejected, Attached, controller, programs
<1>1. SessionTypeOK'
  BY DEF MainInv, SessionTypeOK, TransportTypeOK, MainPlaces, Boots, Clients, None
<1>2. TransportTypeOK'
  BY DEF MainInv, TransportTypeOK, Boots
<1>3. OneBootstrap'
  BY DEF MainInv, OneBootstrap, TransportTypeOK
<1>4. LinkIsNew'
  BY DEF MainInv, LinkIsNew, TransportTypeOK, Boots
<1>5. KnownToRun'
  BY DEF MainInv, KnownToRun, SessionTypeOK, TransportTypeOK, Boots, None
<1>6. GoneIsTold'
  BY DEF MainInv, GoneIsTold, KnownToRun, SessionTypeOK, TransportTypeOK, Boots, None
<1> QED BY <1>1, <1>2, <1>3, <1>4, <1>5, <1>6 DEF MainInv

-----------------------------------------------------------------------------
(* The theorem.                                                            *)

LEMMA Invariant == MainSpec => []MainInv
<1>1. MainInit => MainInv
  <2> SUFFICES ASSUME MainInit PROVE MainInv
    OBVIOUS
  <2> USE DEF MainInit
  <2>1. SessionTypeOK
    BY DEF SessionTypeOK, MainPlaces
  <2>2. up \in BOOLEAN /\ ~up
    BY Zenon
  <2>3. TransportTypeOK
    BY <2>2 DEF TransportTypeOK
  <2>4. OneBootstrap
    BY <2>2 DEF OneBootstrap
  <2>5. LinkIsNew /\ KnownToRun /\ GoneIsTold
    BY DEF LinkIsNew, KnownToRun, GoneIsTold
  <2> QED BY <2>1, <2>3, <2>4, <2>5 DEF MainInv
<1>2. MainInv /\ [MainNext]_mainVars => MainInv'
  <2> SUFFICES ASSUME MainInv, [MainNext]_mainVars PROVE MainInv'
    OBVIOUS
  <2>1. ASSUME NEW s \in Clients,
               \/ createDebugAdapterDescriptor(s) \/ environmentPrepared(s)
               \/ clientConnectsToServer(s) \/ launchRequest(s)
               \/ disconnectRequest(s) \/ mainSessionTerminated(s)
        PROVE  MainInv'
    BY <2>1, DescriptorStep, PreparedStep, ConnectStep, LaunchStep, DisconnectStep, EndStep
  <2>2. ASSUME NEW g \in Boots,
               \/ requestAnswered(g, "launch") \/ requestAnswered(g, "attach")
               \/ debuggeeConnects(g) \/ debuggeeEnds(g)
               \/ terminatedMessage(g) \/ socketCloses(g) \/ terminalCloses(g)
        PROVE  MainInv'
    BY <2>2, AnsweredStep, DebuggeeStep, MessageStep, TerminalStep
  <2>3. CASE UNCHANGED mainVars
    BY <2>3 DEF mainVars, controller, programs, MainInv, SessionTypeOK, TransportTypeOK,
                OneBootstrap, LinkIsNew, KnownToRun, GoneIsTold
  <2> QED BY <2>1, <2>2, <2>3, HelperStep, FailStep DEF MainNext
<1> QED BY <1>1, <1>2, PTL DEF MainSpec

\* For any number of sessions over any number of transports, a session that shows a
\* launched program as running is told when its connection closes, unless it launched
\* after that (handleTransportClosed, MainSessionController.reset).
THEOREM EverySessionIsTold == MainSpec => []GoneIsTold
<1>1. MainInv => GoneIsTold
  BY DEF MainInv
<1> QED BY <1>1, Invariant, PTL

-----------------------------------------------------------------------------
(***************************************************************************)
(* SessionJournal: the newest stop is kept.                                *)
(***************************************************************************)

USE JournalAssumption

-----------------------------------------------------------------------------
(* The inductive invariant.                                                *)

Entry == [type : {"stopped", "continued", "output", "terminated"}, checkpoint : Nat]
Request == [by : {"capture", "tool"}, checkpoint : Nat, reply : Int]

JournalTypeOK ==
    /\ stop \in Nat /\ stops \in Nat
    /\ feed \in Seq({"stopped", "continued", "output", "terminated"})
    /\ checkpoint \in Nat
    /\ recorded \in Seq(Entry)
    /\ lastSnapshot \in [checkpoint : Nat, stop : Int]
    /\ asked \in Seq(Request)

\* Checkpoints count the entries, so a new stop's is later than all there are.
CheckpointIsLast == \A i \in DOMAIN recorded : recorded[i].checkpoint <= checkpoint

JournalInv == JournalTypeOK /\ CheckpointIsLast /\ NewestStopKept

LEMMA EntryTypes ==
    ASSUME JournalTypeOK
    PROVE  \A i \in DOMAIN recorded : recorded[i].checkpoint \in Nat
<1>1. \A i \in DOMAIN recorded : recorded[i] \in Entry
  BY DEF JournalTypeOK
<1>2. \A e \in Entry : e.checkpoint \in Nat
  BY DEF Entry
<1> QED BY <1>1, <1>2

-----------------------------------------------------------------------------
(* Steps.                                                                  *)

\* What an entry in the journal does to its type and to the order of checkpoints.
LEMMA Recording ==
    ASSUME JournalInv, recordEntry(Head(feed)), feed # <<>>
    PROVE  /\ recorded' \in Seq(Entry) /\ checkpoint' = checkpoint + 1
           /\ CheckpointIsLast'
           /\ \A i \in DOMAIN recorded' :
                 \/ i \in DOMAIN recorded /\ recorded'[i] = recorded[i]
                 \/ recorded'[i] = [type |-> Head(feed), checkpoint |-> checkpoint']
<1>1. Head(feed) \in {"stopped", "continued", "output", "terminated"}
  BY DEF JournalInv, JournalTypeOK
<1>2. checkpoint' = checkpoint + 1 /\ checkpoint \in Nat
  BY DEF recordEntry, JournalInv, JournalTypeOK
<1> DEFINE entry == [type |-> Head(feed), checkpoint |-> checkpoint']
<1>3. entry \in Entry /\ entry.checkpoint = checkpoint + 1
  BY <1>1, <1>2 DEF Entry
<1>4. recorded' = Append(recorded, entry)
  BY DEF recordEntry
<1> HIDE DEF entry
<1>5. recorded \in Seq(Entry)
  BY DEF JournalInv, JournalTypeOK
<1>6. /\ recorded' \in Seq(Entry)
      /\ \A i \in DOMAIN recorded' :
            \/ i \in DOMAIN recorded /\ recorded'[i] = recorded[i]
            \/ recorded'[i] = entry
  BY <1>3, <1>4, <1>5
<1>7. \A i \in DOMAIN recorded : recorded[i].checkpoint \in Nat
  BY EntryTypes DEF JournalInv
<1>8. CheckpointIsLast'
  BY <1>2, <1>3, <1>6, <1>7 DEF JournalInv, CheckpointIsLast
<1> QED BY <1>2, <1>6, <1>8 DEF entry

\* An event is recorded; a stop brings its placeholder along.
LEMMA EventStep ==
    ASSUME JournalInv, onDidSendMessage
    PROVE  JournalInv'
<1>1. recordEntry(Head(feed)) /\ feed # <<>>
  BY DEF onDidSendMessage, onStopped
<1>2. /\ recorded' \in Seq(Entry) /\ checkpoint' = checkpoint + 1 /\ checkpoint \in Nat
      /\ CheckpointIsLast'
      /\ \A i \in DOMAIN recorded' :
            \/ i \in DOMAIN recorded /\ recorded'[i] = recorded[i]
            \/ recorded'[i] = [type |-> Head(feed), checkpoint |-> checkpoint']
  BY <1>1, Recording DEF JournalInv, JournalTypeOK
<1>3. feed' \in Seq({"stopped", "continued", "output", "terminated"})
  BY <1>1 DEF onDidSendMessage, JournalInv, JournalTypeOK
<1>4. CASE Head(feed) = "stopped"
  <2>1. /\ lastSnapshot' = [checkpoint |-> checkpoint', stop |-> 0]
        /\ asked' = Append(asked, [by |-> "capture", checkpoint |-> checkpoint', reply |-> -1])
        /\ UNCHANGED <<stop, stops>>
    BY <1>4 DEF onDidSendMessage, onStopped, Ask
  <2>2. [by |-> "capture", checkpoint |-> checkpoint', reply |-> -1] \in Request
    BY <1>2 DEF Request
  <2>3. \A r \in Request : Append(asked, r) \in Seq(Request)
    BY DEF JournalInv, JournalTypeOK
  <2>4. JournalTypeOK'
    BY <1>2, <1>3, <2>1, <2>2, <2>3 DEF JournalInv, JournalTypeOK
  <2>5. \A i \in DOMAIN recorded' : lastSnapshot'.checkpoint >= recorded'[i].checkpoint
    BY <1>2, <2>1 DEF CheckpointIsLast, Entry
  <2> QED BY <1>2, <2>4, <2>5 DEF JournalInv, NewestStopKept
<1>5. CASE Head(feed) # "stopped"
  <2>1. UNCHANGED <<lastSnapshot, asked, overtaken, stop, stops>>
    BY <1>5 DEF onDidSendMessage
  <2>2. JournalTypeOK'
    BY <1>2, <1>3, <2>1 DEF JournalInv, JournalTypeOK
  <2>3. NewestStopKept'
    BY <1>2, <1>5, <2>1 DEF JournalInv, NewestStopKept
  <2> QED BY <1>2, <2>2, <2>3 DEF JournalInv
<1> QED BY <1>4, <1>5

\* A capture that arrives is stored unless a later stop's snapshot is there.
LEMMA CaptureStep ==
    ASSUME JournalInv, captureSnapshotForEntry
    PROVE  JournalInv'
<1>1. /\ asked' \in Seq(Request)
      /\ Head(asked) \in Request
  BY DEF captureSnapshotForEntry, JournalInv, JournalTypeOK
<1>2. Head(asked).checkpoint \in Nat /\ Head(asked).reply \in Int
  BY <1>1 DEF Request
<1>3. /\ lastSnapshot \in [checkpoint : Nat, stop : Int]
      /\ [checkpoint |-> Head(asked).checkpoint, stop |-> Head(asked).reply]
            \in [checkpoint : Nat, stop : Int]
  BY <1>2 DEF JournalInv, JournalTypeOK
<1>4. \/ lastSnapshot' = lastSnapshot
      \/ /\ lastSnapshot.checkpoint <= Head(asked).checkpoint
         /\ lastSnapshot' = [checkpoint |-> Head(asked).checkpoint, stop |-> Head(asked).reply]
  BY DEF captureSnapshotForEntry
<1>5. /\ lastSnapshot' \in [checkpoint : Nat, stop : Int]
      /\ lastSnapshot'.checkpoint >= lastSnapshot.checkpoint
  BY <1>2, <1>3, <1>4
<1>6. UNCHANGED <<stop, stops, feed, checkpoint, recorded, overtaken>>
  BY DEF captureSnapshotForEntry, program, ring
<1>7. JournalTypeOK' /\ CheckpointIsLast'
  BY <1>1, <1>5, <1>6 DEF JournalInv, JournalTypeOK, CheckpointIsLast
<1>8. \A i \in DOMAIN recorded : recorded[i].checkpoint \in Nat
  BY EntryTypes DEF JournalInv
<1>9. NewestStopKept'
  BY <1>3, <1>5, <1>6, <1>8 DEF JournalInv, NewestStopKept
<1> QED BY <1>7, <1>9 DEF JournalInv

\* The answer to the agent's question is stored as it is, and known to be late if it is.
LEMMA AnswerStep ==
    ASSUME JournalInv, getSnapshot
    PROVE  JournalInv'
<1>1. asked' \in Seq(Request) /\ Head(asked) \in Request
  BY DEF getSnapshot, JournalInv, JournalTypeOK
<1>2. Head(asked).checkpoint \in Nat /\ Head(asked).reply \in Int
  BY <1>1 DEF Request
<1>3. /\ lastSnapshot' = [checkpoint |-> Head(asked).checkpoint, stop |-> Head(asked).reply]
      /\ UNCHANGED <<stop, stops, feed, checkpoint, recorded>>
      /\ overtaken' = Stopped(recorded, Head(asked).checkpoint)
  BY DEF getSnapshot, program, ring
<1>4. JournalTypeOK' /\ CheckpointIsLast'
  BY <1>1, <1>2, <1>3 DEF JournalInv, JournalTypeOK, CheckpointIsLast
<1>5. \A i \in DOMAIN recorded : recorded[i].checkpoint \in Nat
  BY EntryTypes DEF JournalInv
<1>6. NewestStopKept'
  BY <1>2, <1>3, <1>5 DEF Stopped, NewestStopKept
<1> QED BY <1>4, <1>6 DEF JournalInv

\* The other steps touch neither the journal's entries nor its snapshot.
LEMMA OtherStep ==
    ASSUME JournalInv, UNCHANGED <<checkpoint, recorded, lastSnapshot, overtaken>>, JournalTypeOK'
    PROVE  JournalInv'
BY DEF JournalInv, CheckpointIsLast, NewestStopKept

\* The program goes on and the tool asks its questions.
LEMMA ProgramStep ==
    ASSUME JournalInv,
           \/ programStops \/ programResumes \/ toolResumes
           \/ \E type \in {"output", "terminated"} : programReports(type)
    PROVE  JournalInv'
<1>1. \A e \in {"stopped", "continued", "output", "terminated"} :
         Append(feed, e) \in Seq({"stopped", "continued", "output", "terminated"})
  BY DEF JournalInv, JournalTypeOK
<1>2. feed' \in Seq({"stopped", "continued", "output", "terminated"})
  BY <1>1 DEF programStops, programResumes, programReports, toolResumes, JournalInv, JournalTypeOK
<1>3. stops \in Nat /\ stop \in Nat
  BY DEF JournalInv, JournalTypeOK
<1>4. stop' \in Nat /\ stops' \in Nat
  BY <1>3 DEF programStops, programResumes, programReports, toolResumes
<1>5. UNCHANGED <<checkpoint, recorded, lastSnapshot, overtaken, asked>>
  BY DEF programStops, programResumes, programReports, toolResumes, ring
<1> QED BY <1>2, <1>5, <1>4, OtherStep DEF JournalInv, JournalTypeOK

\* Questions are asked, answered and refused.
LEMMA AskStep ==
    ASSUME JournalInv,
           \/ agentSnapshot \/ snapshotFails \/ onWillStopSession
           \/ executeAndReport \/ waitForStop
    PROVE  JournalInv'
<1>1. UNCHANGED <<stop, stops, feed, checkpoint, recorded, lastSnapshot, overtaken>>
  BY DEF agentSnapshot, snapshotFails, onWillStopSession, executeAndReport, waitForStop,
         program, ring
<1>2. [by |-> "tool", checkpoint |-> checkpoint, reply |-> -1] \in Request
  BY DEF JournalInv, JournalTypeOK, Request
<1>3. \A r \in Request : Append(asked, r) \in Seq(Request)
  BY DEF JournalInv, JournalTypeOK
<1>4. asked' \in Seq(Request)
  <2>1. CASE agentSnapshot
    <3>1. PICK i \in 1..Len(asked) : asked' = [asked EXCEPT ![i].reply = stop]
      BY <2>1 DEF agentSnapshot
    <3>2. asked \in Seq(Request) /\ asked[i] \in Request
      BY DEF JournalInv, JournalTypeOK
    <3>3. [asked[i] EXCEPT !.reply = stop] \in Request
      <4>1. stop \in Int
        BY DEF JournalInv, JournalTypeOK
      <4>2. \A r \in Request : [r EXCEPT !.reply = stop] \in Request
        BY <4>1 DEF Request
      <4> QED BY <3>2, <4>2
    <3>4. asked' = [asked EXCEPT ![i] = [asked[i] EXCEPT !.reply = stop]]
      BY <3>1, <3>2
    <3> QED BY <3>2, <3>3, <3>4
  <2>2. CASE snapshotFails \/ onWillStopSession
    <3>1. asked # <<>> => Tail(asked) \in Seq(Request)
      BY DEF JournalInv, JournalTypeOK
    <3>2. asked' = asked \/ (asked # <<>> /\ asked' = Tail(asked))
      BY <2>2 DEF snapshotFails, onWillStopSession
    <3> QED BY <3>1, <3>2 DEF JournalInv, JournalTypeOK
  <2>3. CASE executeAndReport \/ waitForStop
    BY <2>3, <1>2, <1>3 DEF executeAndReport, waitForStop, Ask, JournalInv, JournalTypeOK
  <2> QED BY <2>1, <2>2, <2>3
<1> QED BY <1>1, <1>4, OtherStep DEF JournalInv, JournalTypeOK

-----------------------------------------------------------------------------
(* The theorem.                                                            *)

\* However late captures arrive and however many events come in between, the snapshot
\* the agent is given is of the newest recorded stop, unless its own question was
\* answered across a stop (_captureSnapshotForEntry, getSnapshot).
THEOREM SnapshotKeepsUp == JournalSpec => []NewestStopKept
<1>1. JournalInit => JournalInv
  BY DEF JournalInit, JournalInv, JournalTypeOK, CheckpointIsLast, NewestStopKept
<1>2. JournalInv /\ [JournalNext]_journalVars => JournalInv'
  <2> SUFFICES ASSUME JournalInv, [JournalNext]_journalVars PROVE JournalInv'
    OBVIOUS
  <2>1. CASE UNCHANGED journalVars
    BY <2>1 DEF journalVars, program, ring, JournalInv, JournalTypeOK, CheckpointIsLast,
                NewestStopKept
  <2> QED BY <2>1, EventStep, CaptureStep, AnswerStep, ProgramStep, AskStep DEF JournalNext
<1>3. JournalInv => NewestStopKept
  BY DEF JournalInv
<1> QED BY <1>1, <1>2, <1>3, PTL DEF JournalSpec

=============================================================================
