------------------------------ MODULE MCExtension ------------------------------
(***************************************************************************)
(* The six parts of the extension in one run.  They share no variable, so *)
(* a behaviour moves one of them, chosen at the start, and leaves the      *)
(* others in one initial state.                                            *)
(***************************************************************************)
EXTENDS ChildSessions, MainSessions, BreakpointReadiness, SessionJournal, LaunchRecords,
        PythonEnvironment, TLC

CONSTANTS s1, s2, l1, l2, debug, nodebug

const_MaxChildren == 2
const_Pids == 1..2
const_MainSessions == {s1, s2}
const_MaxClients == 2
const_MaxBoots == 2
const_Lines == 1..2
const_MaxRequests == 3
const_MaxEvents == 1
const_Capacity == 3
const_Recent == 2
const_MaxEntries == 4
const_MaxQueries == 1
const_Launches == {l1, l2}
const_MaxRestarts == 1
const_Managers == {debug, nodebug}
const_Builds == 1..3
const_VersionOf == <<1, 1, 2>>
Asking(how, force, preferred) ==
    [mode |-> how, force |-> force, preferred |-> preferred, allow |-> preferred]
const_Requests ==
    {Asking("auto", FALSE, FALSE), Asking("auto", TRUE, FALSE), Asking("wheel", FALSE, FALSE),
     Asking("pypi", TRUE, FALSE), Asking("wheel", FALSE, TRUE)}
const_MaxHosts == 2
const_MaxPreparations == 2

VARIABLE part

allVars == <<part, childVars, mainVars, readinessVars, journalVars, launchVars,
             environmentVars>>

\* Two main sessions announce one child; one announces two.  The first build meets a
\* workspace with a virtual environment, the second (rebuilt) one without.
ExtensionInit ==
    /\ part \in {"children", "main", "readiness", "journal", "launches", "environment"}
    /\ ChildInit /\ MainInit /\ ReadinessInit /\ JournalInit /\ LaunchInit
    /\ EnvironmentInit
    /\ s1 \in sessions /\ (sessions = {s1} \/ calls = 1)
    /\ part # "children" => (sessions = {s1} /\ calls = 1 /\ max_children = 1)
    /\ part # "main" => kind = [s \in Clients |-> "launch"]
    /\ part # "launches" => mode = [l \in Launches |-> "debug"]
    /\ site = [p \in Places |-> Bare] /\ bundle # 3
    /\ python["workspace"] = IF bundle = 1 THEN "ready" ELSE "none"
    /\ part # "environment" => bundle = 1 /\ wheels

ExtensionNext ==
    \/ /\ part = "children" /\ ChildNext
       /\ UNCHANGED <<part, mainVars, readinessVars, journalVars, launchVars, environmentVars>>
    \/ /\ part = "main" /\ MainNext
       /\ UNCHANGED <<part, childVars, readinessVars, journalVars, launchVars, environmentVars>>
    \/ /\ part = "readiness" /\ ReadinessNext
       /\ UNCHANGED <<part, childVars, mainVars, journalVars, launchVars, environmentVars>>
    \/ /\ part = "journal" /\ JournalNext
       /\ UNCHANGED <<part, childVars, mainVars, readinessVars, launchVars, environmentVars>>
    \/ /\ part = "launches" /\ LaunchNext
       /\ UNCHANGED <<part, childVars, mainVars, readinessVars, journalVars, environmentVars>>
    \/ /\ part = "environment" /\ EnvironmentNext
       /\ UNCHANGED <<part, childVars, mainVars, readinessVars, journalVars, launchVars>>

ExtensionSpec == ExtensionInit /\ [][ExtensionNext]_allVars /\ ChildFairness
=============================================================================
