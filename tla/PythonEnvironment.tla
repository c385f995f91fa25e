--------------------------- MODULE PythonEnvironment ---------------------------
(***************************************************************************)
(* The Python environment the extension prepares before it starts Dapper   *)
(* (EnvironmentManager, environmentInstall, environmentSelection).  Dapper *)
(* is either installed into an interpreter or unpacked into a directory of *)
(* its version that goes to PYTHONPATH.  A manifest on disk says which     *)
(* build is there, so that the next preparation may take it as it is.      *)
(*                                                                         *)
(* The debug adapter and the no-debug launcher have a manager each; a      *)
(* manager prepares once at a time (whoever asks meanwhile is given the    *)
(* same promise).  Every await is a step, every step with a process may    *)
(* fail, and the extension host may go away at any time, to come back with *)
(* the same or another build in its resources.                             *)
(***************************************************************************)
EXTENDS Naturals, FiniteSets

CONSTANTS
    Managers,           \* EnvironmentManagers of the extension host
    Builds,             \* wheels the extension has come with
    VersionOf,          \* the version of each; rebuilt wheels share one
    Requests,           \* [mode, force, preferred, allow]
    Nothing,            \* no manifest, no build
    MaxHosts,           \* bound on the extension hosts, one after the other
    MaxPreparations     \* bound on the preparations

ASSUME EnvironmentBounds == MaxHosts \in Nat /\ MaxPreparations \in Nat
ASSUME BuildsAssumption == Nothing \notin Builds /\ Nothing \notin {"lib reused", "managed reused"}

Versions == {VersionOf[b] : b \in Builds}
Places == {"preferred", "workspace", "managed"}

VARIABLES
    bundle,         \* the build in the extension's resources
    wheels,         \* it comes with a wheel at all; else PyPI is asked
    site,           \* what each interpreter has of Dapper
    python,         \* interpreters: "none", without pip, or ready
    dapper_env,     \* dapper-env.json, the manifest of the managed interpreter
    lib,            \* the directory of each version
    dapper_lib,     \* dapper-lib.json, the manifest of the directories
    progress,       \* what each manager is doing
    overwritten,    \* history: builds touched on disk since their manifest was written
    hosts, preparations

environmentVars == <<bundle, wheels, site, python, dapper_env, lib, dapper_lib, progress,
                     overwritten, hosts, preparations>>
disk == <<site, python, dapper_env, lib, dapper_lib, overwritten>>
counters == <<bundle, wheels, hosts, preparations>>

\* Files of one build, all of them or some; "entry" is whether the few that
\* the extension looks at are there.
Content(b, whole, entry) == [build |-> b, whole |-> whole, entry |-> entry]
Bare == Content(Nothing, FALSE, FALSE)
Whole(b) == Content(b, TRUE, TRUE)
HasVersion(c, v) == c.build # Nothing /\ VersionOf[c.build] = v
Version == VersionOf[bundle]

Resting == [at |-> "idle", answer |-> Nothing]
Stores == {"lib", "managed"}

EnvironmentInit ==
    /\ bundle \in Builds /\ wheels \in BOOLEAN
    /\ site \in [Places -> {Bare} \union {Whole(b) : b \in Builds}]
    /\ site["managed"] = Bare
    /\ python \in [Places -> {"none", "ready"}]
    /\ python["managed"] = "none" /\ python["preferred"] = "ready"
    /\ dapper_env = Nothing
    /\ lib = [v \in Versions |-> Bare]
    /\ dapper_lib = Nothing
    /\ progress = [m \in Managers |-> Resting]
    /\ overwritten = [s \in Stores |-> {}]
    /\ hosts = 1 /\ preparations = 0

-----------------------------------------------------------------------------
(* The way through _prepare.                                               *)

At(m, place) == progress[m].at = place
Asked(m) == progress[m].request

GoOn(m, place) == progress' = [progress EXCEPT ![m].at = place]
Finish(m, how) == progress' = [progress EXCEPT ![m] = [at |-> "idle", answer |-> how]]

AfterPreferred(q) == IF q.mode = "auto" THEN "workspace" ELSE "managed"

PrepareOnce(m, q) ==
    /\ At(m, "idle") /\ preparations < MaxPreparations
    /\ preparations' = preparations + 1
    /\ IF q.mode = "workspace" THEN Finish(m, "interpreter")
       ELSE progress' = [progress EXCEPT ![m] =
              [at |-> IF q.preferred THEN "preferred" ELSE AfterPreferred(q), request |-> q,
               for |-> "managed", importable |-> FALSE, disturbed |-> FALSE]]
    /\ UNCHANGED <<disk, bundle, wheels, hosts>>

\* Without a library: what there is, an installation if the user allows it, or
\* the way of an extension without a preferred interpreter.
WithoutLibrary(m, importable) ==
    IF importable THEN Finish(m, "interpreter")
    ELSE IF Asked(m).allow THEN GoOn(m, "pip")
    ELSE GoOn(m, AfterPreferred(Asked(m)))

tryPreferredInterpreter(m) ==
    /\ At(m, "preferred")
    /\ LET c == site["preferred"] IN
       IF ~Asked(m).force /\ c.entry /\ (HasVersion(c, Version) \/ ~wheels)
       THEN Finish(m, "interpreter")
       ELSE IF wheels
       THEN progress' = [progress EXCEPT ![m].at = "library", ![m].for = "preferred",
                                           ![m].importable = c.entry]
       ELSE IF ~c.entry /\ Asked(m).allow
       THEN progress' = [progress EXCEPT ![m].at = "pip", ![m].for = "preferred"]
       ELSE WithoutLibrary(m, c.entry)
    /\ UNCHANGED <<disk, counters>>

tryWorkspaceVenv(m) ==
    /\ At(m, "workspace")
    /\ LET c == site["workspace"] IN
       IF python["workspace"] = "none" THEN GoOn(m, "ask")
       ELSE IF ~Asked(m).force /\ c.entry /\ HasVersion(c, Version)
       THEN Finish(m, "interpreter")
       ELSE IF wheels
       THEN progress' = [progress EXCEPT ![m].at = "library", ![m].for = "workspace"]
       ELSE GoOn(m, "ask")
    /\ UNCHANGED <<disk, counters>>

\* The user is asked; python -m venv leaves what is installed where it is.
createWorkspaceVenvOrAbort(m) ==
    /\ At(m, "ask")
    /\ \/ Finish(m, "failed") /\ UNCHANGED python
       \/ /\ progress' = [progress EXCEPT ![m].at = IF wheels THEN "library" ELSE "pip",
                                          ![m].for = "created"]
          /\ python' = [python EXCEPT !["workspace"] = "ready"]
    /\ UNCHANGED <<site, dapper_env, lib, dapper_lib, overwritten, counters>>

Place(m) == IF progress[m].for = "created" THEN "workspace" ELSE progress[m].for

\* ensureDapperLib has given up.
NoLibrary(m) ==
    CASE progress[m].for = "preferred" -> WithoutLibrary(m, progress[m].importable)
      [] progress[m].for = "workspace" -> GoOn(m, "ask")
      [] OTHER -> GoOn(m, "pip")

-----------------------------------------------------------------------------
(* Two managers on one disk.                                               *)

Others(m, steps) == \E n \in Managers \ {m} : progress[n].at \in steps

\* Files go from under the managers that are at these steps.
Disturbing(m, steps, mine) ==
    [n \in Managers |-> IF n = m THEN mine
                        ELSE IF progress[n].at \in steps
                        THEN [progress[n] EXCEPT !.disturbed = TRUE] ELSE progress[n]]

Touched(s, manifest) ==
    IF manifest = Nothing THEN overwritten ELSE [overwritten EXCEPT ![s] = @ \union {manifest}]

\* A manifest stands for what is on disk, unless another manager has changed
\* that meanwhile or is about to.
Accounted(s, m, steps) ==
    [overwritten EXCEPT ![s] = IF progress[m].disturbed \/ Others(m, steps) THEN {bundle} ELSE {}]

-----------------------------------------------------------------------------
(* ensureDapperLib: look, remove, unpack, record.                          *)

Unpacking == {"extracting", "record"}
InLibrary == {"remove", "removing"} \union Unpacking

ensureDapperLib(m) ==
    /\ At(m, "library")
    /\ IF ~Asked(m).force /\ dapper_lib = bundle /\ lib[Version].entry
       THEN Finish(m, "lib reused")
       ELSE GoOn(m, "remove")
    /\ UNCHANGED <<disk, counters>>

Extracting(m) ==
    Disturbing(m, IF At(m, "removing") THEN Unpacking ELSE {},
               [progress[m] EXCEPT !.at = "extracting", !.disturbed = FALSE])

\* (the mutant writes the manifest before it unpacks the wheel)
M_BeginExtraction(m) ==
    /\ progress' = Extracting(m)
    /\ \E entry \in BOOLEAN : lib' = [lib EXCEPT ![Version] = Content(bundle, FALSE, entry)]
    /\ dapper_lib' = bundle

BeginExtraction(m) ==
    /\ progress' = Extracting(m)
    /\ \E entry \in BOOLEAN : lib' = [lib EXCEPT ![Version] = Content(bundle, FALSE, entry)]
    /\ UNCHANGED dapper_lib

\* A directory that is there is removed, file by file.
RemoveDirectory(m) ==
    /\ At(m, "remove")
    /\ IF lib[Version].build = Nothing
       THEN BeginExtraction(m) /\ UNCHANGED overwritten
       ELSE /\ progress' = Disturbing(m, Unpacking, [progress[m] EXCEPT !.at = "removing"])
            /\ \E entry \in {FALSE, lib[Version].entry} :
                  lib' = [lib EXCEPT ![Version].whole = FALSE, ![Version].entry = entry]
            /\ overwritten' = IF dapper_lib # Nothing /\ VersionOf[dapper_lib] = Version
                              THEN Touched("lib", dapper_lib) ELSE overwritten
            /\ UNCHANGED dapper_lib
    /\ UNCHANGED <<site, python, dapper_env, counters>>

DirectoryRemoved(m) ==
    /\ At(m, "removing")
    /\ \/ BeginExtraction(m)
       \/ Finish(m, "failed") /\ UNCHANGED <<lib, dapper_lib>>
    /\ UNCHANGED <<site, python, dapper_env, overwritten, counters>>

Unpacked(m) == IF progress[m].disturbed THEN lib ELSE [lib EXCEPT ![Version] = Whole(bundle)]

installToTargetDir(m) ==
    /\ At(m, "extracting")
    /\ \/ lib' = Unpacked(m) /\ GoOn(m, "record")
       \/ UNCHANGED lib /\ NoLibrary(m)
    /\ UNCHANGED <<site, python, dapper_env, dapper_lib, overwritten, counters>>

RecordLibrary(m) ==
    /\ At(m, "record")
    /\ IF lib[Version].entry
       THEN /\ dapper_lib' = bundle
            /\ overwritten' = Accounted("lib", m, InLibrary)
            /\ Finish(m, "lib")
       ELSE NoLibrary(m) /\ UNCHANGED <<dapper_lib, overwritten>>
    /\ UNCHANGED <<site, python, dapper_env, lib, counters>>

-----------------------------------------------------------------------------
(* The extension's own interpreter, and installations with pip.  What PyPI *)
(* has of a version is not told from the wheel of that version.            *)

Installing == {"installing", "check"}

createVenv(m) ==
    /\ At(m, "managed")
    /\ IF python["managed"] # "none"
       THEN UNCHANGED python /\ progress' = [progress EXCEPT ![m].at = "ensurepip",
                                                               ![m].for = "managed"]
       ELSE \E made \in {"none", "no pip", "ready"} :
              /\ python' = [python EXCEPT !["managed"] = made]
              /\ IF made = "ready"
                 THEN progress' = [progress EXCEPT ![m].at = "ensurepip", ![m].for = "managed"]
                 ELSE Finish(m, "failed")
    /\ UNCHANGED <<site, dapper_env, lib, dapper_lib, overwritten, counters>>

ensurePip(m) ==
    /\ At(m, "ensurepip")
    /\ \/ python' = [python EXCEPT !["managed"] = "ready"] /\ GoOn(m, "decide")
       \/ python["managed"] = "no pip" /\ UNCHANGED python /\ Finish(m, "failed")
    /\ UNCHANGED <<site, dapper_env, lib, dapper_lib, overwritten, counters>>

shouldReinstall(m) ==
    \/ Asked(m).force \/ dapper_env = Nothing
    \/ VersionOf[dapper_env] # Version
    \/ wheels /\ dapper_env # bundle

Decide(m) ==
    /\ At(m, "decide")
    /\ IF ~shouldReinstall(m)
       THEN progress' = [progress EXCEPT ![m].at = "verify", ![m].disturbed = FALSE]
       ELSE IF Asked(m).mode = "wheel" /\ ~wheels THEN Finish(m, "failed")
       ELSE GoOn(m, "pip")
    /\ UNCHANGED <<disk, counters>>

\* pip fails before it changes anything, or finds the version there already;
\* or it begins.
BeginInstall(m) ==
    /\ At(m, "pip")
    /\ \/ /\ \/ Finish(m, "failed")
             \/ /\ Place(m) # "managed" /\ ~Asked(m).force /\ HasVersion(site[Place(m)], Version)
                /\ Finish(m, "interpreter")
          /\ UNCHANGED <<site, overwritten>>
       \/ /\ progress' = Disturbing(m, IF Place(m) = "managed"
                                             THEN {"verify"} \union Installing ELSE {},
                              [progress[m] EXCEPT !.at = "installing", !.disturbed = FALSE])
          /\ \E entry \in BOOLEAN :
                site' = [site EXCEPT ![Place(m)] = Content(bundle, FALSE, entry)]
          /\ overwritten' = IF Place(m) = "managed" THEN Touched("managed", dapper_env)
                            ELSE overwritten
    /\ UNCHANGED <<python, dapper_env, lib, dapper_lib, counters>>

Installed(m) ==
    IF progress[m].disturbed THEN site ELSE [site EXCEPT ![Place(m)] = Whole(bundle)]

EndInstall(m) ==
    /\ At(m, "installing")
    /\ \/ /\ site' = Installed(m)
          /\ IF Place(m) = "managed" THEN GoOn(m, "check") ELSE Finish(m, "interpreter")
       \/ UNCHANGED site /\ Finish(m, "failed")
    /\ UNCHANGED <<python, dapper_env, lib, dapper_lib, overwritten, counters>>

\* Only a wheel is tried; the second installation of a stale one leaves the
\* manifest, which is right, alone.
RecordInstallation(m) ==
    /\ At(m, "check")
    /\ IF site["managed"].entry \/ Asked(m).mode = "pypi"
       THEN /\ dapper_env' = bundle
            /\ overwritten' = Accounted("managed", m, {"pip"} \union Installing)
            /\ Finish(m, "managed")
       ELSE Finish(m, "failed") /\ UNCHANGED <<dapper_env, overwritten>>
    /\ UNCHANGED <<site, python, lib, dapper_lib, counters>>

\* The launcher is looked for in what the manifest says is there; in its place
\* the wheel is installed, whatever was asked for.
VerifyReuse(m) ==
    /\ At(m, "verify")
    /\ IF site["managed"].entry THEN Finish(m, "managed reused") /\ UNCHANGED dapper_env
       ELSE IF wheels
       THEN /\ progress' = [progress EXCEPT ![m].at = "pip", ![m].request.mode = "wheel"]
            /\ UNCHANGED dapper_env
       ELSE dapper_env' = Nothing /\ Finish(m, "failed")
    /\ UNCHANGED <<site, python, lib, dapper_lib, overwritten, counters>>

-----------------------------------------------------------------------------
\* The extension host goes away.  A process it had started stops there or runs
\* to its end; a manifest that was being written may be cut short, and is then
\* read as none.
Restart(b) ==
    /\ hosts < MaxHosts /\ hosts' = hosts + 1
    /\ bundle' = b
    /\ progress' = [m \in Managers |-> Resting]
    /\ lib' \in {lib} \union {Unpacked(m) : m \in {m \in Managers : At(m, "extracting")}}
    /\ site' \in {site} \union {Installed(m) : m \in {m \in Managers : At(m, "installing")}}
    /\ dapper_lib' \in {dapper_lib, IF \E m \in Managers : At(m, "record") THEN Nothing
                                    ELSE dapper_lib}
    /\ dapper_env' \in {dapper_env, IF \E m \in Managers : At(m, "check") THEN Nothing
                                    ELSE dapper_env}
    /\ UNCHANGED <<wheels, python, overwritten, preparations>>

Preparing(m) ==
    \/ tryPreferredInterpreter(m) \/ tryWorkspaceVenv(m) \/ createWorkspaceVenvOrAbort(m)
    \/ ensureDapperLib(m) \/ RemoveDirectory(m) \/ DirectoryRemoved(m)
    \/ installToTargetDir(m) \/ RecordLibrary(m)
    \/ createVenv(m) \/ ensurePip(m) \/ Decide(m)
    \/ BeginInstall(m) \/ EndInstall(m) \/ RecordInstallation(m) \/ VerifyReuse(m)

EnvironmentNext ==
    \/ \E m \in Managers : Preparing(m) \/ \E q \in Requests : PrepareOnce(m, q)
    \/ \E b \in Builds : Restart(b)

EnvironmentSpec == EnvironmentInit /\ [][EnvironmentNext]_environmentVars

-----------------------------------------------------------------------------
Answers(m, how) == progress[m].at # "idle" /\ progress'[m].at = "idle"
                   /\ progress'[m].answer = how

\* What a manifest lets the extension take as it is, is all there and what it
\* asked for, wherever earlier preparations failed or the extension host went
\* away; unless that very build was touched again after its manifest had been
\* written: by a forced installation, on the way to another build and back, or
\* by two managers at once; or unless the manifest was dropped and Dapper
\* installed anew while the launcher was looked for.
ReusedIsWhole ==
    [][\A m \in Managers :
          /\ Answers(m, "lib reused") => \/ bundle \in overwritten["lib"]
                                         \/ lib[Version] = Whole(bundle)
          /\ Answers(m, "managed reused") =>
                \/ dapper_env \in overwritten["managed"]
                \/ dapper_env = Nothing /\ progress[m].disturbed
                \/ site["managed"].whole /\ HasVersion(site["managed"], Version)]_environmentVars
=============================================================================
