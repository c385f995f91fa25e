----------------------------- MODULE SessionJournal -----------------------------
(***************************************************************************)
(* The agent's journal of a debug session.                                 *)
(*                                                                         *)
(* StateJournal sees the adapter's events on their way to VS Code.  Each   *)
(* becomes an entry of a ring buffer under a checkpoint number; a stop     *)
(* also leaves a placeholder snapshot and asks the adapter for the real    *)
(* one, which arrives some events later.  The agent's execution tool reads *)
(* the journal: it asks for a snapshot, resumes the program, polls the     *)
(* recent entries for a stop and asks again.                               *)
(***************************************************************************)
EXTENDS Integers, Sequences, FiniteSets

CONSTANTS Capacity,     \* dapper.agent.executionHistorySize
          Recent,       \* how many entries _waitForStop looks at
          MaxEntries,   \* bound on the events
          MaxQueries    \* bound on the tool's reports

ASSUME JournalAssumption ==
    Capacity \in Nat \ {0} /\ Recent \in Nat \ {0} /\ MaxEntries \in Nat /\ MaxQueries \in Nat

VARIABLES
    stop,          \* the program's stop: its number, or 0 while it runs
    stops,         \* stops so far
    feed,          \* events on their way: [type, stop]
    buffer,        \* RingBuffer.buffer: 0..Capacity-1 -> entry
    head, count,   \* RingBuffer.head and count
    checkpoint,    \* _checkpoint
    lastSnapshot,  \* _lastSnapshot: [checkpoint, stop], its stop 0 for a placeholder's or a
                   \* running program's content; checkpoint 0 for none
    transition,    \* _lastTransition.state
    disposed,      \* _disposed
    asked,         \* snapshot requests under way, answered in order:
                   \*   [by: "capture" or "tool", checkpoint, reply (-1: none yet)]
    tool,          \* _executeAndReport: "idle", "before", "acting", "waiting", "after"
    since,         \* its checkpointBefore
    queries,       \* reports so far
    recorded,      \* history: every entry, in order
    overtaken      \* history: the tool's snapshot was asked for before the newest stop came

program == <<stop, stops, feed>>
ring == <<buffer, head, count, checkpoint, recorded>>
report == <<tool, since, queries>>
journalVars == <<program, ring, lastSnapshot, transition, disposed, asked, report, overtaken>>

NoEntry == [type |-> "none", checkpoint |-> 0]

JournalInit ==
    /\ stop = 0 /\ stops = 0 /\ feed = <<>>
    /\ buffer = [i \in 0..(Capacity - 1) |-> NoEntry] /\ head = 0 /\ count = 0
    /\ checkpoint = 0 /\ recorded = <<>>
    /\ lastSnapshot = [checkpoint |-> 0, stop |-> 0]
    /\ transition = "initializing" /\ disposed = FALSE
    /\ asked = <<>>
    /\ tool = "idle" /\ since = 0 /\ queries = 0
    /\ overtaken = FALSE

-----------------------------------------------------------------------------
(* RingBuffer.                                                             *)

push(entry) ==
    /\ buffer' = [buffer EXCEPT ![head] = entry]
    /\ head' = (head + 1) % Capacity
    /\ count' = IF count < Capacity THEN count + 1 ELSE count

\* toArray: from the oldest entry on.
toArray ==
    LET first == IF count < Capacity THEN 0 ELSE head IN
    [i \in 1..count |-> buffer[(first + i - 1) % Capacity]]

\* getRecentHistory: all.slice(-n).
getRecentHistory(n) ==
    SubSeq(toArray, IF count > n THEN count - n + 1 ELSE 1, count)

\* _recordEntry.
recordEntry(type) ==
    /\ checkpoint' = checkpoint + 1
    /\ push([type |-> type, checkpoint |-> checkpoint'])
    /\ recorded' = Append(recorded, [type |-> type, checkpoint |-> checkpoint'])

-----------------------------------------------------------------------------
(* The program and its events.                                             *)

Events == Len(feed) + checkpoint

programStops ==
    /\ stop = 0 /\ Events < MaxEntries
    /\ stops' = stops + 1 /\ stop' = stops'
    /\ feed' = Append(feed, "stopped")
    /\ UNCHANGED <<ring, lastSnapshot, transition, disposed, asked, report, overtaken>>

\* Resumed by the user.
programResumes ==
    /\ stop # 0 /\ Events < MaxEntries
    /\ stop' = 0
    /\ feed' = Append(feed, "continued")
    /\ UNCHANGED <<stops, ring, lastSnapshot, transition, disposed, asked, report, overtaken>>

programReports(type) ==
    /\ Events < MaxEntries /\ type \in {"output", "terminated"}
    /\ feed' = Append(feed, type)
    /\ UNCHANGED <<stop, stops, ring, lastSnapshot, transition, disposed, asked, report,
                   overtaken>>

-----------------------------------------------------------------------------
(* StateJournal.                                                           *)

Ask(by, at) == asked' = Append(asked, [by |-> by, checkpoint |-> at, reply |-> -1])

\* _onStopped: the entry, a placeholder, and the request for the real snapshot.
onStopped ==
    /\ transition' = "stopped"
    /\ recordEntry("stopped")
    /\ lastSnapshot' = [checkpoint |-> checkpoint', stop |-> 0]
    /\ Ask("capture", checkpoint')
    /\ overtaken' = FALSE

\* onDidSendMessage.
onDidSendMessage ==
    /\ feed # <<>> /\ ~disposed
    /\ feed' = Tail(feed)
    /\ \/ /\ Head(feed) = "stopped"
          /\ onStopped
       \/ /\ Head(feed) # "stopped"
          /\ recordEntry(Head(feed))
          /\ transition' = CASE Head(feed) = "continued"  -> "running"
                            [] Head(feed) = "terminated" -> "unknown"
                            [] OTHER                     -> transition
          /\ UNCHANGED <<lastSnapshot, asked, overtaken>>
    /\ UNCHANGED <<stop, stops, disposed, report>>

\* The adapter answers the oldest request, from where the program is now.
agentSnapshot ==
    \E i \in 1..Len(asked) :
        /\ asked[i].reply = -1 /\ \A j \in 1..(i - 1) : asked[j].reply # -1
        /\ asked' = [asked EXCEPT ![i].reply = stop]
        /\ UNCHANGED <<program, ring, lastSnapshot, transition, disposed, report, overtaken>>

\* (the mutant stores every capture)
M_captureSnapshotForEntry ==
    /\ asked # <<>> /\ Head(asked).by = "capture" /\ Head(asked).reply # -1
    /\ asked' = Tail(asked)
    /\ IF disposed
       THEN UNCHANGED <<lastSnapshot, transition>>
       ELSE /\ lastSnapshot' = [checkpoint |-> Head(asked).checkpoint, stop |-> Head(asked).reply]
            /\ transition' = "stopped"
    /\ UNCHANGED <<program, ring, disposed, report, overtaken>>

\* _captureSnapshotForEntry after its await: no later stop's snapshot is replaced, and the
\* state is "stopped" again, whatever came in between.
captureSnapshotForEntry ==
    /\ asked # <<>> /\ Head(asked).by = "capture" /\ Head(asked).reply # -1
    /\ asked' = Tail(asked)
    /\ IF disposed
       THEN UNCHANGED <<lastSnapshot, transition>>
       ELSE /\ lastSnapshot' =
                  IF lastSnapshot.checkpoint <= Head(asked).checkpoint
                  THEN [checkpoint |-> Head(asked).checkpoint, stop |-> Head(asked).reply]
                  ELSE lastSnapshot
            /\ transition' = "stopped"
    /\ UNCHANGED <<program, ring, disposed, report, overtaken>>

Stopped(entries, after) ==
    \E i \in DOMAIN entries : entries[i].type = "stopped" /\ entries[i].checkpoint > after

\* getSnapshot after its await: the answer is stored under the checkpoint of the question.
getSnapshot ==
    /\ asked # <<>> /\ Head(asked).by = "tool" /\ Head(asked).reply # -1
    /\ asked' = Tail(asked)
    /\ lastSnapshot' = [checkpoint |-> Head(asked).checkpoint, stop |-> Head(asked).reply]
    /\ overtaken' = Stopped(recorded, Head(asked).checkpoint)
    /\ tool' = IF tool = "before" THEN "acting" ELSE "idle"
    /\ UNCHANGED <<program, ring, transition, disposed, since, queries>>

\* The request is rejected: a capture is lost, the tool goes on with what there is.
snapshotFails ==
    /\ asked # <<>>
    /\ asked' = Tail(asked)
    /\ IF Head(asked).by = "tool"
       THEN /\ transition' = "error"
            /\ tool' = IF tool = "before" THEN "acting" ELSE "idle"
       ELSE UNCHANGED <<transition, tool>>
    /\ UNCHANGED <<program, ring, lastSnapshot, disposed, since, queries, overtaken>>

onWillStopSession ==
    /\ ~disposed /\ disposed' = TRUE
    /\ UNCHANGED <<program, ring, lastSnapshot, transition, asked, report, overtaken>>

-----------------------------------------------------------------------------
(* ExecutionTool._executeAndReport.                                        *)

executeAndReport ==
    /\ tool = "idle" /\ queries < MaxQueries /\ queries' = queries + 1
    /\ tool' = "before" /\ since' = checkpoint
    /\ Ask("tool", checkpoint)
    /\ UNCHANGED <<program, ring, lastSnapshot, transition, disposed, overtaken>>

\* The action: the program goes on if it is stopped.
toolResumes ==
    /\ tool = "acting"
    /\ tool' = "waiting"
    /\ IF stop # 0 /\ Events < MaxEntries
       THEN stop' = 0 /\ feed' = Append(feed, "continued")
       ELSE UNCHANGED <<stop, feed>>
    /\ UNCHANGED <<stops, ring, lastSnapshot, transition, disposed, asked, since, queries,
                   overtaken>>

\* _waitForStop: a poll that sees a stop asks for the snapshot; one that sees the end, or
\* none in fifteen seconds, gives up.
waitForStop ==
    /\ tool = "waiting"
    /\ IF Stopped(getRecentHistory(Recent), since)
       THEN tool' = "after" /\ Ask("tool", checkpoint)
       ELSE tool' = "idle" /\ UNCHANGED asked
    /\ UNCHANGED <<program, ring, lastSnapshot, transition, disposed, since, queries, overtaken>>

JournalNext ==
    \/ programStops \/ programResumes
    \/ \E type \in {"output", "terminated"} : programReports(type)
    \/ onDidSendMessage \/ agentSnapshot \/ captureSnapshotForEntry \/ getSnapshot
    \/ snapshotFails \/ onWillStopSession
    \/ executeAndReport \/ toolResumes \/ waitForStop

JournalSpec == JournalInit /\ [][JournalNext]_journalVars

-----------------------------------------------------------------------------
(* Properties.                                                             *)

\* The journal's snapshot is never of an earlier stop than the newest one recorded, however
\* late the captures arrive, unless the agent's own question was answered across a stop.
NewestStopKept ==
    overtaken \/ \A i \in DOMAIN recorded :
        recorded[i].type = "stopped" => lastSnapshot.checkpoint >= recorded[i].checkpoint


=============================================================================
