------------------------------- MODULE Sources -------------------------------
(***************************************************************************)
(* The numbers under which sources are shown: SourceCatalog, which numbers *)
(* paths for a session, RuntimeSourceRegistry, which keeps the text of     *)
(* sources that exist in memory only, and the three places that hand their *)
(* numbers to the client.  Frames are annotated by the program's thread at *)
(* every stop and by the receiver (pause, stackTrace); loadedSources runs  *)
(* in the receiver.  The registry holds a lock for each operation, the     *)
(* catalog holds none, so the threads meet between its steps.              *)
(***************************************************************************)
EXTENDS Naturals, Sequences, FiniteSets, FiniteSetsExt, Functions, TLC, Dictionaries

CONSTANTS
    Dynamic,     \* synthetic paths: "<string>", "<stdin>", ...
    Files,       \* paths of modules
    Threads,     \* the threads that number sources
    Receiver,    \* the one that answers requests
    Missing,     \* the content of a number that leads nowhere
    MaxNumber    \* bound on the numbers of the catalog and of the registry

ASSUME ThreadsAssumption == Receiver \in Threads
ASSUME PathsAssumption == Dynamic \cap Files = {} /\ Missing \notin Dynamic \union Files
ASSUME SourceBoundsAssumption == MaxNumber \in Nat

Paths == Dynamic \union Files
NoNumber == 0
Texts == {"source", "placeholder"}

VARIABLES
    source_references,  \* the catalog: number -> path
    path_to_ref,        \* the catalog: path -> number
    next_source_ref,    \* the catalog's next number
    by_ref,             \* the registry: number -> [path, text]
    by_path,            \* the registry: path -> number
    next_id,            \* the registry's next number of its own
    linecache,          \* synthetic paths whose text Python keeps
    modules,            \* files of the modules the program has loaded
    job,                \* what each thread is doing
    announced,          \* history: the <<path, number>> pairs the client was told
    own                 \* history: numbers the registry took from its own counter

catalog == <<source_references, path_to_ref, next_source_ref>>
registry == <<by_ref, by_path, next_id>>
python == <<linecache, modules>>
history == <<announced, own>>
sourceVars == <<catalog, registry, python, job, history>>

Idle == [at |-> "idle"]

SourceInit ==
    /\ source_references = <<>> /\ path_to_ref = <<>> /\ next_source_ref = 1
    /\ by_ref = <<>> /\ by_path = <<>> /\ next_id = 1
    /\ linecache = {} /\ modules = {}
    /\ job = [t \in Threads |-> Idle]
    /\ announced = {} /\ own = {}

At(t, place) == job[t].at = place
Go(t, next) == job' = [job EXCEPT ![t] = next]

-----------------------------------------------------------------------------
(* What a number leads to.                                                 *)

get_source_content_by_path(p) ==
    IF p \in DOMAIN by_path THEN by_ref[by_path[p]].path
    ELSE IF p \in Files THEN p ELSE Missing

\* The registry is asked first, then the catalog.
get_source_content_by_ref(r) ==
    IF r \in DOMAIN by_ref THEN by_ref[r].path
    ELSE IF r \in DOMAIN source_references
    THEN get_source_content_by_path(source_references[r])
    ELSE Missing

-----------------------------------------------------------------------------
(* RuntimeSourceRegistry.register, under its lock.                         *)

\* The next number of the registry's own that is not in use.
Fresh == CHOOSE r \in next_id..(next_id + Cardinality(DOMAIN by_ref)) :
            /\ r \notin DOMAIN by_ref
            /\ \A q \in next_id..(r - 1) : q \in DOMAIN by_ref

Enter(p, text, r) ==
    /\ by_ref' = Put(by_ref, r, [path |-> p, text |-> text])
    /\ by_path' = Put(by_path, p, r)

register(p, text, hint) ==
    IF p \in DOMAIN by_path THEN UNCHANGED <<registry, own>>
    ELSE IF hint # NoNumber /\ hint \notin DOMAIN by_ref
    THEN Enter(p, text, hint) /\ UNCHANGED <<next_id, own>>
    ELSE /\ Fresh <= MaxNumber
         /\ Enter(p, text, Fresh)
         /\ next_id' = Fresh + 1
         /\ own' = own \union {Fresh}

-----------------------------------------------------------------------------
(* SourceCatalog.get_or_create_source_ref, which holds no lock.            *)

\* Where a thread goes with the number it found or made: a dynamic source is
\* registered under it, a file is listed.
Numbered(t, r) ==
    IF job[t].path \in Dynamic
    THEN [at |-> "register", path |-> job[t].path, text |-> job[t].text, ref |-> r]
    ELSE [at |-> "files", got |-> job[t].got \ {job[t].path},
          listed |-> job[t].listed \union {<<job[t].path, r>>}]

get_ref_for_path(t) ==
    /\ At(t, "find")
    /\ LET p == job[t].path IN
       Go(t, IF p \in DOMAIN path_to_ref THEN Numbered(t, path_to_ref[p])
             ELSE [job[t] EXCEPT !.at = "take"])
    /\ UNCHANGED <<catalog, registry, python, history>>

\* (the mutant counts the numbers in the table)
M_TakeNumber(t) ==
    /\ At(t, "take") /\ next_source_ref <= MaxNumber
    /\ Go(t, [job[t] EXCEPT !.at = "meta", !.ref = Cardinality(DOMAIN source_references) + 1])
    /\ next_source_ref' = next_source_ref + 1
    /\ UNCHANGED <<source_references, path_to_ref, registry, python, history>>

TakeNumber(t) ==
    /\ At(t, "take") /\ next_source_ref <= MaxNumber
    /\ Go(t, [job[t] EXCEPT !.at = "meta", !.ref = next_source_ref])
    /\ next_source_ref' = next_source_ref + 1
    /\ UNCHANGED <<source_references, path_to_ref, registry, python, history>>

StoreMeta(t) ==
    /\ At(t, "meta")
    /\ source_references' = Put(source_references, job[t].ref, job[t].path)
    /\ Go(t, [job[t] EXCEPT !.at = "path"])
    /\ UNCHANGED <<path_to_ref, next_source_ref, registry, python, history>>

StorePath(t) ==
    /\ At(t, "path")
    /\ path_to_ref' = Put(path_to_ref, job[t].path, job[t].ref)
    /\ Go(t, Numbered(t, job[t].ref))
    /\ UNCHANGED <<source_references, next_source_ref, registry, python, history>>

-----------------------------------------------------------------------------
(* annotate_stack_frames_with_source_refs for one frame.                   *)

annotate_stack_frames_with_source_refs(t, p) ==
    /\ At(t, "idle") /\ p \in Dynamic
    /\ Go(t, [at |-> "lookup", path |-> p, text |-> "placeholder", ref |-> NoNumber])
    /\ UNCHANGED <<catalog, registry, python, history>>

\* get_or_register_from_linecache: an entry there already, ...
get_by_path(t) ==
    /\ At(t, "lookup")
    /\ LET p == job[t].path IN
       Go(t, IF p \in DOMAIN by_path
             THEN [job[t] EXCEPT !.at = "find", !.text = by_ref[by_path[p]].text]
             ELSE [job[t] EXCEPT !.at = "getlines"])
    /\ UNCHANGED <<catalog, registry, python, history>>

\* ... or the lines that Python keeps; without any a placeholder is registered.
getlines(t) ==
    /\ At(t, "getlines")
    /\ Go(t, IF job[t].path \in linecache
             THEN [job[t] EXCEPT !.at = "registerOwn", !.text = "source"]
             ELSE [job[t] EXCEPT !.at = "find"])
    /\ UNCHANGED <<catalog, registry, python, history>>

\* The text found is registered before the catalog has numbered the path.
get_or_register_from_linecache(t) ==
    /\ At(t, "registerOwn")
    /\ register(job[t].path, job[t].text, NoNumber)
    /\ Go(t, [job[t] EXCEPT !.at = "find"])
    /\ UNCHANGED <<catalog, python, announced>>

\* The catalog's number is what the frame shows, whichever the registry keeps.
register_dynamic_source(t) ==
    /\ At(t, "register")
    /\ register(job[t].path, job[t].text, job[t].ref)
    /\ announced' = announced \union {<<job[t].path, job[t].ref>>}
    /\ Go(t, Idle)
    /\ UNCHANGED <<catalog, python>>

-----------------------------------------------------------------------------
(* loadedSources.                                                          *)

handle_loaded_sources ==
    /\ At(Receiver, "idle")
    /\ Go(Receiver, [at |-> "collect", size |-> Cardinality(modules), got |-> {}])
    /\ UNCHANGED <<catalog, registry, python, history>>

\* sys.modules is walked as it stands: an import meanwhile ends the request.
_collect_module_sources ==
    /\ At(Receiver, "collect")
    /\ LET j == job[Receiver] IN
       \/ /\ Cardinality(modules) # j.size
          /\ Go(Receiver, Idle)
       \/ /\ Cardinality(modules) = j.size
          /\ \E f \in modules \ j.got : Go(Receiver, [j EXCEPT !.got = j.got \union {f}])
       \/ /\ Cardinality(modules) = j.size /\ j.got = modules
          /\ Go(Receiver, [at |-> "files", got |-> j.got, listed |-> {}])
    /\ UNCHANGED <<catalog, registry, python, history>>

NumberNextFile ==
    /\ At(Receiver, "files")
    /\ LET j == job[Receiver] IN
       \E f \in j.got :
          Go(Receiver, [at |-> "find", path |-> f, ref |-> NoNumber, got |-> j.got,
                        listed |-> j.listed])
    /\ UNCHANGED <<catalog, registry, python, history>>

\* The dynamic sources are listed under the registry's numbers.
_collect_dynamic_sources ==
    /\ At(Receiver, "files") /\ job[Receiver].got = {}
    /\ announced' = announced \union job[Receiver].listed
                    \union {<<by_ref[r].path, r>> : r \in DOMAIN by_ref}
    /\ Go(Receiver, Idle)
    /\ UNCHANGED <<catalog, registry, python, own>>

-----------------------------------------------------------------------------
(* The program.                                                            *)

Import(f) ==
    /\ f \in Files \ modules
    /\ modules' = modules \union {f}
    /\ UNCHANGED <<catalog, registry, linecache, job, history>>

Compile(p) ==
    /\ p \in Dynamic \ linecache
    /\ linecache' = linecache \union {p}
    /\ UNCHANGED <<catalog, registry, modules, job, history>>

-----------------------------------------------------------------------------

Annotate(t) ==
    \/ \E p \in Dynamic : annotate_stack_frames_with_source_refs(t, p)
    \/ get_by_path(t)
    \/ getlines(t)
    \/ get_or_register_from_linecache(t)
    \/ register_dynamic_source(t)

get_or_create_source_ref(t) ==
    get_ref_for_path(t) \/ TakeNumber(t) \/ StoreMeta(t) \/ StorePath(t)

LoadedSources ==
    \/ handle_loaded_sources
    \/ _collect_module_sources
    \/ NumberNextFile
    \/ _collect_dynamic_sources

SourceNext ==
    \/ \E t \in Threads : Annotate(t) \/ get_or_create_source_ref(t)
    \/ LoadedSources
    \/ \E f \in Files : Import(f)
    \/ \E p \in Dynamic : Compile(p)

SourceSpec == SourceInit /\ [][SourceNext]_sourceVars

-----------------------------------------------------------------------------

\* A number the client was told leads to the source it was told for, however
\* many threads were numbering sources then and since, unless the registry had
\* given that number away by itself.
AnnouncedResolves ==
    \A a \in announced : a[2] \in own \/ get_source_content_by_ref(a[2]) = a[1]

=============================================================================
