------------------------------ MODULE Inspection ------------------------------
(***************************************************************************)
(* Looking at a stopped program: the frame numbers of ThreadTracker, the   *)
(* variable references of VariableManager in the debuggee and in the       *)
(* adapter, the handlers of stackTrace, scopes, variables, evaluate,       *)
(* setVariable, goto, setDataBreakpoints and hot reload's clearing of the  *)
(* adapter's caches, and the watched variable that user_line compares with *)
(* its last value at every line.                                           *)
(*                                                                         *)
(* The client speaks to the debuggee directly (the editor extension) or    *)
(* through the adapter, which numbers scopes itself and forwards every     *)
(* other number to the debuggee.  A request and its answer are one step;   *)
(* the program's thread moves between any two of them.                     *)
(***************************************************************************)
EXTENDS Naturals, Sequences, FiniteSets, SequencesExt, Functions, Dictionaries

CONSTANTS
    Clients,     \* who may answer the client: "launcher", "adapter" or both
    Unset,       \* the watched variable before its first assignment
    Nothing,     \* what a reference that leads nowhere shows
    MaxBorn,     \* bound on the frames the program enters
    MaxRefs,     \* bound on the variable references of each process
    MaxIds,      \* bound on the frame numbers handed out
    MaxRequests  \* bound on the client's requests

ASSUME ClientsAssumption == Clients \subseteq {"launcher", "adapter"}
ASSUME UnsetAssumption == Unset \notin {0, 1}
ASSUME BoundsAssumption == /\ MaxBorn \in Nat \ {0} /\ MaxRefs \in Nat
                           /\ MaxIds \in Nat /\ MaxRequests \in Nat

Frames == 1..MaxBorn
Addresses == 1..MaxBorn
Ids == 1..MaxIds
Numbers == 1..MaxRefs
Values == {0, 1}
None == 0
Kinds == {"locals", "globals", "object"}

\* What a reference stands for: a scope of a frame, or the object in one.
Things == [kind : Kinds, frame : Frames]
Thing(k, f) == [kind |-> k, frame |-> f]
Scope(k, id) == [kind |-> k, id |-> id]

VARIABLES
    client,     \* who answers the client in this session
    stack,      \* the program's frames, the innermost last
    born,       \* how many frames there have been
    address,    \* id(frame): where each frame's object lies
    x,          \* the watched variable in each frame
    thread,     \* the program's thread: running, stopped, or waking from a stop
    marked,     \* the thread is in stopped_thread_ids
    stepping,   \* a step is under way
    armed,      \* bdb may hand any line to user_line: no continue since the last step
    breaks,     \* there are line, function or exception breakpoints
    tracker,    \* ThreadTracker: number -> frame, the thread's stack, next number
    current,    \* stepping_controller.current_frame
    refs,       \* the debuggee's VariableManager: entries and next number
    aRefs,      \* the adapter's VariableManager
    watch,      \* data_bp_state: the access type x is watched for
    last,       \* last_values_by_frame, by address
    global,     \* global_values
    known,      \* frame numbers the client has been told
    named,      \* history: references the client was given, and what they named
    looked,     \* history: x in each frame when user_line last looked at it
    told,       \* history: what the latest line of the program announced
    requests    \* requests so far

program == <<client, stack, born, address, x>>
control == <<thread, marked, stepping, armed, breaks>>
watching == <<watch, last, global, looked>>
vars == <<program, control, tracker, current, refs, aRefs, watching, known, named, told,
          requests>>

NoEntries == [at |-> <<>>, next |-> 1]

Init ==
    /\ client \in Clients
    /\ stack = <<1>> /\ born = 1 /\ address = [f \in {1} |-> 1] /\ x = [f \in {1} |-> Unset]
    /\ thread = "running" /\ marked = FALSE /\ stepping = TRUE /\ armed = TRUE /\ breaks \in BOOLEAN
    /\ tracker = [frame |-> <<>>, ids |-> <<>>, next |-> 1]
    /\ current = None
    /\ refs = NoEntries /\ aRefs = NoEntries
    /\ watch = "none" /\ last = <<>> /\ global = Unset
    /\ known = {} /\ named = {} /\ looked = [f \in {1} |-> Unset] /\ told = "nothing"
    /\ requests = 0

Top == Last(stack)

-----------------------------------------------------------------------------
(* ThreadTracker and VariableManager.                                      *)

\* Every frame of the stack gets a number of its own, the innermost first.
build_stack_frames ==
    LET n == Len(stack)
        ids == [i \in 1..n |-> tracker.next + i - 1]
        frames == [id \in Range(ids) |-> stack[n - (id - tracker.next)]]
    IN [frame |-> Update(tracker.frame, frames), ids |-> ids, next |-> tracker.next + n]

\* (the mutant also starts the numbers again)
M_clear_frames == [frame |-> <<>>, ids |-> <<>>, next |-> 1]

clear_frames == [tracker EXCEPT !.frame = <<>>, !.ids = <<>>]

RoomForFrames == tracker.next + Len(stack) - 1 <= MaxIds

Allocate(manager, entry) ==
    [at |-> Put(manager.at, manager.next, entry), next |-> manager.next + 1]

Room(manager, n) == manager.next + n - 1 <= MaxRefs

\* (the mutant keeps the numbers of the frames it showed last for this frame)
M_emit_stopped_event ==
    /\ RoomForFrames
    /\ tracker' = IF current = Top THEN tracker ELSE build_stack_frames
    /\ current' = Top
    /\ marked' = TRUE

_emit_stopped_event ==
    /\ RoomForFrames
    /\ tracker' = build_stack_frames
    /\ current' = Top
    /\ marked' = TRUE

-----------------------------------------------------------------------------
(* The watched variable.                                                   *)

\* (the mutant prefers the value last seen in any frame)
M_OldValue(f) ==
    IF global # Unset THEN global
    ELSE IF address[f] \in DOMAIN last THEN last[address[f]] ELSE Unset

\* The value to compare with: the one seen at this address, else the last one seen.
OldValue(f) ==
    IF address[f] \in DOMAIN last THEN last[address[f]] ELSE global

check_for_changes(f, v) ==
    watch \in {"write", "readWrite"} /\ Unset \notin {v, OldValue(f)} /\ OldValue(f) # v

update_snapshots(f, v) ==
    IF watch \in {"write", "readWrite"}
    THEN /\ IF v = Unset
            THEN /\ last' = Restrict(last, DOMAIN last \ {address[f]})
                 /\ UNCHANGED global
            ELSE /\ last' = Put(last, address[f], v)
                 /\ global' = v
         /\ looked' = [looked EXCEPT ![f] = v]
    ELSE UNCHANGED <<last, global, looked>>

-----------------------------------------------------------------------------
(* The program's thread.                                                   *)

\* Addresses that no frame holds which something still refers to.
Held == {address[f] : f \in Range(stack) \union Range(tracker.frame) \union ({current} \ {None})}

Call ==
    /\ thread = "running" /\ born < MaxBorn
    /\ \E a \in Addresses \ Held : address' = Put(address, born + 1, a)
    /\ born' = born + 1
    /\ stack' = Append(stack, born + 1)
    /\ x' = Put(x, born + 1, Unset)
    /\ looked' = Put(looked, born + 1, Unset)
    /\ told' = "nothing"
    /\ UNCHANGED <<client, control, tracker, current, refs, aRefs, watch, last, global, known,
                   named, requests>>

Return ==
    /\ thread = "running" /\ Len(stack) > 1
    /\ stack' = Front(stack)
    /\ told' = "nothing"
    /\ UNCHANGED <<client, born, address, x, control, tracker, current, refs, aRefs, watching, known,
                   named, requests>>

\* What x may hold after a statement: a new value or the one it had.
Results == Values \union {x[Top]}

\* A statement that leaves v in x, and bdb does not call user_line: the program
\* continues, or a step goes over the call.
Unseen(v) ==
    /\ thread = "running"
    /\ x' = [x EXCEPT ![Top] = v]
    /\ told' = "nothing"
    /\ UNCHANGED <<client, stack, born, address, control, tracker, current, refs, aRefs, watching,
                   known, named, requests>>

\* The same, and then user_line.  A change is announced without waiting.
user_line(v) ==
    /\ thread = "running"
    /\ armed \/ breaks
    /\ x' = [x EXCEPT ![Top] = v]
    /\ update_snapshots(Top, v)
    /\ IF check_for_changes(Top, v)
       THEN /\ _emit_stopped_event
            /\ told' = "change"
            /\ UNCHANGED <<thread, stepping, armed>>
       ELSE \/ /\ breaks
               /\ _emit_stopped_event
               /\ told' = "breakpoint"
               /\ thread' = "stopped"
               /\ UNCHANGED <<stepping, armed>>
            \/ /\ stepping
               /\ _emit_stopped_event
               /\ told' = "step"
               /\ thread' = "stopped"
               /\ stepping' = FALSE
               /\ UNCHANGED armed
            \/ /\ ~stepping
               /\ armed' = FALSE
               /\ told' = "nothing"
               /\ UNCHANGED <<thread, marked, stepping, tracker, current>>
    /\ UNCHANGED <<client, stack, born, address, breaks, refs, aRefs, watch, known, named, requests>>

\* process_commands returns; only a stop of user_line's own forgets the frames.
Wake ==
    /\ thread = "waking"
    /\ thread' = "running"
    /\ tracker' = IF told = "step" THEN clear_frames ELSE tracker
    /\ UNCHANGED <<program, marked, stepping, armed, breaks, current, refs, aRefs, watching,
                   known, named, told, requests>>

-----------------------------------------------------------------------------
(* Requests.                                                               *)

Request == requests < MaxRequests /\ requests' = requests + 1

Name(by, r, what) == named' = named \union {[by |-> by, ref |-> r, what |-> what]}

\* A thread that is marked as stopped is resumed; it need not be waiting, since a
\* change is announced without a wait.
Resume ==
    /\ Request /\ marked
    /\ marked' = FALSE
    /\ thread' = IF thread = "stopped" THEN "waking" ELSE thread

handle_continue ==
    /\ Resume
    /\ armed' = FALSE
    /\ UNCHANGED <<program, stepping, breaks, tracker, current, refs, aRefs, watching, known,
                   named, told>>

handle_step ==
    /\ Resume
    /\ stepping' = TRUE
    /\ armed' = TRUE
    /\ UNCHANGED <<program, breaks, tracker, current, refs, aRefs, watching, known,
                   named, told>>

\* The frames of the thread as the tracker has them, whatever part was asked for.
handle_stack_trace_impl ==
    /\ Request /\ tracker.ids # <<>>
    /\ known' = known \union Range(tracker.ids)
    /\ UNCHANGED <<program, control, tracker, current, refs, aRefs, watching, named, told>>

\* Jumping moves the stopped frame, if Python lets this thread, and announces the
\* stop again.
goto ==
    /\ Request /\ thread = "stopped"
    /\ tracker.ids # <<>> /\ Head(tracker.ids) \in DOMAIN tracker.frame
    /\ _emit_stopped_event
    /\ UNCHANGED <<program, thread, stepping, armed, breaks, refs, aRefs, watching, known, named, told>>

\* The debuggee answers for frames it knows.
handle_scopes_impl(id) ==
    /\ client = "launcher"
    /\ Request /\ id \in DOMAIN tracker.frame /\ Room(refs, 2)
    /\ refs' = Allocate(Allocate(refs, Scope("locals", id)), Scope("globals", id))
    /\ named' = named \union
         {[by |-> "launcher", ref |-> refs.next, what |-> Thing("locals", tracker.frame[id])],
          [by |-> "launcher", ref |-> refs.next + 1,
           what |-> Thing("globals", tracker.frame[id])]}
    /\ UNCHANGED <<program, control, tracker, current, aRefs, watching, known, told>>

\* The adapter numbers the scopes itself and asks nobody.
get_scopes(id) ==
    /\ client = "adapter"
    /\ Request /\ Room(aRefs, 2)
    /\ aRefs' = Allocate(Allocate(aRefs, Scope("locals", id)), Scope("globals", id))
    /\ named' = IF id \notin DOMAIN tracker.frame THEN named ELSE named \union
         {[by |-> "adapter", ref |-> aRefs.next, what |-> Thing("locals", tracker.frame[id])],
          [by |-> "adapter", ref |-> aRefs.next + 1,
           what |-> Thing("globals", tracker.frame[id])]}
    /\ UNCHANGED <<program, control, tracker, current, refs, watching, known, told>>

\* What the debuggee shows for a number: an object, a scope of a frame it still
\* has, or nothing.
resolve_variables_for_reference(r) ==
    IF r \notin DOMAIN refs.at THEN Nothing
    ELSE LET e == refs.at[r] IN
         IF e.kind = "object" THEN Thing("object", e.frame)
         ELSE IF e.id \in DOMAIN tracker.frame THEN Thing(e.kind, tracker.frame[e.id])
         ELSE Nothing

Object(f) == [kind |-> "object", frame |-> f]

\* The locals of a frame hold an object, which gets a number as it is shown.
handle_variables_impl(r) ==
    LET shown == resolve_variables_for_reference(r) IN
    IF shown # Nothing /\ shown.kind = "locals"
    THEN /\ Room(refs, 1)
         /\ refs' = Allocate(refs, Object(shown.frame))
         /\ Name("launcher", refs.next, Thing("object", shown.frame))
    ELSE UNCHANGED <<refs, named>>

\* The debuggee's answer also travels as an event, and the adapter files it
\* under the same number.
handle_event_variables(r) ==
    aRefs' = IF client = "adapter"
             THEN [aRefs EXCEPT !.at = Put(aRefs.at, r, [kind |-> "cached"])]
             ELSE aRefs

get_variables(r) ==
    /\ Request
    /\ handle_variables_impl(r)
    /\ handle_event_variables(r)
    /\ UNCHANGED <<program, control, tracker, current, watching, known, told>>

\* Whatever frame was asked for, the value is that of the frame stopped in last.
handle_evaluate_impl ==
    /\ Request /\ current # None /\ Room(refs, 1)
    /\ refs' = Allocate(refs, Object(current))
    /\ Name("launcher", refs.next, Thing("object", current))
    /\ UNCHANGED <<program, control, tracker, current, aRefs, watching, known, told>>

\* The client sets x through a reference to the locals of a frame.  The adapter's
\* setVariable fails before it is sent: BaseBackend.set_variable names the number
\* variables_reference and _dispatch_set_variable asks for var_ref.
handle_set_variable_impl(r, v) ==
    LET shown == resolve_variables_for_reference(r) IN
    /\ client = "launcher"
    /\ Request
    /\ shown # Nothing /\ shown.kind = "locals"
    /\ x' = [x EXCEPT ![shown.frame] = v]
    /\ UNCHANGED <<client, stack, born, address, control, tracker, current, refs, aRefs, watching,
                   known, named, told>>

\* An assignment to an expression is carried out in the frame stopped in last,
\* whatever frame the client names, be it stopped still, running or gone.
handle_set_expression_impl(v) ==
    /\ Request /\ current # None
    /\ x' = [x EXCEPT ![current] = v]
    /\ UNCHANGED <<client, stack, born, address, control, tracker, current, refs, aRefs, watching,
                   known, named, told>>

\* Only a list that names a variable is registered: an empty one, or the dataId
\* that the debuggee's own dataBreakpointInfo returns, changes nothing.
handle_set_data_breakpoints_impl(access) ==
    /\ client = "launcher"
    /\ Request
    /\ watch' = access
    /\ UNCHANGED <<program, control, tracker, current, refs, aRefs, last, global, looked, known,
                   named, told>>

\* After a reload the adapter forgets its references and starts them again.
_invalidate_variable_caches ==
    /\ client = "adapter"
    /\ Request /\ thread = "stopped"
    /\ aRefs' = NoEntries
    /\ UNCHANGED <<program, control, tracker, current, refs, watching, known, named, told>>

-----------------------------------------------------------------------------

Program == Call \/ Return \/ Wake \/ \E v \in Results : Unseen(v) \/ user_line(v)

Ask ==
    \/ handle_continue
    \/ handle_step
    \/ handle_stack_trace_impl
    \/ goto
    \/ handle_evaluate_impl
    \/ \E v \in Values : handle_set_expression_impl(v)
    \/ _invalidate_variable_caches
    \/ \E id \in known : handle_scopes_impl(id) \/ get_scopes(id)
    \/ \E n \in named :
          get_variables(n.ref) \/ \E v \in Values : handle_set_variable_impl(n.ref, v)
    \/ \E access \in {"read", "write", "readWrite"} : handle_set_data_breakpoints_impl(access)

Next == Program \/ Ask

Spec == Init /\ [][Next]_vars

-----------------------------------------------------------------------------

\* A reference that the debuggee handed out, however long ago and however often
\* the program has stopped and gone on since, shows what it was given for or
\* nothing at all: never the variables of another frame.
ShowsWhatItNamed ==
    \A n \in named : n.by = "launcher" =>
        resolve_variables_for_reference(n.ref) \in {n.what, Nothing}

\* While the program stands still the numbers of its stack lead to the frames it
\* stands in, the innermost first, also after a jump and after any number of
\* stops before.
StackIsInspectable ==
    thread = "stopped" =>
        /\ Len(tracker.ids) = Len(stack)
        /\ \A i \in DOMAIN tracker.ids :
              /\ tracker.ids[i] \in DOMAIN tracker.frame
              /\ tracker.frame[tracker.ids[i]] = stack[Len(stack) + 1 - i]

\* A line event announces every change of the watched variable since the last
\* line event that looked at it in the same frame, whatever other frames with the
\* same variable have come, gone or lain at the same address in between.
ChangesAreAnnounced ==
    [][\A f \in 1..born :
          looked[f] # Unset /\ looked'[f] # looked[f] => told' = "change"]_vars

=============================================================================
