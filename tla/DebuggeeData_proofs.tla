-------------------------- MODULE DebuggeeData_proofs --------------------------
EXTENDS Inspection, Sources, FiniteSetTheorems, WellFoundedInduction, TLAPS

USE ClientsAssumption, UnsetAssumption, BoundsAssumption,
    ThreadsAssumption, PathsAssumption, SourceBoundsAssumption

-----------------------------------------------------------------------------
(* The inductive invariant of Inspection.                                  *)

Entries == [kind : {"locals", "globals"}, id : Nat] \union [kind : {"object"}, frame : Frames]

ProgramTypeOK ==
    /\ born \in Nat \ {0} /\ born <= MaxBorn
    /\ stack \in Seq(1..born) /\ Len(stack) >= 1
    /\ address \in [1..born -> Addresses]
    /\ x \in [1..born -> Values \union {Unset}]
    /\ looked \in [1..born -> Values \union {Unset}]
    /\ last \in [DOMAIN last -> Values] /\ DOMAIN last \subseteq Addresses
    /\ global \in Values \union {Unset}

\* A numbering of frames, and a manager of references, whose numbers are behind its counter.
TrackerOK(t) ==
    /\ t = [frame |-> t.frame, ids |-> t.ids, next |-> t.next]
    /\ t.next \in Nat /\ t.ids \in Seq(Nat)
    /\ t.frame \in [DOMAIN t.frame -> Frames]
    /\ DOMAIN t.frame \subseteq {id \in Nat : id < t.next}

ManagerOK(m) ==
    /\ m = [at |-> m.at, next |-> m.next]
    /\ m.next \in Nat
    /\ m.at \in [DOMAIN m.at -> Entries]
    /\ DOMAIN m.at \subseteq {r \in Nat : r < m.next}

NumbersTypeOK ==
    /\ TrackerOK(tracker)
    /\ current \in Frames \union {None}
    /\ ManagerOK(refs)

\* With the numbering t the entry e says w: an object is w's own, a scope's frame number has been
\* handed out and leads to w's frame or nowhere.
Says(t, e, w) ==
    IF e.kind = "object" THEN w = Thing("object", e.frame)
    ELSE /\ e.id < t.next
         /\ e.id \in DOMAIN t.frame => w = Thing(e.kind, t.frame[e.id])

NamedSays ==
    \A n \in named : n.by = "launcher" =>
        n.ref \in DOMAIN refs.at /\ Says(tracker, refs.at[n.ref], n.what)

\* Frames that are on the stack together lie at different addresses.
Apart ==
    \A f, g \in Range(stack) : address[f] = address[g] => f = g

\* What user_line saw in a frame of the stack is what is kept for its address.
Kept ==
    \A f \in Range(stack) : looked[f] # Unset =>
        /\ x[f] # Unset
        /\ address[f] \in DOMAIN last
        /\ last[address[f]] = looked[f]

\* The number of the frames and what they are.
Built(t) ==
    /\ TrackerOK(t)
    /\ t.next = tracker.next + Len(stack)
    /\ \A id \in DOMAIN t.frame : id < tracker.next =>
          id \in DOMAIN tracker.frame /\ t.frame[id] = tracker.frame[id]
    /\ Len(t.ids) = Len(stack)
    /\ \A i \in 1..Len(stack) :
          /\ t.ids[i] \in DOMAIN t.frame
          /\ t.frame[t.ids[i]] = stack[Len(stack) + 1 - i]

LEMMA ElementOf ==
    ASSUME NEW S, NEW s \in Seq(S), NEW i \in 1..Len(s)
    PROVE  s[i] \in S
OBVIOUS

LEMMA BuildsFrames ==
    ASSUME ProgramTypeOK, NumbersTypeOK
    PROVE  Built(build_stack_frames)
<1> DEFINE n == Len(stack)
           ids == [i \in 1..n |-> tracker.next + i - 1]
           new == [id \in Range(ids) |-> stack[n - (id - tracker.next)]]
           t == [frame |-> Update(tracker.frame, new), ids |-> ids, next |-> tracker.next + n]
<1>1. build_stack_frames = t
  BY DEF build_stack_frames
<1>2. n \in Nat /\ tracker.next \in Nat /\ ids \in Seq(Nat) /\ Len(ids) = n
  BY DEF ProgramTypeOK, NumbersTypeOK, TrackerOK
<1>3. \A id \in Range(ids) :
          /\ id \in Nat /\ tracker.next <= id /\ id < tracker.next + n
          /\ new[id] = stack[n - (id - tracker.next)] /\ new[id] \in Frames
  <2> TAKE id \in Range(ids)
  <2>1. PICK i \in 1..n : id = tracker.next + i - 1
    BY DEF Range
  <2>2. id \in Nat /\ tracker.next <= id /\ id < tracker.next + n
    BY <2>1, <1>2
  <2>3. n - (id - tracker.next) \in 1..n
    BY <2>1, <1>2
  <2>4. stack[n - (id - tracker.next)] \in 1..born
    BY <2>3, ElementOf DEF ProgramTypeOK
  <2>5. 1..born \subseteq Frames
    BY DEF ProgramTypeOK, Frames
  <2>6. new[id] = stack[n - (id - tracker.next)]
    OBVIOUS
  <2> QED BY <2>2, <2>4, <2>5, <2>6
<1>4. /\ DOMAIN t.frame = Range(ids) \union DOMAIN tracker.frame
      /\ \A id \in DOMAIN t.frame :
            t.frame[id] = IF id \in Range(ids) THEN new[id] ELSE tracker.frame[id]
  BY DEF Update
<1>5. t.frame \in [DOMAIN t.frame -> Frames]
  <2>1. t.frame = [id \in DOMAIN t.frame |-> t.frame[id]]
    BY DEF Update
  <2>2. \A id \in DOMAIN t.frame : t.frame[id] \in Frames
    BY <1>3, <1>4 DEF NumbersTypeOK, TrackerOK
  <2> QED BY <2>1, <2>2
<1>6. DOMAIN t.frame \subseteq {id \in Nat : id < t.next}
  <2>1. t.next = tracker.next + n
    OBVIOUS
  <2>2. \A id \in DOMAIN tracker.frame : id \in Nat /\ id < tracker.next
    BY DEF NumbersTypeOK, TrackerOK
  <2> HIDE DEF t
  <2>3. \A id \in DOMAIN t.frame : id \in Nat /\ id < tracker.next + n
    BY <1>2, <1>3, <1>4, <2>2
  <2> QED BY <2>1, <2>3
<1>7. \A id \in DOMAIN t.frame : id < tracker.next =>
          id \in DOMAIN tracker.frame /\ t.frame[id] = tracker.frame[id]
  <2> TAKE id \in DOMAIN t.frame
  <2> HAVE id < tracker.next
  <2>1. id \notin Range(ids)
    BY <1>2, <1>3
  <2> QED BY <2>1, <1>4
<1>8. \A i \in 1..n : /\ t.ids[i] \in DOMAIN t.frame
                      /\ t.frame[t.ids[i]] = stack[n + 1 - i]
  <2> TAKE i \in 1..n
  <2>1. ids[i] = tracker.next + i - 1 /\ ids[i] \in Range(ids)
    BY DEF Range
  <2>2. n - (ids[i] - tracker.next) = n + 1 - i
    BY <2>1, <1>2
  <2>3. t.ids[i] = ids[i]
    OBVIOUS
  <2> HIDE DEF ids
  <2>4. t.frame[ids[i]] = new[ids[i]] /\ new[ids[i]] = stack[n - (ids[i] - tracker.next)]
    BY <2>1, <1>4, <1>3
  <2> QED BY <2>1, <2>2, <2>3, <2>4, <1>4
<1>9. t.next = tracker.next + Len(stack) /\ t.ids = ids
  OBVIOUS
<1>10. t = [frame |-> t.frame, ids |-> t.ids, next |-> t.next]
  OBVIOUS
<1> HIDE DEF t
<1> QED BY <1>1, <1>2, <1>5, <1>6, <1>7, <1>8, <1>9, <1>10 DEF Built, TrackerOK, ProgramTypeOK, NumbersTypeOK

-----------------------------------------------------------------------------
(* Dictionaries, managers and the stack.                                   *)

LEMMA PutFacts ==
    ASSUME NEW d, NEW k, NEW v
    PROVE  /\ DOMAIN Put(d, k, v) = DOMAIN d \union {k}
           /\ Put(d, k, v) = [i \in DOMAIN d \union {k} |-> Put(d, k, v)[i]]
           /\ Put(d, k, v)[k] = v
           /\ \A i \in DOMAIN d \ {k} : Put(d, k, v)[i] = d[i]
BY DEF Put

LEMMA Allocates ==
    ASSUME NEW m, ManagerOK(m), NEW e \in Entries
    PROVE  /\ ManagerOK(Allocate(m, e))
           /\ DOMAIN Allocate(m, e).at = DOMAIN m.at \union {m.next}
           /\ Allocate(m, e).at[m.next] = e
           /\ \A r \in DOMAIN m.at : Allocate(m, e).at[r] = m.at[r]
           /\ Allocate(m, e).next = m.next + 1
<1> DEFINE a == Allocate(m, e)
<1>1. a.at = Put(m.at, m.next, e) /\ a.next = m.next + 1 /\ a = [at |-> a.at, next |-> a.next]
  BY DEF Allocate
<1>2. m.next \in Nat /\ \A r \in DOMAIN m.at : r \in Nat /\ r < m.next /\ m.at[r] \in Entries
  BY DEF ManagerOK
<1> HIDE DEF a
<1>3. /\ DOMAIN a.at = DOMAIN m.at \union {m.next}
      /\ a.at = [i \in DOMAIN a.at |-> a.at[i]]
      /\ a.at[m.next] = e
      /\ \A r \in DOMAIN m.at : a.at[r] = m.at[r]
  <2>1. \A r \in DOMAIN m.at : r \in DOMAIN m.at \ {m.next}
    BY <1>2
  <2> DEFINE p == Put(m.at, m.next, e)
  <2>2. /\ DOMAIN p = DOMAIN m.at \union {m.next}
        /\ p = [i \in DOMAIN m.at \union {m.next} |-> p[i]]
        /\ p[m.next] = e
        /\ \A i \in DOMAIN m.at \ {m.next} : p[i] = m.at[i]
    BY DEF Put
  <2>3. a.at = p
    BY <1>1
  <2> HIDE DEF p
  <2> QED BY <2>1, <2>2, <2>3
<1>4. \A r \in DOMAIN a.at : r \in Nat /\ r < a.next /\ a.at[r] \in Entries
  BY <1>1, <1>2, <1>3
<1>5. a.at \in [DOMAIN a.at -> Entries]
  BY <1>3, <1>4
<1>6. ManagerOK(a)
  BY <1>1, <1>2, <1>4, <1>5 DEF ManagerOK
<1> QED BY <1>1, <1>3, <1>6 DEF a

LEMMA TopOfStack ==
    ASSUME ProgramTypeOK
    PROVE  Top \in Range(stack) /\ Top \in 1..born /\ Range(stack) \subseteq 1..born
<1>1. Len(stack) \in DOMAIN stack /\ Top = stack[Len(stack)]
  BY DEF ProgramTypeOK, Top, Last
<1>2. Range(stack) \subseteq 1..born
  <2> SUFFICES ASSUME NEW i \in DOMAIN stack PROVE stack[i] \in 1..born
    BY DEF Range
  <2> QED BY ElementOf DEF ProgramTypeOK
<1> QED BY <1>1, <1>2 DEF Range

\* Numbers that lead somewhere keep leading there while the counter only grows and old
\* numbers are not given to other frames.
Newer(t) ==
    /\ t.next \in Nat /\ tracker.next <= t.next
    /\ \A id \in DOMAIN t.frame : id < tracker.next =>
          id \in DOMAIN tracker.frame /\ t.frame[id] = tracker.frame[id]

LEMMA SaysStands ==
    ASSUME NumbersTypeOK, Newer(tracker'), NEW e \in Entries, NEW w, Says(tracker, e, w)
    PROVE  Says(tracker', e, w)
<1>1. CASE e.kind = "object"
  BY <1>1 DEF Says
<1>2. CASE e.kind # "object"
  <2>1. e.id \in Nat
    BY <1>2 DEF Entries
  <2> QED BY <2>1, <1>2 DEF Says, Newer, NumbersTypeOK, TrackerOK
<1> QED BY <1>1, <1>2

\* References are only added, and what is newly named is named rightly.
LEMMA NamedStands ==
    ASSUME NumbersTypeOK, NamedSays, Newer(tracker'),
           \A r \in DOMAIN refs.at : r \in DOMAIN refs'.at /\ refs'.at[r] = refs.at[r],
           \A n \in named' : n \in named \/ n.by # "launcher" \/
               (n.ref \in DOMAIN refs'.at /\ Says(tracker', refs'.at[n.ref], n.what))
    PROVE  NamedSays'
<1> SUFFICES ASSUME NEW n \in named', n.by = "launcher"
             PROVE  n.ref \in DOMAIN refs'.at /\ Says(tracker', refs'.at[n.ref], n.what)
  BY DEF NamedSays
<1>1. CASE n \in named
  <2>1. n.ref \in DOMAIN refs.at /\ Says(tracker, refs.at[n.ref], n.what)
    BY <1>1 DEF NamedSays
  <2>2. refs.at[n.ref] \in Entries
    BY <2>1 DEF NumbersTypeOK, ManagerOK
  <2> QED BY <2>1, <2>2, SaysStands
<1>2. CASE n \notin named
  BY <1>2
<1> QED BY <1>1, <1>2

LEMMA Emitted ==
    ASSUME ProgramTypeOK, NumbersTypeOK, _emit_stopped_event
    PROVE  Built(tracker') /\ Newer(tracker') /\ current' \in Frames
<1>1. Built(tracker')
  BY BuildsFrames DEF _emit_stopped_event
<1>2. Newer(tracker')
  BY <1>1 DEF Built, Newer, ProgramTypeOK, NumbersTypeOK, TrackerOK
<1>3. Top \in Frames
  BY TopOfStack DEF ProgramTypeOK, Frames
<1> QED BY <1>1, <1>2, <1>3 DEF _emit_stopped_event

LEMMA NewerItself == NumbersTypeOK => Newer(tracker)
BY DEF NumbersTypeOK, TrackerOK, Newer

InspectionInv ==
    /\ ProgramTypeOK
    /\ NumbersTypeOK
    /\ NamedSays
    /\ Apart
    /\ Kept
    /\ StackIsInspectable

LEMMA InspectionStart == Init => InspectionInv
<1> SUFFICES ASSUME Init PROVE InspectionInv
  OBVIOUS
<1>1. stack \in Seq(1..born) /\ Len(stack) = 1 /\ Range(stack) = {1}
  BY DEF Init, Range
<1>2. ProgramTypeOK
  BY <1>1 DEF Init, ProgramTypeOK, Values, Addresses
<1>3. TrackerOK(tracker) /\ ManagerOK(refs)
  BY DEF Init, NoEntries, TrackerOK, ManagerOK
<1>4. NumbersTypeOK
  BY <1>3 DEF Init, NumbersTypeOK, None
<1>5. NamedSays /\ StackIsInspectable
  BY DEF Init, NamedSays, StackIsInspectable
<1>6. Apart /\ Kept
  BY <1>1 DEF Init, Apart, Kept
<1> QED BY <1>2, <1>4, <1>5, <1>6 DEF InspectionInv

-----------------------------------------------------------------------------
(* The steps of the program.                                               *)

LEMMA CallKeeps ==
    ASSUME InspectionInv, Call
    PROVE  ProgramTypeOK' /\ Apart' /\ Kept'
<1> DEFINE new == born + 1
<1>1. PICK a \in Addresses \ Held : address' = Put(address, new, a)
  BY DEF Call
<1>2. /\ born' = new /\ stack' = Append(stack, new)
      /\ x' = Put(x, new, Unset) /\ looked' = Put(looked, new, Unset)
      /\ new \in Nat \ {0} /\ new <= MaxBorn /\ new \notin 1..born
      /\ 1..new = 1..born \union {new}
      /\ last' = last /\ global' = global
  BY DEF Call, InspectionInv, ProgramTypeOK
<1>3. stack' \in Seq(1..new) /\ Len(stack') >= 1
  BY <1>2 DEF InspectionInv, ProgramTypeOK
<1>4. Range(stack') = Range(stack) \union {new}
  <2>1. DOMAIN stack' = DOMAIN stack \union {Len(stack) + 1}
    BY <1>2 DEF InspectionInv, ProgramTypeOK
  <2>2. /\ stack'[Len(stack) + 1] = new
        /\ \A i \in DOMAIN stack : stack'[i] = stack[i]
    BY <1>2 DEF InspectionInv, ProgramTypeOK
  <2> QED BY <2>1, <2>2 DEF Range
<1>5. /\ address' \in [1..new -> Addresses]
      /\ x' \in [1..new -> Values \union {Unset}]
      /\ looked' \in [1..new -> Values \union {Unset}]
  BY <1>1, <1>2 DEF InspectionInv, ProgramTypeOK, Put
<1>6. /\ \A f \in 1..born : address'[f] = address[f] /\ x'[f] = x[f] /\ looked'[f] = looked[f]
      /\ address'[new] = a /\ looked'[new] = Unset
  BY <1>1, <1>2 DEF InspectionInv, ProgramTypeOK, Put
<1>7. ProgramTypeOK'
  BY <1>2, <1>3, <1>5 DEF InspectionInv, ProgramTypeOK
<1>8. Range(stack) \subseteq 1..born /\ \A f \in Range(stack) : address[f] # a
  BY <1>1, TopOfStack DEF InspectionInv, Held
<1> HIDE DEF new
<1>9. Apart'
  BY <1>4, <1>6, <1>8 DEF InspectionInv, Apart
<1>10. Kept'
  BY <1>2, <1>4, <1>6, <1>8 DEF InspectionInv, Kept
<1> QED BY <1>7, <1>9, <1>10

LEMMA ReturnKeeps ==
    ASSUME InspectionInv, Return
    PROVE  ProgramTypeOK' /\ Apart' /\ Kept'
<1>1. /\ stack' = SubSeq(stack, 1, Len(stack) - 1)
      /\ UNCHANGED <<born, address, x, last, global, looked>>
  BY DEF Return, Front, watching
<1>2. stack' \in Seq(1..born) /\ Len(stack') >= 1
  BY SMTT(30), <1>1 DEF Return, InspectionInv, ProgramTypeOK
<1>3. Range(stack') \subseteq Range(stack)
  <2>1. \A i \in DOMAIN stack' : i \in DOMAIN stack /\ stack'[i] = stack[i]
    BY <1>1 DEF Return, InspectionInv, ProgramTypeOK
  <2> QED BY <2>1 DEF Range
<1>4. ProgramTypeOK'
  BY <1>1, <1>2 DEF InspectionInv, ProgramTypeOK
<1>5. Apart' /\ Kept'
  BY <1>1, <1>3 DEF InspectionInv, Apart, Kept
<1> QED BY <1>4, <1>5

\* A statement, or the client, leaves v in x of the frame f.
LEMMA AssignmentKeeps ==
    ASSUME InspectionInv, NEW f, NEW v \in Values \union {Unset},
           v = Unset => f \in 1..born /\ x[f] = Unset,
           x' = [x EXCEPT ![f] = v], UNCHANGED <<stack, born, address, last, global, looked>>
    PROVE  ProgramTypeOK' /\ Apart' /\ Kept'
<1>1. ProgramTypeOK'
  BY DEF InspectionInv, ProgramTypeOK
<1>2. Apart'
  BY DEF InspectionInv, Apart
<1>3. Range(stack) \subseteq 1..born
  BY TopOfStack DEF InspectionInv
<1>4. \A g \in 1..born : x[g] # Unset => x'[g] # Unset
  BY DEF InspectionInv, ProgramTypeOK, Values
<1>5. Kept'
  BY <1>3, <1>4 DEF InspectionInv, Kept
<1> QED BY <1>1, <1>2, <1>5

LEMMA RunningKeeps ==
    ASSUME InspectionInv, ProgramTypeOK', Apart', Kept',
           UNCHANGED <<tracker, current, refs, named>>, thread' = "running"
    PROVE  InspectionInv'
<1>1. NumbersTypeOK'
  BY DEF InspectionInv, NumbersTypeOK
<1>2. NamedSays'
  BY DEF InspectionInv, NamedSays
<1>3. StackIsInspectable'
  BY DEF StackIsInspectable
<1> QED BY <1>1, <1>2, <1>3 DEF InspectionInv

\* The frames are numbered anew, and the numbers lead to the stack as it is.
LEMMA EmittingKeeps ==
    ASSUME InspectionInv, ProgramTypeOK', Apart', Kept',
           UNCHANGED <<stack, refs, named>>, _emit_stopped_event
    PROVE  InspectionInv'
<1>1. Built(tracker') /\ Newer(tracker') /\ current' \in Frames
  BY Emitted DEF InspectionInv
<1>2. NumbersTypeOK'
  BY <1>1 DEF InspectionInv, NumbersTypeOK, Built
<1>3. NamedSays'
  BY <1>1, NamedStands DEF InspectionInv
<1>4. StackIsInspectable'
  <2>1. DOMAIN tracker'.ids = 1..Len(tracker'.ids) /\ Len(tracker'.ids) = Len(stack)
    BY <1>1 DEF Built, TrackerOK
  <2> QED BY <1>1, <2>1 DEF Built, StackIsInspectable
<1> QED BY <1>2, <1>3, <1>4 DEF InspectionInv

LEMMA LineKeeps ==
    ASSUME InspectionInv, NEW v \in Results, user_line(v)
    PROVE  ProgramTypeOK' /\ Apart' /\ Kept'
<1> DEFINE top == Top
<1>1. top \in Range(stack) /\ top \in 1..born /\ Range(stack) \subseteq 1..born
  BY TopOfStack DEF InspectionInv
<1>2. /\ x' = [x EXCEPT ![top] = v] /\ update_snapshots(top, v)
      /\ UNCHANGED <<stack, born, address>>
  BY DEF user_line
<1>3. v \in Values \union {Unset} /\ (v = Unset => x[top] = Unset)
  BY <1>1 DEF Results, InspectionInv, ProgramTypeOK, Values
<1> HIDE DEF top
<1>4. CASE watch \notin {"write", "readWrite"}
  <2>1. UNCHANGED <<last, global, looked>>
    BY <1>2, <1>4 DEF update_snapshots
  <2> QED BY <2>1, <1>1, <1>2, <1>3, AssignmentKeeps
<1>5. CASE watch \in {"write", "readWrite"} /\ v = Unset
  <2>1. /\ last' = Restrict(last, DOMAIN last \ {address[top]})
        /\ global' = global /\ looked' = [looked EXCEPT ![top] = v]
    BY <1>2, <1>5 DEF update_snapshots
  <2>2. ProgramTypeOK'
    BY <2>1, <1>1, <1>2, <1>3, <1>5 DEF InspectionInv, ProgramTypeOK, Restrict
  <2>3. \A g \in Range(stack) \ {top} : address[g] # address[top]
    BY <1>1 DEF InspectionInv, Apart
  <2>4. Kept'
    <3> SUFFICES ASSUME NEW g \in Range(stack), looked'[g] # Unset
                 PROVE  x'[g] # Unset /\ address[g] \in DOMAIN last' /\ last'[address[g]] = looked'[g]
      BY <1>2 DEF Kept
    <3>1. g \in 1..born /\ g # top
      BY <2>1, <1>1, <1>5 DEF InspectionInv, ProgramTypeOK
    <3>2. looked'[g] = looked[g] /\ x'[g] = x[g]
      BY <2>1, <1>2, <3>1 DEF InspectionInv, ProgramTypeOK
    <3>3. x[g] # Unset /\ address[g] \in DOMAIN last /\ last[address[g]] = looked[g]
      BY <3>2 DEF InspectionInv, Kept
    <3> QED BY <2>1, <2>3, <3>1, <3>2, <3>3 DEF Restrict
  <2>5. Apart'
    BY <1>2 DEF InspectionInv, Apart
  <2> QED BY <2>2, <2>4, <2>5
<1>6. CASE watch \in {"write", "readWrite"} /\ v # Unset
  <2>1. /\ last' = Put(last, address[top], v)
        /\ global' = v /\ looked' = [looked EXCEPT ![top] = v]
    BY <1>2, <1>6 DEF update_snapshots
  <2>2. /\ DOMAIN last' = DOMAIN last \union {address[top]}
        /\ last' = [k \in DOMAIN last' |-> last'[k]]
        /\ last'[address[top]] = v
        /\ \A k \in DOMAIN last \ {address[top]} : last'[k] = last[k]
    BY <2>1 DEF Put
  <2>3. ProgramTypeOK'
    <3>1. address[top] \in Addresses /\ v \in Values
      BY <1>1, <1>3, <1>6 DEF InspectionInv, ProgramTypeOK
    <3>2. last' \in [DOMAIN last' -> Values] /\ DOMAIN last' \subseteq Addresses
      BY <2>2, <3>1 DEF InspectionInv, ProgramTypeOK
    <3> QED BY <2>1, <3>1, <3>2, <1>2 DEF InspectionInv, ProgramTypeOK
  <2>4. \A g \in Range(stack) \ {top} : address[g] # address[top]
    BY <1>1 DEF InspectionInv, Apart
  <2>5. Kept'
    <3> SUFFICES ASSUME NEW g \in Range(stack), looked'[g] # Unset
                 PROVE  x'[g] # Unset /\ address[g] \in DOMAIN last' /\ last'[address[g]] = looked'[g]
      BY <1>2 DEF Kept
    <3>1. CASE g = top
      <4>1. looked'[g] = v /\ x'[g] = v
        BY <2>1, <1>1, <1>2, <3>1 DEF InspectionInv, ProgramTypeOK
      <4> QED BY <4>1, <2>2, <3>1, <1>6
    <3>2. CASE g # top
      <4>1. looked'[g] = looked[g] /\ x'[g] = x[g]
        BY <2>1, <1>1, <1>2, <3>2 DEF InspectionInv, ProgramTypeOK
      <4>2. x[g] # Unset /\ address[g] \in DOMAIN last /\ last[address[g]] = looked[g]
        BY <4>1 DEF InspectionInv, Kept
      <4> QED BY <4>1, <4>2, <2>2, <2>4, <3>2
    <3> QED BY <3>1, <3>2
  <2>6. Apart'
    BY <1>2 DEF InspectionInv, Apart
  <2> QED BY <2>3, <2>5, <2>6
<1> QED BY <1>4, <1>5, <1>6

\* The program runs: nothing is said of where it stands.
LEMMA ProgramKeeps ==
    ASSUME InspectionInv, Program
    PROVE  InspectionInv'
<1>1. CASE Call
  <2>1. UNCHANGED <<tracker, current, refs, named>> /\ thread' = "running"
    BY <1>1 DEF Call, control
  <2> QED BY <2>1, <1>1, CallKeeps, RunningKeeps
<1>2. CASE Return
  <2>1. UNCHANGED <<tracker, current, refs, named>> /\ thread' = "running"
    BY <1>2 DEF Return, control
  <2> QED BY <2>1, <1>2, ReturnKeeps, RunningKeeps
<1>3. ASSUME NEW v \in Results, Unseen(v) PROVE InspectionInv'
  <2>1. UNCHANGED <<tracker, current, refs, named>> /\ thread' = "running"
    BY <1>3 DEF Unseen, control
  <2>2. Top \in 1..born /\ v \in Values \union {Unset} /\ (v = Unset => x[Top] = Unset)
    BY TopOfStack DEF Results, InspectionInv, ProgramTypeOK, Values
  <2>3. x' = [x EXCEPT ![Top] = v] /\ UNCHANGED <<stack, born, address, last, global, looked>>
    BY <1>3 DEF Unseen, watching
  <2>4. ProgramTypeOK' /\ Apart' /\ Kept'
    BY <2>2, <2>3, AssignmentKeeps
  <2> QED BY <2>1, <2>4, RunningKeeps
<1>4. ASSUME NEW v \in Results, user_line(v) PROVE InspectionInv'
  <2>1. UNCHANGED <<refs, named, stack>>
    BY <1>4 DEF user_line
  <2>2. ProgramTypeOK' /\ Apart' /\ Kept'
    BY <1>4, LineKeeps
  <2>3. CASE _emit_stopped_event
    BY <2>1, <2>2, <2>3, EmittingKeeps
  <2>4. CASE ~_emit_stopped_event
    <3>1. UNCHANGED <<thread, tracker, current>> /\ thread = "running"
      BY <1>4, <2>4 DEF user_line
    <3> QED BY <2>1, <2>2, <3>1, RunningKeeps
  <2> QED BY <2>3, <2>4
<1>5. CASE Wake
  <2>1. UNCHANGED <<program, current, refs, named, watching>> /\ thread' = "running"
    BY <1>5 DEF Wake
  <2>2. ProgramTypeOK' /\ Apart' /\ Kept'
    BY <2>1 DEF InspectionInv, ProgramTypeOK, Apart, Kept, program, watching
  <2>3. TrackerOK(tracker') /\ Newer(tracker')
    <3>1. CASE tracker' = tracker
      BY <3>1, NewerItself DEF InspectionInv, NumbersTypeOK
    <3>2. CASE tracker' = clear_frames
      <4>1. tracker' = [tracker EXCEPT !.frame = <<>>, !.ids = <<>>]
        BY <3>2 DEF clear_frames
      <4>2. tracker' = [frame |-> <<>>, ids |-> <<>>, next |-> tracker.next]
        BY <4>1 DEF InspectionInv, NumbersTypeOK, TrackerOK
      <4> QED BY <4>2 DEF InspectionInv, NumbersTypeOK, TrackerOK, Newer
    <3> QED BY <1>5, <3>1, <3>2 DEF Wake
  <2>4. NumbersTypeOK'
    BY <2>1, <2>3 DEF InspectionInv, NumbersTypeOK
  <2>5. NamedSays'
    BY <2>1, <2>3, NamedStands DEF InspectionInv
  <2> QED BY <2>1, <2>2, <2>4, <2>5 DEF InspectionInv, StackIsInspectable
<1> QED BY <1>1, <1>2, <1>3, <1>4, <1>5 DEF Program

-----------------------------------------------------------------------------
(* The client's requests.                                                  *)

\* A request that leaves the program's frames as they are and gives out references.
LEMMA AskingKeeps ==
    ASSUME InspectionInv, UNCHANGED <<stack, born, address, last, global, looked, tracker, current>>,
           UNCHANGED x \/ (\E f : \E v \in Values : x' = [x EXCEPT ![f] = v]),
           thread' = "stopped" => thread = "stopped",
           ManagerOK(refs'),
           \A r \in DOMAIN refs.at : r \in DOMAIN refs'.at /\ refs'.at[r] = refs.at[r],
           \A n \in named' : n \in named \/ n.by # "launcher" \/
               (n.ref \in DOMAIN refs'.at /\ Says(tracker', refs'.at[n.ref], n.what))
    PROVE  InspectionInv'
<1>1. ProgramTypeOK' /\ Apart' /\ Kept'
  <2>1. CASE UNCHANGED x
    BY <2>1 DEF InspectionInv, ProgramTypeOK, Apart, Kept
  <2>2. ASSUME NEW f, NEW v \in Values, x' = [x EXCEPT ![f] = v]
        PROVE  ProgramTypeOK' /\ Apart' /\ Kept'
    <3>1. v \in Values \union {Unset} /\ v # Unset
      BY DEF Values
    <3> QED BY <2>2, <3>1, AssignmentKeeps
  <2> QED BY <2>1, <2>2
<1>2. NumbersTypeOK'
  BY DEF InspectionInv, NumbersTypeOK
<1>3. NamedSays'
  <2>1. Newer(tracker')
    BY NewerItself DEF InspectionInv
  <2> QED BY <2>1, NamedStands DEF InspectionInv
<1>4. StackIsInspectable'
  BY DEF InspectionInv, StackIsInspectable
<1> QED BY <1>1, <1>2, <1>3, <1>4 DEF InspectionInv

\* The request leaves the references of the debuggee alone.
LEMMA QuietKeeps ==
    ASSUME InspectionInv, UNCHANGED <<stack, born, address, last, global, looked, tracker, current, refs>>,
           UNCHANGED x \/ (\E f : \E v \in Values : x' = [x EXCEPT ![f] = v]),
           thread' = "stopped" => thread = "stopped",
           \A n \in named' : n \in named \/ n.by # "launcher"
    PROVE  InspectionInv'
<1>1. ManagerOK(refs')
  BY DEF InspectionInv, NumbersTypeOK
<1> QED BY <1>1, AskingKeeps

\* One entry more, named by one reference more.
LEMMA GivingKeeps ==
    ASSUME InspectionInv, UNCHANGED <<stack, born, address, x, last, global, looked, tracker, current, thread>>,
           NEW f \in Frames,
           refs' = Allocate(refs, Object(f)), Name("launcher", refs.next, Thing("object", f))
    PROVE  InspectionInv'
<1> DEFINE e == Object(f)
<1>1. e \in Entries /\ e.kind = "object" /\ e.frame = f
  BY DEF Object, Entries
<1>2. /\ ManagerOK(refs')
      /\ DOMAIN refs'.at = DOMAIN refs.at \union {refs.next}
      /\ refs'.at[refs.next] = e
      /\ \A r \in DOMAIN refs.at : refs'.at[r] = refs.at[r]
  BY <1>1, Allocates DEF InspectionInv, NumbersTypeOK
<1>3. Says(tracker', e, Thing("object", f))
  BY <1>1 DEF Says
<1>4. \A n \in named' : n \in named \/ (n.ref = refs.next /\ n.what = Thing("object", f))
  BY DEF Name
<1> HIDE DEF e
<1>5. \A n \in named' : n \in named \/
          (n.ref \in DOMAIN refs'.at /\ Says(tracker', refs'.at[n.ref], n.what))
  BY <1>2, <1>3, <1>4
<1> QED BY <1>2, <1>5, AskingKeeps

LEMMA AskKeeps ==
    ASSUME InspectionInv, Ask
    PROVE  InspectionInv'
<1>1. CASE handle_continue \/ handle_step
  <2>1. /\ UNCHANGED <<program, tracker, current, refs, watching, named>>
        /\ thread' = "stopped" => thread = "stopped"
    BY <1>1 DEF handle_continue, handle_step, Resume
  <2> QED BY <2>1, QuietKeeps DEF program, watching
<1>2. CASE handle_stack_trace_impl
  BY <1>2, QuietKeeps DEF handle_stack_trace_impl, program, watching, control
<1>3. CASE goto
  <2>1. /\ UNCHANGED <<stack, born, address, x, last, global, looked, refs, named>>
        /\ _emit_stopped_event
    BY <1>3 DEF goto, program, watching
  <2>2. ProgramTypeOK' /\ Apart' /\ Kept'
    BY <2>1 DEF InspectionInv, ProgramTypeOK, Apart, Kept
  <2> QED BY <2>1, <2>2, EmittingKeeps
<1>4. CASE handle_evaluate_impl
  <2>1. PICK f \in Frames : f = current
    BY <1>4 DEF handle_evaluate_impl, InspectionInv, NumbersTypeOK, None
  <2>2. /\ refs' = Allocate(refs, Object(f)) /\ Name("launcher", refs.next, Thing("object", f))
        /\ UNCHANGED <<stack, born, address, x, last, global, looked, tracker, current, thread>>
    BY <1>4, <2>1 DEF handle_evaluate_impl, program, watching, control
  <2> QED BY <2>2, GivingKeeps
<1>5. ASSUME NEW v \in Values, handle_set_expression_impl(v) PROVE InspectionInv'
  BY <1>5, QuietKeeps DEF handle_set_expression_impl, watching, control
<1>6. CASE _invalidate_variable_caches
  BY <1>6, QuietKeeps DEF _invalidate_variable_caches, program, watching, control
<1>7. ASSUME NEW id, handle_scopes_impl(id) PROVE InspectionInv'
  <2> DEFINE f == tracker.frame[id]
             locals == Scope("locals", id)
             globals == Scope("globals", id)
             one == Allocate(refs, locals)
  <2>1. /\ id \in DOMAIN tracker.frame
        /\ refs' = Allocate(one, globals)
        /\ named' = named \union
             {[by |-> "launcher", ref |-> refs.next, what |-> Thing("locals", f)],
              [by |-> "launcher", ref |-> refs.next + 1, what |-> Thing("globals", f)]}
        /\ UNCHANGED <<stack, born, address, x, last, global, looked, tracker, current, thread>>
    BY <1>7 DEF handle_scopes_impl, program, watching, control
  <2>2. id \in Nat /\ id < tracker.next
    BY <2>1 DEF InspectionInv, NumbersTypeOK, TrackerOK
  <2>3. /\ locals \in Entries /\ globals \in Entries
        /\ locals.kind = "locals" /\ globals.kind = "globals" /\ locals.id = id /\ globals.id = id
    BY <2>2 DEF Scope, Entries
  <2>4. /\ Says(tracker, locals, Thing("locals", f))
        /\ Says(tracker, globals, Thing("globals", f))
    BY <2>2, <2>3 DEF Says
  <2> HIDE DEF locals, globals
  <2>5. /\ ManagerOK(one)
        /\ DOMAIN one.at = DOMAIN refs.at \union {refs.next}
        /\ one.at[refs.next] = locals
        /\ \A r \in DOMAIN refs.at : one.at[r] = refs.at[r]
        /\ one.next = refs.next + 1
    BY <2>3, Allocates DEF InspectionInv, NumbersTypeOK
  <2> HIDE DEF one
  <2>6. /\ ManagerOK(refs')
        /\ DOMAIN refs'.at = DOMAIN one.at \union {one.next}
        /\ refs'.at[one.next] = globals
        /\ \A r \in DOMAIN one.at : refs'.at[r] = one.at[r]
    BY <2>1, <2>3, <2>5, Allocates
  <2>7. \A r \in DOMAIN refs.at : r \in DOMAIN refs'.at /\ refs'.at[r] = refs.at[r]
    BY <2>5, <2>6
  <2>8. /\ refs.next \in DOMAIN refs'.at /\ refs'.at[refs.next] = locals
        /\ refs.next + 1 \in DOMAIN refs'.at /\ refs'.at[refs.next + 1] = globals
    BY <2>5, <2>6
  <2> HIDE DEF f
  <2>9. \A n \in named' :
          \/ n \in named
          \/ n.ref = refs.next /\ n.what = Thing("locals", f)
          \/ n.ref = refs.next + 1 /\ n.what = Thing("globals", f)
    BY <2>1
  <2>10. \A n \in named' : n \in named \/
             (n.ref \in DOMAIN refs'.at /\ Says(tracker', refs'.at[n.ref], n.what))
    BY <2>1, <2>4, <2>8, <2>9
  <2> QED BY <2>1, <2>6, <2>7, <2>10, AskingKeeps
<1>8. ASSUME NEW id, get_scopes(id) PROVE InspectionInv'
  <2>1. \A n \in named' : n \in named \/ n.by = "adapter"
    BY <1>8 DEF get_scopes
  <2> QED BY <1>8, <2>1, QuietKeeps DEF get_scopes, program, watching, control
<1>9. ASSUME NEW r, get_variables(r) PROVE InspectionInv'
  <2>1. UNCHANGED <<stack, born, address, x, last, global, looked, tracker, current, thread>>
    BY <1>9 DEF get_variables, program, watching, control
  <2>2. handle_variables_impl(r)
    BY <1>9 DEF get_variables
  <2> DEFINE shown == resolve_variables_for_reference(r)
  <2>3. CASE shown # Nothing /\ shown.kind = "locals"
    <3>1. shown.frame \in Frames
      BY <2>3 DEF resolve_variables_for_reference, Thing, InspectionInv, NumbersTypeOK, TrackerOK
    <3>2. refs' = Allocate(refs, Object(shown.frame))
          /\ Name("launcher", refs.next, Thing("object", shown.frame))
      BY <2>2, <2>3 DEF handle_variables_impl
    <3> HIDE DEF shown
    <3> QED BY <2>1, <3>1, <3>2, GivingKeeps
  <2>4. CASE ~(shown # Nothing /\ shown.kind = "locals")
    <3>1. UNCHANGED <<refs, named>>
      BY <2>2, <2>4 DEF handle_variables_impl
    <3> QED BY <2>1, <3>1, QuietKeeps
  <2> QED BY <2>3, <2>4
<1>10. ASSUME NEW r, NEW v \in Values, handle_set_variable_impl(r, v) PROVE InspectionInv'
  <2>1. PICK f : f = resolve_variables_for_reference(r).frame
    OBVIOUS
  <2>2. /\ UNCHANGED <<stack, born, address, last, global, looked, tracker, current, refs, named, thread>>
        /\ x' = [x EXCEPT ![f] = v]
    BY <1>10, <2>1 DEF handle_set_variable_impl, watching, control
  <2> QED BY <2>2, QuietKeeps
<1>11. ASSUME NEW access, handle_set_data_breakpoints_impl(access) PROVE InspectionInv'
  BY <1>11, QuietKeeps DEF handle_set_data_breakpoints_impl, program, control
<1> QED BY <1>1, <1>2, <1>3, <1>4, <1>5, <1>6, <1>7, <1>8, <1>9, <1>10, <1>11 DEF Ask

-----------------------------------------------------------------------------
(* The theorems.                                                           *)

LEMMA InspectionInvariant == Spec => []InspectionInv
<1>1. InspectionInv /\ [Next]_vars => InspectionInv'
  <2>1. ASSUME InspectionInv, UNCHANGED vars PROVE InspectionInv'
    <3>1. UNCHANGED <<stack, born, address, x, last, global, looked, tracker, current, refs, named, thread>>
      BY <2>1 DEF vars, program, control, watching
    <3> QED BY <2>1, <3>1, QuietKeeps
  <2> QED BY <2>1, ProgramKeeps, AskKeeps DEF Next
<1> QED BY <1>1, InspectionStart, PTL DEF Spec

\* For any number of frames, stops, references and requests, a reference the debuggee
\* gave out shows what it was given for or nothing (ThreadTracker hands out a frame
\* number once, VariableManager a reference once).
THEOREM ShowsWhatItNamedAlways == Spec => []ShowsWhatItNamed
<1>1. InspectionInv => ShowsWhatItNamed
  <2> SUFFICES ASSUME InspectionInv, NEW n \in named, n.by = "launcher"
               PROVE  resolve_variables_for_reference(n.ref) \in {n.what, Nothing}
    BY DEF ShowsWhatItNamed
  <2>1. n.ref \in DOMAIN refs.at /\ Says(tracker, refs.at[n.ref], n.what)
    BY DEF InspectionInv, NamedSays
  <2> QED BY <2>1 DEF Says, resolve_variables_for_reference
<1> QED BY <1>1, InspectionInvariant, PTL

\* However often the program has stopped, gone on and jumped, the frame numbers of a
\* stopped thread lead to the frames it stands in (_emit_stopped_event renumbers the
\* stack before the stop is announced and only process_commands' return forgets it).
THEOREM StackIsInspectableAlways == Spec => []StackIsInspectable
<1>1. InspectionInv => StackIsInspectable
  BY DEF InspectionInv
<1> QED BY <1>1, InspectionInvariant, PTL

\* No change of a watched variable between two looks of user_line at the same frame is
\* passed over, whatever frames came, went or lay at the same address in between
\* (DataBreakpointState.check_for_changes keeps the last value by address).
THEOREM ChangesAreAnnouncedAlways == Spec => ChangesAreAnnounced
<1> DEFINE Announced == \A f \in 1..born :
              looked[f] # Unset /\ looked'[f] # looked[f] => told' = "change"
<1>1. InspectionInv /\ [Next]_vars => [Announced]_vars
  <2> SUFFICES ASSUME InspectionInv, Next, NEW f \in 1..born,
                      looked[f] # Unset, looked'[f] # looked[f]
               PROVE  told' = "change"
    OBVIOUS
  <2>1. PICK v \in Results : user_line(v)
    <3>1. CASE Call
      BY <3>1 DEF Call, Put, InspectionInv, ProgramTypeOK
    <3>2. CASE ~Call /\ ~\E v \in Results : user_line(v)
      BY <3>2 DEF Next, Program, Ask, Return, Unseen, Wake, handle_continue, handle_step,
                  handle_stack_trace_impl, goto, handle_evaluate_impl, handle_set_expression_impl,
                  _invalidate_variable_caches, handle_scopes_impl, get_scopes, get_variables,
                  handle_set_variable_impl, handle_set_data_breakpoints_impl, watching
    <3> QED BY <3>1, <3>2
  <2>2. update_snapshots(Top, v)
    BY <2>1 DEF user_line
  <2>3. watch \in {"write", "readWrite"} /\ looked' = [looked EXCEPT ![Top] = v]
    BY <2>2 DEF update_snapshots
  <2>4. Top \in Range(stack) /\ Top \in 1..born
    BY TopOfStack DEF InspectionInv
  <2>5. f = Top /\ v # looked[Top]
    BY <2>3, <2>4 DEF InspectionInv, ProgramTypeOK
  <2>6. /\ x[Top] # Unset /\ address[Top] \in DOMAIN last
        /\ last[address[Top]] = looked[Top]
    BY <2>4, <2>5 DEF InspectionInv, Kept
  <2>7. v # Unset
    BY <2>6 DEF Results, Values
  <2>8. check_for_changes(Top, v)
    BY <2>3, <2>5, <2>6, <2>7 DEF check_for_changes, OldValue
  <2> QED BY <2>1, <2>8 DEF user_line
<1> QED BY <1>1, InspectionInvariant, PTL DEF Spec, ChangesAreAnnounced

-----------------------------------------------------------------------------
(* The inductive invariant of Sources.                                     *)

\* A thread that numbers a dynamic source, one that numbers a file of
\* loadedSources, and the request itself.
DynamicJobs == [at : {"lookup", "getlines", "registerOwn", "find", "take", "meta", "path", "register"},
                path : Dynamic, text : Texts, ref : Nat]
FileJobs == [at : {"find", "take", "meta", "path"}, path : Files, ref : Nat,
             got : SUBSET Files, listed : SUBSET (Files \X Nat)]
ListJobs == [at : {"collect"}, size : {Cardinality(S) : S \in SUBSET Files}, got : SUBSET Files]
            \union [at : {"files"}, got : SUBSET Files, listed : SUBSET (Files \X Nat)]
Jobs == {Idle} \union DynamicJobs \union FileJobs \union ListJobs

SourceTypeOK ==
    /\ IsFiniteSet(DOMAIN by_ref)
    /\ source_references \in [DOMAIN source_references -> Paths]
    /\ DOMAIN source_references \subseteq Nat
    /\ path_to_ref \in [DOMAIN path_to_ref -> Nat] /\ DOMAIN path_to_ref \subseteq Paths
    /\ next_source_ref \in Nat /\ next_id \in Nat
    /\ by_ref \in [DOMAIN by_ref -> [path : Dynamic, text : Texts]] /\ DOMAIN by_ref \subseteq Nat
    /\ by_path \in [DOMAIN by_path -> Nat] /\ DOMAIN by_path \subseteq Dynamic
    /\ modules \subseteq Files
    /\ job \in [Threads -> Jobs]
    /\ announced \subseteq Paths \X Nat
    /\ own \subseteq Nat

\* r is the catalog's number of p.
Leads(p, r) == r \in DOMAIN source_references /\ source_references[r] = p

\* The catalog's numbers are taken from its counter, and a thread that has taken one and
\* not stored it is alone with it.
NumbersTaken ==
    /\ \A r \in DOMAIN source_references : r < next_source_ref
    /\ \A t \in Threads : At(t, "meta") =>
          /\ job[t].ref < next_source_ref
          /\ job[t].ref \notin DOMAIN source_references
          /\ \A u \in Threads : u # t /\ At(u, "meta") => job[u].ref # job[t].ref

\* Once stored, whoever has the number has the right one: the thread that stores the path
\* or registers the text, the table by path, the list being made.
NumbersLead ==
    /\ \A t \in Threads : job[t].at \in {"path", "register"} => Leads(job[t].path, job[t].ref)
    /\ \A p \in DOMAIN path_to_ref : Leads(p, path_to_ref[p])
    /\ \A t \in Threads : job[t] \in FileJobs \/ At(t, "files") =>
          \A a \in job[t].listed : Leads(a[1], a[2])

\* The registry's two tables are each other's inverse, and a number that it has not taken
\* from its own counter is the catalog's for the same path.
RegistryAgrees ==
    /\ \A p \in DOMAIN by_path : by_path[p] \in DOMAIN by_ref /\ by_ref[by_path[p]].path = p
    /\ \A r \in DOMAIN by_ref : by_ref[r].path \in DOMAIN by_path
    /\ \A r \in DOMAIN by_ref : r \in own \/ Leads(by_ref[r].path, r)

\* What was announced is the catalog's number for a source whose text is at hand.
AnnouncedLeads ==
    \A a \in announced :
        a[2] \in own \/ (Leads(a[1], a[2]) /\ a[1] \in Files \union DOMAIN by_path)

SourceIInv == SourceTypeOK /\ NumbersTaken /\ NumbersLead /\ RegistryAgrees /\ AnnouncedLeads

-----------------------------------------------------------------------------
(* Numbers of the registry.                                                *)

LEMMA LeastNatural ==
    ASSUME NEW S \in SUBSET Nat, S # {}
    PROVE  \E n \in S : \A m \in S : n <= m
<1>1. PICK n \in S : \A m \in S : ~(<<m, n>> \in OpToRel(<, Nat))
  BY NatLessThanWellFounded, WFMin, Zenon
<1>2. \A m \in S : <<m, n>> \in Nat \X Nat
  OBVIOUS
<1>3. \A m \in S : ~(m < n)
  BY <1>1, <1>2 DEF OpToRel
<1> QED BY <1>3

LEMMA FreeNumber ==
    ASSUME NEW S \in SUBSET Nat, IsFiniteSet(S), NEW k \in Nat
    PROVE  \E r \in k..(k + Cardinality(S)) : r \notin S /\ \A q \in k..(r - 1) : q \in S
<1> DEFINE n == Cardinality(S)
<1>1. n \in Nat
  BY FS_CardinalityType
<1>2. IsFiniteSet(k..(k + n)) /\ Cardinality(k..(k + n)) = n + 1
  BY <1>1, FS_Interval
<1>3. ~(k..(k + n) \subseteq S)
  BY <1>1, <1>2, FS_Subset
<1>4. PICK r \in k..(k + n) : r \notin S /\ \A m \in (k..(k + n)) \ S : r <= m
  <2>1. (k..(k + n)) \ S \in SUBSET Nat /\ (k..(k + n)) \ S # {}
    BY <1>1, <1>3
  <2> QED BY <2>1, LeastNatural
<1>5. \A q \in k..(r - 1) : q \in S
  BY <1>1, <1>4
<1> QED BY <1>4, <1>5
\* The registry's own next number is free.
LEMMA FreshIsFree ==
    ASSUME SourceTypeOK
    PROVE  Fresh \in Nat /\ Fresh \notin DOMAIN by_ref
<1>1. \E r \in next_id..(next_id + Cardinality(DOMAIN by_ref)) :
          r \notin DOMAIN by_ref /\ \A q \in next_id..(r - 1) : q \in DOMAIN by_ref
  BY FreeNumber DEF SourceTypeOK
<1>2. Fresh \in next_id..(next_id + Cardinality(DOMAIN by_ref)) /\ Fresh \notin DOMAIN by_ref
  BY <1>1 DEF Fresh
<1>3. Cardinality(DOMAIN by_ref) \in Nat /\ next_id \in Nat
  BY FS_CardinalityType DEF SourceTypeOK
<1> QED BY <1>2, <1>3

\* What an entry changes: one number and one path, which had none.
LEMMA EnterStep ==
    ASSUME SourceTypeOK, RegistryAgrees, NEW p \in Dynamic, NEW text \in Texts, NEW r \in Nat,
           p \notin DOMAIN by_path, r \notin DOMAIN by_ref, Enter(p, text, r)
    PROVE  /\ DOMAIN by_ref' = DOMAIN by_ref \union {r}
           /\ by_ref'[r].path = p
           /\ \A q \in DOMAIN by_ref : by_ref'[q] = by_ref[q]
           /\ DOMAIN by_path' = DOMAIN by_path \union {p}
           /\ by_path'[p] = r
           /\ \A q \in DOMAIN by_path : by_path'[q] = by_path[q]
BY DEF Enter, Put, SourceTypeOK

\* An entry under a free number, its own or one that leads to the path.
LEMMA EnterKeeps ==
    ASSUME SourceTypeOK, RegistryAgrees, NEW p \in Dynamic, NEW text \in Texts, NEW r \in Nat,
           p \notin DOMAIN by_path, r \notin DOMAIN by_ref, Enter(p, text, r),
           own \subseteq own', r \in own' \/ Leads(p, r), UNCHANGED source_references
    PROVE  /\ by_ref' \in [DOMAIN by_ref' -> [path : Dynamic, text : Texts]]
           /\ DOMAIN by_ref' \subseteq Nat /\ IsFiniteSet(DOMAIN by_ref')
           /\ by_path' \in [DOMAIN by_path' -> Nat] /\ DOMAIN by_path' \subseteq Dynamic
           /\ RegistryAgrees'
           /\ DOMAIN by_path \union {p} \subseteq DOMAIN by_path'
<1>0. /\ DOMAIN by_ref' = DOMAIN by_ref \union {r} /\ by_ref'[r].path = p
      /\ \A q \in DOMAIN by_ref : by_ref'[q] = by_ref[q]
      /\ DOMAIN by_path' = DOMAIN by_path \union {p} /\ by_path'[p] = r
      /\ \A q \in DOMAIN by_path : by_path'[q] = by_path[q]
  BY ZenonT(30), EnterStep
<1>1. by_ref' \in [DOMAIN by_ref' -> [path : Dynamic, text : Texts]] /\ DOMAIN by_ref' \subseteq Nat
  BY DEF Enter, Put, SourceTypeOK
<1>2. IsFiniteSet(DOMAIN by_ref')
  BY <1>0, FS_AddElement DEF SourceTypeOK
<1>3. by_path' \in [DOMAIN by_path' -> Nat] /\ DOMAIN by_path' \subseteq Dynamic
  BY DEF Enter, Put, SourceTypeOK
<1>4. RegistryAgrees'
  <2>1. \A q \in DOMAIN by_path' : by_path'[q] \in DOMAIN by_ref' /\ by_ref'[by_path'[q]].path = q
    BY <1>0 DEF RegistryAgrees
  <2>2. \A q \in DOMAIN by_ref' : by_ref'[q].path \in DOMAIN by_path'
    BY <1>0 DEF RegistryAgrees
  <2>3. \A q \in DOMAIN by_ref' : q \in own' \/ Leads(by_ref'[q].path, q)
    BY <1>0 DEF RegistryAgrees
  <2> QED BY <2>1, <2>2, <2>3 DEF RegistryAgrees, Leads
<1>5. DOMAIN by_path \union {p} \subseteq DOMAIN by_path'
  BY <1>0
<1> QED BY <1>1, <1>2, <1>3, <1>4, <1>5

\* Registering a text that belongs to the number it comes with.
LEMMA RegisterStep ==
    ASSUME SourceTypeOK, RegistryAgrees, NEW p \in Dynamic, NEW text \in Texts, NEW hint \in Nat,
           hint = NoNumber \/ Leads(p, hint), register(p, text, hint), UNCHANGED catalog
    PROVE  /\ by_ref' \in [DOMAIN by_ref' -> [path : Dynamic, text : Texts]]
           /\ DOMAIN by_ref' \subseteq Nat /\ IsFiniteSet(DOMAIN by_ref')
           /\ by_path' \in [DOMAIN by_path' -> Nat] /\ DOMAIN by_path' \subseteq Dynamic
           /\ next_id' \in Nat /\ own' \subseteq Nat /\ own \subseteq own'
           /\ RegistryAgrees'
           /\ DOMAIN by_path \union {p} \subseteq DOMAIN by_path'
<1>0. UNCHANGED source_references
  BY DEF catalog
<1>1. CASE p \in DOMAIN by_path
  <2>1. UNCHANGED <<by_ref, by_path, next_id, own>>
    BY <1>1 DEF register, registry
  <2> QED BY <1>0, <1>1, <2>1 DEF SourceTypeOK, RegistryAgrees, Leads
<1>2. CASE p \notin DOMAIN by_path /\ hint # NoNumber /\ hint \notin DOMAIN by_ref
  <2>1. Enter(p, text, hint) /\ UNCHANGED <<next_id, own>>
    BY <1>2 DEF register
  <2> QED BY <1>0, <1>2, <2>1, EnterKeeps DEF SourceTypeOK
<1>3. CASE p \notin DOMAIN by_path /\ ~(hint # NoNumber /\ hint \notin DOMAIN by_ref)
  <2>1. Enter(p, text, Fresh) /\ next_id' = Fresh + 1 /\ own' = own \union {Fresh}
    BY <1>3 DEF register
  <2>2. Fresh \in Nat /\ Fresh \notin DOMAIN by_ref
    BY FreshIsFree
  <2> QED BY <1>0, <1>3, <2>1, <2>2, EnterKeeps DEF SourceTypeOK
<1> QED BY <1>1, <1>2, <1>3

-----------------------------------------------------------------------------
(* Steps.                                                                  *)

\* What is left of a thread's job when another moves.
LEMMA GoStep ==
    ASSUME SourceTypeOK, NEW t \in Threads, NEW next \in Jobs, Go(t, next)
    PROVE  /\ job' \in [Threads -> Jobs] /\ job'[t] = next
           /\ \A u \in Threads \ {t} : job'[u] = job[u]
BY DEF Go, SourceTypeOK

\* A job goes on by its place, its number or its text.
LEMMA JobTypes ==
    ASSUME NEW j \in Jobs
    PROVE  /\ j.at \in {"lookup", "getlines", "registerOwn", "register"} => j \in DynamicJobs
           /\ j.at \in {"find", "take", "meta", "path"} => j \in DynamicJobs \union FileJobs
           /\ j.at \in {"collect", "files"} => j \in ListJobs
           /\ j.at = "idle" => j = Idle
           /\ j \in DynamicJobs => j.path \in Dynamic
           /\ j \in FileJobs => j.path \in Files /\ j.path \notin Dynamic
BY DEF Jobs, DynamicJobs, FileJobs, ListJobs, Idle

\* A thread that does not number leaves the numbers as they are.
LEMMA QuietStep ==
    ASSUME SourceIInv, NEW t \in Threads, NEW next \in Jobs, Go(t, next),
           UNCHANGED <<catalog, registry, history>>, modules' \subseteq Files,
           next.at # "meta", next.at \in {"path", "register"} => Leads(next.path, next.ref),
           next \in FileJobs \/ next.at = "files" =>
               \A a \in next.listed : Leads(a[1], a[2])
    PROVE  SourceIInv'
<1> USE DEF SourceIInv
<1>1. UNCHANGED <<source_references, path_to_ref, next_source_ref, by_ref, by_path, next_id,
                  announced, own>>
  BY DEF catalog, registry, history
<1>2. SourceTypeOK'
  BY <1>1, GoStep DEF SourceTypeOK
<1>3. NumbersTaken'
  BY <1>1, GoStep DEF NumbersTaken, At
<1>4. NumbersLead'
  BY <1>1, GoStep DEF NumbersLead, At, Leads
<1>5. RegistryAgrees' /\ AnnouncedLeads'
  BY <1>1 DEF RegistryAgrees, AnnouncedLeads, Leads
<1> QED BY <1>2, <1>3, <1>4, <1>5

-----------------------------------------------------------------------------
(* The actions.                                                            *)

LEMMA AnnotateStep ==
    ASSUME SourceIInv, NEW t \in Threads, Annotate(t)
    PROVE  SourceIInv'
<1> DEFINE j == job[t]
<1>0. j \in Jobs
  BY DEF SourceIInv, SourceTypeOK
<1>1. CASE \E p \in Dynamic : annotate_stack_frames_with_source_refs(t, p)
  <2>1. PICK p \in Dynamic : annotate_stack_frames_with_source_refs(t, p)
    BY <1>1
  <2> DEFINE next == [at |-> "lookup", path |-> p, text |-> "placeholder", ref |-> NoNumber]
  <2>2. next \in DynamicJobs /\ next \notin FileJobs /\ next.at = "lookup"
    BY DEF DynamicJobs, FileJobs, Texts, NoNumber
  <2>3. Go(t, next) /\ UNCHANGED <<catalog, registry, python, history>>
    BY <2>1 DEF annotate_stack_frames_with_source_refs
  <2> HIDE DEF next
  <2>4. modules' \subseteq Files
    BY <2>3 DEF python, SourceIInv, SourceTypeOK
  <2>5. next \in Jobs
    BY <2>2 DEF Jobs
  <2> QED BY <2>2, <2>3, <2>4, <2>5, QuietStep
<1>2. CASE get_by_path(t)
  <2>1. j \in DynamicJobs
    BY <1>0, <1>2, JobTypes DEF get_by_path, At
  <2> DEFINE next == IF j.path \in DOMAIN by_path
                     THEN [j EXCEPT !.at = "find", !.text = by_ref[by_path[j.path]].text]
                     ELSE [j EXCEPT !.at = "getlines"]
  <2>2. Go(t, next) /\ UNCHANGED <<catalog, registry, python, history>>
    BY <1>2 DEF get_by_path
  <2>3. j.path \in DOMAIN by_path => by_ref[by_path[j.path]].text \in Texts
    BY DEF SourceIInv, SourceTypeOK, RegistryAgrees
  <2>4. next \in DynamicJobs /\ next.at \in {"find", "getlines"}
    BY <2>1, <2>3 DEF DynamicJobs
  <2> HIDE DEF next
  <2>5. modules' \subseteq Files
    BY <2>2 DEF python, SourceIInv, SourceTypeOK
  <2>6. next \in Jobs /\ next \notin FileJobs
    BY <2>4 DEF Jobs, DynamicJobs, FileJobs
  <2> QED BY <2>2, <2>4, <2>5, <2>6, QuietStep
<1>3. CASE getlines(t)
  <2>1. j \in DynamicJobs
    BY <1>0, <1>3, JobTypes DEF getlines, At
  <2> DEFINE next == IF j.path \in linecache
                     THEN [j EXCEPT !.at = "registerOwn", !.text = "source"]
                     ELSE [j EXCEPT !.at = "find"]
  <2>2. Go(t, next) /\ UNCHANGED <<catalog, registry, python, history>>
    BY <1>3 DEF getlines
  <2>4. next \in DynamicJobs /\ next.at \in {"find", "registerOwn"}
    BY <2>1 DEF DynamicJobs, Texts
  <2> HIDE DEF next
  <2>5. modules' \subseteq Files
    BY <2>2 DEF python, SourceIInv, SourceTypeOK
  <2>6. next \in Jobs /\ next \notin FileJobs
    BY <2>4 DEF Jobs, DynamicJobs, FileJobs
  <2> QED BY <2>2, <2>4, <2>5, <2>6, QuietStep
<1>4. CASE get_or_register_from_linecache(t)
  <2>1. j \in DynamicJobs
    BY <1>0, <1>4, JobTypes DEF get_or_register_from_linecache, At
  <2> DEFINE next == [j EXCEPT !.at = "find"]
  <2>2. next \in DynamicJobs /\ next.at = "find" /\ j.path \in Dynamic /\ j.text \in Texts
    BY <2>1 DEF DynamicJobs
  <2>3. Go(t, next) /\ register(j.path, j.text, NoNumber) /\ UNCHANGED <<catalog, python, announced>>
    BY <1>4 DEF get_or_register_from_linecache
  <2> HIDE DEF next
  <2>4. next \in Jobs /\ next \notin FileJobs
    BY <2>2 DEF Jobs, DynamicJobs, FileJobs
  <2>5. /\ by_ref' \in [DOMAIN by_ref' -> [path : Dynamic, text : Texts]]
        /\ DOMAIN by_ref' \subseteq Nat /\ IsFiniteSet(DOMAIN by_ref')
        /\ by_path' \in [DOMAIN by_path' -> Nat] /\ DOMAIN by_path' \subseteq Dynamic
        /\ next_id' \in Nat /\ own' \subseteq Nat /\ own \subseteq own'
        /\ RegistryAgrees'
        /\ DOMAIN by_path \subseteq DOMAIN by_path'
    BY <2>2, <2>3, RegisterStep DEF SourceIInv, NoNumber
  <2>6. UNCHANGED <<source_references, path_to_ref, next_source_ref, modules, announced>>
    BY <2>3 DEF catalog, python
  <2>7. SourceTypeOK'
    BY <2>3, <2>4, <2>5, <2>6, GoStep DEF SourceIInv, SourceTypeOK
  <2>8. NumbersTaken'
    BY <2>2, <2>3, <2>4, <2>6, GoStep DEF SourceIInv, NumbersTaken, At
  <2>9. NumbersLead'
    BY <2>2, <2>3, <2>4, <2>6, GoStep DEF SourceIInv, NumbersLead, At, Leads
  <2>10. AnnouncedLeads'
    BY <2>5, <2>6 DEF SourceIInv, AnnouncedLeads, Leads
  <2> QED BY <2>5, <2>7, <2>8, <2>9, <2>10 DEF SourceIInv
<1>5. CASE register_dynamic_source(t)
  <2>1. j \in DynamicJobs
    BY <1>0, <1>5, JobTypes DEF register_dynamic_source, At
  <2>2. j.path \in Dynamic /\ j.text \in Texts /\ j.ref \in Nat /\ Leads(j.path, j.ref)
    BY <1>5, <2>1 DEF DynamicJobs, SourceIInv, NumbersLead, register_dynamic_source, At
  <2>3. /\ Go(t, Idle) /\ register(j.path, j.text, j.ref) /\ UNCHANGED <<catalog, python>>
        /\ announced' = announced \union {<<j.path, j.ref>>}
    BY <1>5 DEF register_dynamic_source
  <2>4. Idle \in Jobs /\ Idle \notin FileJobs /\ Idle.at = "idle"
    BY DEF Jobs, Idle, FileJobs
  <2>5. /\ by_ref' \in [DOMAIN by_ref' -> [path : Dynamic, text : Texts]]
        /\ DOMAIN by_ref' \subseteq Nat /\ IsFiniteSet(DOMAIN by_ref')
        /\ by_path' \in [DOMAIN by_path' -> Nat] /\ DOMAIN by_path' \subseteq Dynamic
        /\ next_id' \in Nat /\ own' \subseteq Nat /\ own \subseteq own'
        /\ RegistryAgrees'
        /\ DOMAIN by_path \union {j.path} \subseteq DOMAIN by_path'
    BY <2>2, <2>3, RegisterStep DEF SourceIInv
  <2>6. UNCHANGED <<source_references, path_to_ref, next_source_ref, modules>>
    BY <2>3 DEF catalog, python
  <2>7. SourceTypeOK'
    <3>1. announced' \subseteq Paths \X Nat
      BY <2>2, <2>3 DEF SourceIInv, SourceTypeOK, Paths
    <3> QED BY <2>3, <2>4, <2>5, <2>6, <3>1, GoStep DEF SourceIInv, SourceTypeOK
  <2>8. NumbersTaken'
    BY <2>3, <2>4, <2>6, GoStep DEF SourceIInv, NumbersTaken, At
  <2>9. NumbersLead'
    BY <2>3, <2>4, <2>6, GoStep DEF SourceIInv, NumbersLead, At, Leads
  <2>10. AnnouncedLeads'
    BY <2>2, <2>3, <2>5, <2>6 DEF SourceIInv, AnnouncedLeads, Leads
  <2> QED BY <2>5, <2>7, <2>8, <2>9, <2>10 DEF SourceIInv
<1> QED BY <1>1, <1>2, <1>3, <1>4, <1>5 DEF Annotate

\* Where a thread goes with a number that leads to its path.
LEMMA NumberedJob ==
    ASSUME NEW t \in Threads, job[t] \in DynamicJobs \union FileJobs, NEW r \in Nat
    PROVE  /\ job[t] \in DynamicJobs =>
                 /\ Numbered(t, r) \in DynamicJobs /\ Numbered(t, r) \notin FileJobs
                 /\ Numbered(t, r).at = "register"
                 /\ Numbered(t, r).path = job[t].path /\ Numbered(t, r).ref = r
           /\ job[t] \in FileJobs =>
                 /\ Numbered(t, r) \in ListJobs /\ Numbered(t, r).at = "files"
                 /\ Numbered(t, r).listed = job[t].listed \union {<<job[t].path, r>>}
<1>1. CASE job[t] \in DynamicJobs
  <2>1. job[t] \notin FileJobs /\ job[t].path \in Dynamic
    BY <1>1 DEF DynamicJobs, FileJobs
  <2>2. Numbered(t, r) = [at |-> "register", path |-> job[t].path, text |-> job[t].text, ref |-> r]
    BY <2>1 DEF Numbered
  <2> QED BY <1>1, <2>1, <2>2 DEF DynamicJobs, FileJobs
<1>2. CASE job[t] \in FileJobs
  <2>1. job[t] \notin DynamicJobs /\ job[t].path \in Files /\ job[t].path \notin Dynamic
    BY <1>2 DEF DynamicJobs, FileJobs
  <2>2. Numbered(t, r) = [at |-> "files", got |-> job[t].got \ {job[t].path},
                          listed |-> job[t].listed \union {<<job[t].path, r>>}]
    BY <2>1 DEF Numbered
  <2>3. job[t].listed \union {<<job[t].path, r>>} \in SUBSET (Files \X Nat)
    BY <1>2, <2>1 DEF FileJobs
  <2>4. job[t].got \ {job[t].path} \in SUBSET Files
    BY <1>2 DEF FileJobs
  <2> QED BY <2>1, <2>2, <2>3, <2>4 DEF ListJobs
<1> QED BY <1>1, <1>2

\* The path has a number, or gets one.
LEMMA FindStep ==
    ASSUME SourceIInv, NEW t \in Threads, get_ref_for_path(t)
    PROVE  SourceIInv'
<1> DEFINE j == job[t]
<1>1. j \in Jobs /\ j.at = "find"
  BY DEF SourceIInv, SourceTypeOK, get_ref_for_path, At
<1>2. j \in DynamicJobs \union FileJobs
  BY <1>1, JobTypes
<1>3. UNCHANGED <<catalog, registry, history>> /\ modules' \subseteq Files
  BY DEF get_ref_for_path, python, SourceIInv, SourceTypeOK
<1>4. CASE j.path \in DOMAIN path_to_ref
  <2> DEFINE r == path_to_ref[j.path]
  <2>1. r \in Nat /\ Leads(j.path, r)
    BY <1>4 DEF SourceIInv, SourceTypeOK, NumbersLead
  <2>2. Go(t, Numbered(t, r))
    BY <1>4 DEF get_ref_for_path
  <2> HIDE DEF r
  <2>3. CASE j \in DynamicJobs
    <3>1. /\ Numbered(t, r) \in Jobs \ FileJobs /\ Numbered(t, r).at = "register"
          /\ Leads(Numbered(t, r).path, Numbered(t, r).ref)
      BY <1>2, <2>1, <2>3, NumberedJob DEF Jobs
    <3> QED BY <1>3, <2>2, <3>1, QuietStep
  <2>4. CASE j \in FileJobs
    <3>1. /\ Numbered(t, r) \in Jobs /\ Numbered(t, r).at = "files"
          /\ Numbered(t, r).listed = j.listed \union {<<j.path, r>>}
      BY <1>2, <2>1, <2>4, NumberedJob DEF Jobs
    <3>2. \A a \in Numbered(t, r).listed : Leads(a[1], a[2])
      BY <2>1, <2>4, <3>1 DEF SourceIInv, NumbersLead
    <3> QED BY <1>3, <2>2, <3>1, <3>2, QuietStep
  <2> QED BY <1>2, <2>3, <2>4
<1>5. CASE j.path \notin DOMAIN path_to_ref
  <2> DEFINE next == [j EXCEPT !.at = "take"]
  <2>1. next \in DynamicJobs \union FileJobs /\ next.at = "take"
    BY <1>2 DEF DynamicJobs, FileJobs
  <2>2. next \in FileJobs => j \in FileJobs /\ next.listed = j.listed
    BY <1>2 DEF DynamicJobs, FileJobs
  <2>3. Go(t, next)
    BY <1>5 DEF get_ref_for_path
  <2> HIDE DEF next
  <2>4. next \in Jobs
    BY <2>1 DEF Jobs
  <2>5. next \in FileJobs \/ next.at = "files" => \A a \in next.listed : Leads(a[1], a[2])
    BY <2>1, <2>2 DEF SourceIInv, NumbersLead
  <2> QED BY <1>3, <2>1, <2>3, <2>4, <2>5, QuietStep
<1> QED BY <1>4, <1>5

\* The counter has never given out the number before.
LEMMA TakeStep ==
    ASSUME SourceIInv, NEW t \in Threads, TakeNumber(t)
    PROVE  SourceIInv'
<1> DEFINE j == job[t]
           next == [j EXCEPT !.at = "meta", !.ref = next_source_ref]
<1>1. j \in Jobs /\ j.at = "take" /\ next_source_ref \in Nat
  BY DEF SourceIInv, SourceTypeOK, TakeNumber, At
<1>2. j \in DynamicJobs \union FileJobs
  BY <1>1, JobTypes
<1>3. /\ next \in DynamicJobs \union FileJobs /\ next.at = "meta" /\ next.ref = next_source_ref
      /\ next \in FileJobs => j \in FileJobs /\ next.listed = j.listed
  BY <1>1, <1>2 DEF DynamicJobs, FileJobs
<1>4. Go(t, next) /\ next_source_ref' = next_source_ref + 1
  BY DEF TakeNumber
<1> HIDE DEF next
<1>5. UNCHANGED <<source_references, path_to_ref, by_ref, by_path, next_id, announced, own, modules>>
  BY DEF TakeNumber, registry, history, python
<1>6. next \in Jobs
  BY <1>3 DEF Jobs
<1>7. SourceTypeOK'
  BY <1>1, <1>4, <1>5, <1>6, GoStep DEF SourceIInv, SourceTypeOK
<1>8. NumbersTaken'
  <2>1. \A r \in DOMAIN source_references : r \in Nat /\ r < next_source_ref
    BY DEF SourceIInv, SourceTypeOK, NumbersTaken
  <2>2. \A u \in Threads : At(u, "meta") => job[u].ref < next_source_ref /\ job[u].ref \in Nat
    <3>1. \A u \in Threads : At(u, "meta") => job[u] \in DynamicJobs \union FileJobs
      BY JobTypes DEF SourceIInv, SourceTypeOK, At
    <3> QED BY <3>1 DEF SourceIInv, NumbersTaken, DynamicJobs, FileJobs
  <2>3. job'[t] = next /\ \A u \in Threads \ {t} : job'[u] = job[u]
    BY <1>4, <1>6, GoStep DEF SourceIInv
  <2> QED BY <1>1, <1>3, <1>4, <1>5, <2>1, <2>2, <2>3 DEF SourceIInv, NumbersTaken, At
<1>9. NumbersLead'
  BY <1>1, <1>3, <1>4, <1>5, <1>6, GoStep DEF SourceIInv, NumbersLead, At, Leads
<1>10. RegistryAgrees' /\ AnnouncedLeads'
  BY <1>5 DEF SourceIInv, RegistryAgrees, AnnouncedLeads, Leads
<1> QED BY <1>7, <1>8, <1>9, <1>10 DEF SourceIInv

\* The entry is new: what other numbers lead to stays.
LEMMA StoreMetaStep ==
    ASSUME SourceIInv, NEW t \in Threads, StoreMeta(t)
    PROVE  SourceIInv'
<1> DEFINE j == job[t]
           next == [j EXCEPT !.at = "path"]
           LeadsNow(p, r) == r \in DOMAIN source_references' /\ source_references'[r] = p
<1>1. j \in Jobs /\ j.at = "meta"
  BY DEF SourceIInv, SourceTypeOK, StoreMeta, At
<1>2. j \in DynamicJobs \union FileJobs
  BY <1>1, JobTypes
<1>3. /\ next \in DynamicJobs \union FileJobs
      /\ next.at = "path" /\ next.ref = j.ref /\ next.path = j.path
      /\ next \in FileJobs => j \in FileJobs /\ next.listed = j.listed
      /\ j.ref \in Nat /\ j.path \in Paths
  BY <1>1, <1>2 DEF DynamicJobs, FileJobs, Paths
<1>4. Go(t, next) /\ source_references' = Put(source_references, j.ref, j.path)
  BY DEF StoreMeta
<1> HIDE DEF next
<1>5. UNCHANGED <<path_to_ref, next_source_ref, by_ref, by_path, next_id, announced, own, modules>>
  BY DEF StoreMeta, registry, history, python
<1>6. next \in Jobs /\ job'[t] = next /\ \A u \in Threads \ {t} : job'[u] = job[u]
  BY <1>3, <1>4, GoStep DEF Jobs, SourceIInv
<1>7. /\ j.ref \notin DOMAIN source_references /\ j.ref < next_source_ref
      /\ \A u \in Threads : u # t /\ At(u, "meta") => job[u].ref # j.ref
  BY <1>1 DEF SourceIInv, NumbersTaken, At
<1>8. /\ DOMAIN source_references' = DOMAIN source_references \union {j.ref}
      /\ source_references'[j.ref] = j.path
      /\ \A r \in DOMAIN source_references : source_references'[r] = source_references[r]
  BY <1>4, <1>7 DEF Put
<1>9. \A p, r : Leads(p, r) => LeadsNow(p, r)
  BY <1>8 DEF Leads
<1>10. LeadsNow(j.path, j.ref)
  BY <1>3, <1>8 DEF Leads
<1>11. SourceTypeOK'
  <2>1. source_references' \in [DOMAIN source_references' -> Paths]
    BY <1>3, <1>4 DEF Put, SourceIInv, SourceTypeOK
  <2>2. DOMAIN source_references' \subseteq Nat
    BY <1>3, <1>8 DEF SourceIInv, SourceTypeOK
  <2> QED BY <1>4, <1>5, <1>6, <2>1, <2>2, GoStep DEF SourceIInv, SourceTypeOK
<1>12. NumbersTaken'
  BY <1>3, <1>5, <1>6, <1>7, <1>8 DEF SourceIInv, NumbersTaken, At
<1>13. NumbersLead'
  <2>1. \A u \in Threads : job'[u].at \in {"path", "register"} => LeadsNow(job'[u].path, job'[u].ref)
    BY <1>3, <1>6, <1>9, <1>10 DEF SourceIInv, NumbersLead
  <2>2. \A u \in Threads : job'[u] \in FileJobs \/ job'[u].at = "files" =>
           \A a \in job'[u].listed : LeadsNow(a[1], a[2])
    BY <1>3, <1>6, <1>9 DEF SourceIInv, NumbersLead, At
  <2>3. \A p \in DOMAIN path_to_ref : LeadsNow(p, path_to_ref[p])
    BY <1>5, <1>9 DEF SourceIInv, NumbersLead
  <2> QED BY <1>5, <2>1, <2>2, <2>3 DEF NumbersLead, At, Leads
<1>14. RegistryAgrees'
  BY <1>5, <1>9 DEF SourceIInv, RegistryAgrees, Leads
<1>15. AnnouncedLeads'
  BY <1>5, <1>9 DEF SourceIInv, AnnouncedLeads, Leads
<1> QED BY <1>11, <1>12, <1>13, <1>14, <1>15 DEF SourceIInv

\* The table by path follows.
LEMMA StorePathStep ==
    ASSUME SourceIInv, NEW t \in Threads, StorePath(t)
    PROVE  SourceIInv'
<1> DEFINE j == job[t]
           next == Numbered(t, j.ref)
<1>1. j \in Jobs /\ j.at = "path"
  BY DEF SourceIInv, SourceTypeOK, StorePath, At
<1>2. j \in DynamicJobs \union FileJobs
  BY <1>1, JobTypes
<1>3. j.ref \in Nat /\ j.path \in Paths /\ Leads(j.path, j.ref)
  BY <1>1, <1>2 DEF DynamicJobs, FileJobs, Paths, SourceIInv, NumbersLead
<1>4. Go(t, next) /\ path_to_ref' = Put(path_to_ref, j.path, j.ref)
  BY DEF StorePath
<1>5. UNCHANGED <<source_references, next_source_ref, by_ref, by_path, next_id, announced, own, modules>>
  BY DEF StorePath, registry, history, python
<1>6. /\ next \in Jobs /\ next.at \in {"register", "files"}
      /\ next.at = "register" => Leads(next.path, next.ref) /\ next \notin FileJobs
      /\ next.at = "files" => \A a \in next.listed : Leads(a[1], a[2])
  <2>1. CASE j \in DynamicJobs
    BY <1>2, <1>3, <2>1, NumberedJob DEF Jobs
  <2>2. CASE j \in FileJobs
    <3>1. /\ next \in Jobs /\ next.at = "files"
          /\ next.listed = j.listed \union {<<j.path, j.ref>>}
      BY <1>2, <1>3, <2>2, NumberedJob DEF Jobs
    <3> QED BY <1>3, <2>2, <3>1 DEF SourceIInv, NumbersLead
  <2> QED BY <1>2, <2>1, <2>2
<1> HIDE DEF next
<1>7. job'[t] = next /\ \A u \in Threads \ {t} : job'[u] = job[u]
  BY <1>4, <1>6, GoStep DEF SourceIInv
<1>8. SourceTypeOK'
  <2>1. path_to_ref' \in [DOMAIN path_to_ref' -> Nat] /\ DOMAIN path_to_ref' \subseteq Paths
    BY <1>3, <1>4 DEF Put, SourceIInv, SourceTypeOK
  <2> QED BY <1>4, <1>5, <1>6, <2>1, GoStep DEF SourceIInv, SourceTypeOK
<1>9. NumbersTaken'
  BY <1>5, <1>6, <1>7 DEF SourceIInv, NumbersTaken, At
<1>10. NumbersLead'
  <2>1. \A u \in Threads : job'[u].at \in {"path", "register"} => Leads(job'[u].path, job'[u].ref)
    BY <1>6, <1>7 DEF SourceIInv, NumbersLead
  <2>2. \A u \in Threads : job'[u] \in FileJobs \/ job'[u].at = "files" =>
           \A a \in job'[u].listed : Leads(a[1], a[2])
    BY <1>6, <1>7 DEF SourceIInv, NumbersLead, At
  <2>3. \A p \in DOMAIN path_to_ref' : Leads(p, path_to_ref'[p])
    BY <1>3, <1>4 DEF Put, SourceIInv, NumbersLead
  <2> QED BY <1>5, <2>1, <2>2, <2>3 DEF NumbersLead, At, Leads
<1>11. RegistryAgrees' /\ AnnouncedLeads'
  BY <1>5 DEF SourceIInv, RegistryAgrees, AnnouncedLeads, Leads
<1> QED BY <1>8, <1>9, <1>10, <1>11 DEF SourceIInv

LEMMA LoadedSourcesStep ==
    ASSUME SourceIInv, LoadedSources
    PROVE  SourceIInv'
<1> DEFINE j == job[Receiver]
<1>0. j \in Jobs /\ modules \subseteq Files
  BY DEF SourceIInv, SourceTypeOK
<1>1. CASE handle_loaded_sources
  <2> DEFINE next == [at |-> "collect", size |-> Cardinality(modules), got |-> {}]
  <2>1. next \in ListJobs /\ next \notin FileJobs /\ next.at = "collect"
    BY <1>0 DEF ListJobs, FileJobs
  <2>2. Go(Receiver, next) /\ UNCHANGED <<catalog, registry, history>> /\ modules' \subseteq Files
    BY <1>0, <1>1 DEF handle_loaded_sources, python
  <2> HIDE DEF next
  <2>3. next \in Jobs
    BY <2>1 DEF Jobs
  <2> QED BY <2>1, <2>2, <2>3, QuietStep
<1>2. CASE _collect_module_sources
  <2>1. UNCHANGED <<catalog, registry, history>> /\ modules' \subseteq Files
    BY <1>0, <1>2 DEF _collect_module_sources, python
  <2>2. j \in ListJobs /\ j.at = "collect"
    BY <1>0, <1>2, JobTypes DEF _collect_module_sources, At
  <2>3. PICK next : /\ Go(Receiver, next) /\ next \in Jobs \ FileJobs
                    /\ next.at \in {"idle", "collect", "files"}
                    /\ next.at = "files" => next.listed = {}
    <3>1. CASE Go(Receiver, Idle)
      <4>1. Idle \in Jobs \ FileJobs /\ Idle.at = "idle"
        BY DEF Jobs, Idle, FileJobs
      <4> QED BY <3>1, <4>1
    <3>2. CASE \E f \in modules \ j.got : Go(Receiver, [j EXCEPT !.got = j.got \union {f}])
      <4>1. PICK f \in modules \ j.got : Go(Receiver, [j EXCEPT !.got = j.got \union {f}])
        BY <3>2
      <4> DEFINE next == [j EXCEPT !.got = j.got \union {f}]
      <4>2. next \in ListJobs /\ next \notin FileJobs /\ next.at = "collect"
        BY <1>0, <2>2 DEF ListJobs, FileJobs
      <4> HIDE DEF next
      <4>3. next \in Jobs
        BY <4>2 DEF Jobs
      <4> QED BY <4>1, <4>2, <4>3 DEF next
    <3>3. CASE Go(Receiver, [at |-> "files", got |-> j.got, listed |-> {}])
      <4> DEFINE next == [at |-> "files", got |-> j.got, listed |-> {}]
      <4>1. j.got \in SUBSET Files /\ {} \in SUBSET (Files \X Nat)
        BY <2>2 DEF ListJobs
      <4>2. next \in ListJobs /\ next \notin FileJobs /\ next.at = "files" /\ next.listed = {}
        BY <4>1 DEF ListJobs, FileJobs
      <4> HIDE DEF next
      <4>3. next \in Jobs
        BY <4>2 DEF Jobs
      <4> QED BY <3>3, <4>2, <4>3 DEF next
    <3> QED BY <1>2, <3>1, <3>2, <3>3 DEF _collect_module_sources
  <2> QED BY <2>1, <2>3, QuietStep
<1>3. CASE NumberNextFile
  <2>1. UNCHANGED <<catalog, registry, history>> /\ modules' \subseteq Files
    BY <1>0, <1>3 DEF NumberNextFile, python
  <2>2. j \in ListJobs /\ j.at = "files"
    BY <1>0, <1>3, JobTypes DEF NumberNextFile, At
  <2>3. PICK f \in j.got : Go(Receiver, [at |-> "find", path |-> f, ref |-> NoNumber,
                                         got |-> j.got, listed |-> j.listed])
    BY <1>3 DEF NumberNextFile
  <2> DEFINE next == [at |-> "find", path |-> f, ref |-> NoNumber,
                      got |-> j.got, listed |-> j.listed]
  <2>4. j.got \in SUBSET Files /\ j.listed \in SUBSET (Files \X Nat) /\ NoNumber \in Nat
    BY <2>2 DEF ListJobs, NoNumber
  <2>5. next \in FileJobs /\ next.at = "find" /\ next.listed = j.listed
    BY <2>4 DEF FileJobs
  <2>6. Go(Receiver, next)
    BY <2>3
  <2> HIDE DEF next
  <2>7. next \in Jobs
    BY <2>5 DEF Jobs
  <2>8. \A a \in next.listed : Leads(a[1], a[2])
    BY <2>2, <2>5 DEF SourceIInv, NumbersLead, At
  <2> QED BY <2>1, <2>5, <2>6, <2>7, <2>8, QuietStep
<1>4. CASE _collect_dynamic_sources
  <2> DEFINE new == {<<by_ref[r].path, r>> : r \in DOMAIN by_ref}
  <2>1. j \in ListJobs /\ j.at = "files"
    BY <1>0, <1>4, JobTypes DEF _collect_dynamic_sources, At
  <2>2. /\ Go(Receiver, Idle) /\ UNCHANGED <<catalog, registry, modules, own>>
        /\ announced' = announced \union j.listed \union new
    BY <1>4 DEF _collect_dynamic_sources, python
  <2>3. UNCHANGED <<source_references, path_to_ref, next_source_ref, by_ref, by_path, next_id>>
    BY <2>2 DEF catalog, registry
  <2>4. Idle \in Jobs \ FileJobs /\ Idle.at = "idle"
    BY DEF Jobs, Idle, FileJobs
  <2>5. j.listed \subseteq Files \X Nat /\ \A a \in j.listed : Leads(a[1], a[2]) /\ a[1] \in Files
    BY <2>1 DEF ListJobs, SourceIInv, NumbersLead, At
  <2>6. \A r \in DOMAIN by_ref :
            /\ r \in Nat /\ by_ref[r].path \in Dynamic /\ by_ref[r].path \in DOMAIN by_path
            /\ r \in own \/ Leads(by_ref[r].path, r)
    BY DEF SourceIInv, SourceTypeOK, RegistryAgrees
  <2>7. new \subseteq Dynamic \X Nat
    BY <2>6
  <2>8. SourceTypeOK'
    <3>1. announced' \subseteq Paths \X Nat
      BY <2>2, <2>5, <2>7 DEF SourceIInv, SourceTypeOK, Paths
    <3> QED BY <2>2, <2>3, <2>4, <3>1, GoStep DEF SourceIInv, SourceTypeOK
  <2>9. NumbersTaken'
    BY <2>2, <2>3, <2>4, GoStep DEF SourceIInv, NumbersTaken, At
  <2>10. NumbersLead'
    BY <2>2, <2>3, <2>4, GoStep DEF SourceIInv, NumbersLead, At, Leads
  <2>11. \A a \in announced' :
            a[2] \in own \/ (Leads(a[1], a[2]) /\ a[1] \in Files \union DOMAIN by_path)
    <3>1. \A a \in new : a[2] \in own \/ (Leads(a[1], a[2]) /\ a[1] \in DOMAIN by_path)
      BY <2>6
    <3> QED BY <2>2, <2>5, <3>1 DEF SourceIInv, AnnouncedLeads
  <2>12. RegistryAgrees' /\ AnnouncedLeads'
    BY <2>2, <2>3, <2>11 DEF SourceIInv, RegistryAgrees, AnnouncedLeads, Leads
  <2> QED BY <2>8, <2>9, <2>10, <2>12 DEF SourceIInv
<1> QED BY <1>1, <1>2, <1>3, <1>4 DEF LoadedSources

-----------------------------------------------------------------------------

LEMMA SourceInitially == SourceInit => SourceIInv
<1> SUFFICES ASSUME SourceInit PROVE SourceIInv
  OBVIOUS
<1>1. DOMAIN <<>> = {}
  OBVIOUS
<1>2. IsFiniteSet({})
  BY FS_EmptySet
<1>3. \A t \in Threads : job[t] = Idle /\ Idle.at = "idle" /\ Idle \notin FileJobs /\ Idle \in Jobs
  BY DEF SourceInit, Idle, FileJobs, Jobs
<1>4. SourceTypeOK
  BY <1>1, <1>2, <1>3 DEF SourceInit, SourceTypeOK
<1>5. NumbersTaken /\ NumbersLead /\ RegistryAgrees /\ AnnouncedLeads
  BY <1>1, <1>3 DEF SourceInit, NumbersTaken, NumbersLead, RegistryAgrees, AnnouncedLeads, At
<1> QED BY <1>4, <1>5 DEF SourceIInv

LEMMA SourceStep == SourceIInv /\ [SourceNext]_sourceVars => SourceIInv'
<1> SUFFICES ASSUME SourceIInv, [SourceNext]_sourceVars PROVE SourceIInv'
  OBVIOUS
<1>1. CASE \E t \in Threads : Annotate(t) \/ get_or_create_source_ref(t)
  BY <1>1, AnnotateStep, FindStep, TakeStep, StoreMetaStep, StorePathStep
     DEF get_or_create_source_ref
<1>2. CASE LoadedSources
  BY <1>2, LoadedSourcesStep
<1>3. CASE \/ \E f \in Files : Import(f)
           \/ \E p \in Dynamic : Compile(p)
           \/ UNCHANGED sourceVars
  <2>1. UNCHANGED <<source_references, path_to_ref, next_source_ref, by_ref, by_path, next_id,
                    job, announced, own>> /\ modules' \subseteq Files
    BY <1>3 DEF Import, Compile, sourceVars, catalog, registry, python, history, SourceIInv,
                SourceTypeOK
  <2> QED BY <2>1 DEF SourceIInv, SourceTypeOK, NumbersTaken, NumbersLead, RegistryAgrees,
                      AnnouncedLeads, At, Leads
<1> QED BY <1>1, <1>2, <1>3 DEF SourceNext

\* A number the client was told leads to its source, for any number of threads, sources and
\* files (get_or_create_source_ref and RuntimeSourceRegistry.register).
THEOREM AnnouncedResolvesAlways == SourceSpec => []AnnouncedResolves
<1>1. SourceIInv => AnnouncedResolves
  <2> SUFFICES ASSUME SourceIInv, NEW a \in announced, a[2] \notin own
               PROVE  get_source_content_by_ref(a[2]) = a[1]
    BY DEF AnnouncedResolves
  <2>1. Leads(a[1], a[2]) /\ a[1] \in Files \union DOMAIN by_path
    BY DEF SourceIInv, AnnouncedLeads
  <2>2. CASE a[2] \in DOMAIN by_ref
    BY <2>1, <2>2 DEF SourceIInv, RegistryAgrees, Leads, get_source_content_by_ref
  <2>3. CASE a[2] \notin DOMAIN by_ref
    BY <2>1, <2>3 DEF SourceIInv, RegistryAgrees, Leads, get_source_content_by_ref,
                      get_source_content_by_path
  <2> QED BY <2>2, <2>3
<1> QED BY <1>1, SourceInitially, SourceStep, PTL DEF SourceSpec

=============================================================================
