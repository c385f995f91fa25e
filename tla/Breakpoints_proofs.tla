------------------------ MODULE Breakpoints_proofs ------------------------
(***************************************************************************)
(* Proofs about Breakpoints, for every set of lines and requests, and      *)
(* every bound.                                                            *)
(***************************************************************************)
EXTENDS Breakpoints, TLAPS

USE LinesAssumption, RequestsAssumption, EntryAssumption, BoundsAssumption

-----------------------------------------------------------------------------
(***************************************************************************)
(* Type correctness.                                                       *)
(***************************************************************************)

\* The dictionary of no breakpoint is a dictionary.
LEMMA NoMetaType == NoMeta \in Meta
BY DEF NoMeta, Meta, NoKind, Kind, HitCondition

\* A table without one of its lines, and with one more, is a table.
LEMMA WithoutLine ==
    ASSUME NEW T, NEW f, DOMAIN f \subseteq Lines, f \in [DOMAIN f -> T], NEW l,
           NEW g, g = Restrict(f, DOMAIN f \ {l})
    PROVE  DOMAIN g = DOMAIN f \ {l} /\ g \in [DOMAIN g -> T]
BY DEF Restrict

LEMMA WithLine ==
    ASSUME NEW T, NEW f, DOMAIN f \subseteq Lines, f \in [DOMAIN f -> T],
           NEW l \in Lines, NEW v \in T,
           NEW g, g = [k \in DOMAIN f \cup {l} |-> IF k = l THEN v ELSE f[k]]
    PROVE  DOMAIN g = DOMAIN f \cup {l} /\ DOMAIN g \subseteq Lines /\ g \in [DOMAIN g -> T]
OBVIOUS

\* Parts of the state that a step leaves alone keep their types.
LEMMA TypeUnchanged ==
    /\ ReceiverTypeOK /\ UNCHANGED receiverVars => ReceiverTypeOK'
    /\ TablesTypeOK /\ UNCHANGED tableVars => TablesTypeOK'
    /\ MainTypeOK /\ UNCHANGED <<stepVars, mainVars, historyVars>> => MainTypeOK'
<1>1. ReceiverTypeOK /\ UNCHANGED receiverVars => ReceiverTypeOK'
  BY DEF ReceiverTypeOK, receiverVars
<1>2. TablesTypeOK /\ UNCHANGED tableVars => TablesTypeOK'
  BY DEF TablesTypeOK, tableVars
<1>3. MainTypeOK /\ UNCHANGED <<stepVars, mainVars, historyVars>> => MainTypeOK'
  BY DEF MainTypeOK, stepVars, mainVars, historyVars
<1> QED
  BY <1>1, <1>2, <1>3

\* What Record puts in the table is a dictionary.
LEMMA RecordedType ==
    ASSUME TypeOK, phase = "recording"
    PROVE  Recorded(setting) \in Meta
<1>1. setting \in DOMAIN wanted /\ wanted[setting] \in Kind /\ replacements \in Nat
  BY DEF TypeOK, ReceiverTypeOK, IsBreakpoints
<1>2. CASE setting \in DOMAIN meta
  <2>1. meta[setting] \in Meta
    BY <1>2 DEF TypeOK, TablesTypeOK
  <2> QED
    BY <1>1, <1>2, <2>1 DEF Recorded, Meta
<1>3. CASE setting \notin DOMAIN meta
  BY <1>1, <1>3 DEF Recorded, Meta
<1> QED
  BY <1>2, <1>3

\* The receiver's steps preserve types.
LEMMA TypeReceiver ==
    ASSUME TypeOK, Receiver
    PROVE  TypeOK'
<1> USE DEF TypeOK
<1>1. CASE BeginSetBreakpoints
  <2>1. ReceiverTypeOK'
    BY <1>1 DEF BeginSetBreakpoints, BeginRequest, ReceiverTypeOK, IsBreakpoints
  <2>2. TablesTypeOK'
    BY <1>1, TypeUnchanged DEF BeginSetBreakpoints
  <2>3. MainTypeOK'
    BY <1>1 DEF BeginSetBreakpoints, BeginRequest, MainTypeOK, stepVars, mainVars
  <2> QED
    BY <2>1, <2>2, <2>3
<1>2. CASE ClearBreak
  <2>1. PICK l \in DOMAIN breaks : breaks' = Restrict(breaks, DOMAIN breaks \ {l})
    BY <1>2 DEF ClearBreak
  <2>2. DOMAIN breaks' = DOMAIN breaks \ {l} /\ breaks' \in [DOMAIN breaks' -> BOOLEAN]
    BY <2>1, WithoutLine DEF TablesTypeOK
  <2>3. TablesTypeOK'
    BY <1>2, <2>2 DEF ClearBreak, TablesTypeOK
  <2> QED
    BY <1>2, <2>3, TypeUnchanged DEF ClearBreak
<1>3. CASE ClearMeta
  <2>1. ReceiverTypeOK'
    BY <1>3 DEF ClearMeta, ReceiverTypeOK
  <2>2. TablesTypeOK'
    BY <1>3 DEF ClearMeta, TablesTypeOK
  <2> QED
    BY <1>3, <2>1, <2>2, TypeUnchanged DEF ClearMeta
<1>4. CASE SetBreak
  <2>1. PICK l \in remaining :
           /\ setting' = l
           /\ breaks' = [k \in DOMAIN breaks \cup {l} |->
                           IF k = l THEN wanted[l].cond ELSE breaks[k]]
    BY <1>4 DEF SetBreak
  <2>2. l \in Lines /\ wanted[l].cond \in BOOLEAN
    BY DEF ReceiverTypeOK, IsBreakpoints, Kind
  <2>3. ReceiverTypeOK'
    BY <1>4, <2>1, <2>2 DEF SetBreak, ReceiverTypeOK
  <2>4. DOMAIN breaks' \subseteq Lines /\ breaks' \in [DOMAIN breaks' -> BOOLEAN]
    BY <2>1, <2>2, WithLine DEF TablesTypeOK
  <2>5. TablesTypeOK'
    BY <1>4, <2>4 DEF SetBreak, TablesTypeOK
  <2> QED
    BY <1>4, <2>3, <2>5, TypeUnchanged DEF SetBreak
<1>5. CASE Record
  <2>1. setting \in Lines
    BY <1>5 DEF Record, ReceiverTypeOK, IsBreakpoints
  <2>2. ReceiverTypeOK'
    BY <1>5 DEF Record, ReceiverTypeOK
  <2>3. DOMAIN meta' \subseteq Lines /\ meta' \in [DOMAIN meta' -> Meta]
    BY <1>5, <2>1, RecordedType, WithLine DEF Record, TablesTypeOK
  <2>4. TablesTypeOK'
    BY <1>5, <2>3 DEF Record, TablesTypeOK
  <2>5. MainTypeOK'
    BY <1>5, <2>1 DEF Record, MainTypeOK, stepVars, mainVars
  <2> QED
    BY <2>2, <2>4, <2>5
<1>6. CASE FinishSetBreakpoints
  <2>1. ReceiverTypeOK'
    BY <1>6 DEF FinishSetBreakpoints, ReceiverTypeOK
  <2> QED
    BY <1>6, <2>1, TypeUnchanged DEF FinishSetBreakpoints
<1>7. CASE BeginSetOthers
  <2>1. ReceiverTypeOK'
    BY <1>7 DEF BeginSetOthers, BeginRequest, ReceiverTypeOK
  <2>2. TablesTypeOK'
    BY <1>7 DEF BeginSetOthers, TablesTypeOK
  <2>3. MainTypeOK'
    BY <1>7 DEF BeginSetOthers, BeginRequest, MainTypeOK, stepVars, mainVars
  <2> QED
    BY <2>1, <2>2, <2>3
<1>8. CASE FinishSetOthers
  <2>1. ReceiverTypeOK'
    BY <1>8 DEF FinishSetOthers, ReceiverTypeOK
  <2>2. TablesTypeOK'
    BY <1>8 DEF FinishSetOthers, TablesTypeOK, ReceiverTypeOK
  <2> QED
    BY <1>8, <2>1, <2>2, TypeUnchanged DEF FinishSetOthers
<1>9. CASE Resume
  <2>1. MainTypeOK'
    BY <1>9 DEF Resume, MainTypeOK
  <2> QED
    BY <1>9, <2>1, TypeUnchanged DEF Resume
<1> QED
  BY <1>1, <1>2, <1>3, <1>4, <1>5, <1>6, <1>7, <1>8, <1>9 DEF Receiver

\* The main thread's steps preserve types.
LEMMA TypeMainThread ==
    ASSUME TypeOK, MainThread
    PROVE  TypeOK'
<1> USE DEF TypeOK
<1>1. CASE RunLine
  <2>1. MainTypeOK'
    BY <1>1 DEF RunLine, Pass, MainTypeOK, stepVars
  <2> QED
    BY <1>1, <2>1, TypeUnchanged DEF RunLine
<1>2. CASE Match
  <2>1. MainTypeOK'
    BY <1>2 DEF Match, MainTypeOK, stepVars, historyVars
  <2> QED
    BY <1>2, <2>1, TypeUnchanged DEF Match
<1>3. CASE LookUp
  <2>1. held' \in Meta
    BY <1>3, NoMetaType DEF LookUp, TablesTypeOK
  <2>2. MainTypeOK'
    BY <1>3, <2>1 DEF LookUp, MainTypeOK, stepVars, historyVars
  <2> QED
    BY <1>3, <2>2, TypeUnchanged DEF LookUp
<1>4. CASE Resolve
  <2>1. DOMAIN meta' = DOMAIN meta /\ meta' \in [DOMAIN meta -> Meta]
    BY <1>4 DEF Resolve, TablesTypeOK, MainTypeOK, Meta
  <2>2. TablesTypeOK'
    BY <1>4, <2>1 DEF Resolve, TablesTypeOK
  <2>3. MainTypeOK'
    BY <1>4 DEF Resolve, SetContinue, MainTypeOK, historyVars
  <2> QED
    BY <1>4, <2>2, <2>3, TypeUnchanged DEF Resolve
<1>5. CASE EndOfStep
  <2>1. MainTypeOK'
    BY <1>5 DEF EndOfStep, SetContinue, MainTypeOK, historyVars
  <2> QED
    BY <1>5, <2>1, TypeUnchanged DEF EndOfStep
<1>6. CASE CallFunction
  <2>1. MainTypeOK'
    BY <1>6 DEF CallFunction, Pass, MainTypeOK, stepVars
  <2> QED
    BY <1>6, <2>1, TypeUnchanged DEF CallFunction
<1> QED
  BY <1>1, <1>2, <1>3, <1>4, <1>5, <1>6 DEF MainThread

\* Whatever the client requests and the program runs, the tables, the receiver
\* and the main thread stay well typed.
THEOREM TypeCorrect == Spec => []TypeOK
<1>1. Init => TypeOK
  <2> SUFFICES ASSUME Init PROVE TypeOK
    OBVIOUS
  <2>1. ReceiverTypeOK
    <3>1. DOMAIN wanted = {} /\ IsBreakpoints(wanted)
      BY DEF Init, NoBreakpoints, IsBreakpoints
    <3>2. /\ phase = "idle" /\ remaining = {} /\ setting = 0
          /\ replacements = 0 /\ othersWanted = FALSE
      BY DEF Init
    <3>3. 0 \in 0..MaxReplacements
      OBVIOUS
    <3> QED
      BY <3>1, <3>2, <3>3 DEF ReceiverTypeOK
  <2>2. TablesTypeOK
    BY DEF Init, TablesTypeOK
  <2>3. MainTypeOK
    <3>1. entry \in BOOLEAN /\ asked \in BOOLEAN
      BY DEF Init
    <3>2. visits \in [Lines -> Nat]
      BY DEF Init
    <3>3. /\ tracing = TRUE /\ stepping = FALSE /\ mode = "step" /\ main = "running"
          /\ line = 0 /\ holds = FALSE /\ held = NoMeta /\ passes = 0 /\ clean = TRUE
      BY DEF Init
    <3>4. 0 \in 0..MaxPasses
      OBVIOUS
    <3> QED
      BY <3>1, <3>2, <3>3, <3>4, NoMetaType DEF MainTypeOK
  <2> QED
    BY <2>1, <2>2, <2>3 DEF TypeOK
<1>2. TypeOK /\ [Next]_vars => TypeOK'
  <2>1. ASSUME TypeOK, UNCHANGED vars PROVE TypeOK'
    BY <2>1, TypeUnchanged DEF vars, TypeOK
  <2> QED
    BY <2>1, TypeReceiver, TypeMainThread DEF Next
<1> QED
  BY <1>1, <1>2, PTL DEF Spec

-----------------------------------------------------------------------------
(***************************************************************************)
(* The two tables settle.                                                  *)
(***************************************************************************)

\* The lines of the latest request that are in line_meta, which follows bdb's
\* table by at most one line.
Done == DOMAIN wanted \ remaining

TablesFollow ==
    /\ phase \in {"idle", "others"} => remaining = {}
    /\ phase = "clearing" => remaining = DOMAIN wanted
    /\ phase # "clearing" =>
          /\ DOMAIN meta = Done
          /\ DOMAIN breaks = IF phase = "recording" THEN Done \cup {setting} ELSE Done
          /\ \A l \in DOMAIN breaks : breaks[l] = wanted[l].cond
          /\ \A l \in DOMAIN meta : meta[l].kind = wanted[l]

\* The main thread writes hits into line_meta and nothing else.
LEMMA TablesFollowMainThread ==
    ASSUME TypeOK, TablesFollow, MainThread
    PROVE  TablesFollow'
<1>1. /\ UNCHANGED <<phase, wanted, remaining, setting, breaks>>
      /\ DOMAIN meta' = DOMAIN meta
      /\ \A l \in DOMAIN meta : meta'[l].kind = meta[l].kind
  <2>1. CASE RunLine
    BY <2>1 DEF RunLine, receiverVars, tableVars
  <2>2. CASE Match
    BY <2>2 DEF Match, receiverVars, tableVars
  <2>3. CASE LookUp
    BY <2>3 DEF LookUp, receiverVars, tableVars
  <2>4. CASE Resolve
    <3>1. \A l \in DOMAIN meta : meta[l] \in Meta
      BY DEF TypeOK, TablesTypeOK
    <3> QED
      BY <2>4, <3>1 DEF Resolve, receiverVars, Meta
  <2>5. CASE EndOfStep
    BY <2>5 DEF EndOfStep, receiverVars, tableVars
  <2>6. CASE CallFunction
    BY <2>6 DEF CallFunction, receiverVars, tableVars
  <2> QED
    BY <2>1, <2>2, <2>3, <2>4, <2>5, <2>6 DEF MainThread
<1> QED
  BY <1>1 DEF TablesFollow, Done

\* A replacement keeps them in step.
LEMMA TablesFollowReceiver ==
    ASSUME TypeOK, TablesFollow, Receiver
    PROVE  TablesFollow'
<1>1. CASE BeginSetBreakpoints
  BY <1>1 DEF BeginSetBreakpoints, TablesFollow
<1>2. CASE ClearBreak
  BY <1>2 DEF ClearBreak, TablesFollow, receiverVars
<1>3. CASE ClearMeta
  BY <1>3 DEF ClearMeta, TablesFollow, Done
<1>4. CASE SetBreak
  <2>1. PICK l \in remaining :
           /\ setting' = l
           /\ breaks' = [k \in DOMAIN breaks \cup {l} |->
                           IF k = l THEN wanted[l].cond ELSE breaks[k]]
    BY <1>4 DEF SetBreak
  <2> QED
    BY <1>4, <2>1 DEF SetBreak, TablesFollow, Done
<1>5. CASE Record
  <2>1. /\ setting \in remaining /\ remaining \subseteq DOMAIN wanted
        /\ wanted[setting] \in Kind
    BY <1>5 DEF Record, TypeOK, ReceiverTypeOK, IsBreakpoints
  <2>2. setting \notin DOMAIN meta
    BY <1>5, <2>1 DEF Record, TablesFollow, Done
  <2>3. Recorded(setting).kind = wanted[setting]
    BY <2>2 DEF Recorded
  <2>4. DOMAIN meta' = Done' /\ DOMAIN breaks' = Done'
    BY <1>5, <2>1 DEF Record, TablesFollow, Done
  <2>5. \A l \in DOMAIN meta' : meta'[l].kind = wanted'[l]
    BY <1>5, <2>3 DEF Record, TablesFollow
  <2> QED
    BY <1>5, <2>4, <2>5 DEF Record, TablesFollow
<1>6. CASE FinishSetBreakpoints
  BY <1>6 DEF FinishSetBreakpoints, TablesFollow, Done, tableVars
<1>7. CASE BeginSetOthers
  BY <1>7 DEF BeginSetOthers, BeginRequest, TablesFollow, Done
<1>8. CASE FinishSetOthers
  BY <1>8 DEF FinishSetOthers, TablesFollow, Done
<1>9. CASE Resume
  BY <1>9 DEF Resume, TablesFollow, Done, receiverVars, tableVars
<1> QED
  BY <1>1, <1>2, <1>3, <1>4, <1>5, <1>6, <1>7, <1>8, <1>9 DEF Receiver

LEMMA TablesFollowAlways == Spec => []TablesFollow
<1>1. Init => TablesFollow
  BY DEF Init, TablesFollow, Done, NoBreakpoints
<1>2. TypeOK /\ TablesFollow /\ [Next]_vars => TablesFollow'
  <2>1. ASSUME TablesFollow, UNCHANGED vars PROVE TablesFollow'
    BY <2>1 DEF vars, receiverVars, tableVars, TablesFollow, Done
  <2> QED
    BY <2>1, TablesFollowReceiver, TablesFollowMainThread DEF Next
<1> QED
  BY <1>1, <1>2, TypeCorrect, PTL DEF Spec

\* After each replacement bdb's table and line_meta hold exactly what was
\* requested, whatever the program did meanwhile and however often.
THEOREM TablesSettleAlways == Spec => []TablesSettle
<1>1. TypeOK /\ TablesFollow => TablesSettle
  BY DEF TablesFollow, TablesSettle, Done
<1> QED
  BY <1>1, TypeCorrect, TablesFollowAlways, PTL

-----------------------------------------------------------------------------
(***************************************************************************)
(* Hits are those since the breakpoint was set.                            *)
(***************************************************************************)

\* Every dictionary in the table was made by a replacement, and an earlier one
\* while the table waits to be emptied.
MadeBy ==
    /\ held.made \in 0..replacements
    /\ \A l \in DOMAIN meta : meta[l].made \in 1..replacements
    /\ phase \in {"clearing", "filling", "recording"} => replacements > 0
    /\ phase = "clearing" => /\ held.made < replacements
                             /\ \A l \in DOMAIN meta : meta[l].made < replacements

\* A dictionary the main thread holds is the one in the table if the same
\* replacement made both: a line that is not yet recorded cannot be held.
HeldIsCurrent ==
    main = "held" =>
       /\ phase \in {"filling", "recording"} /\ held.made = replacements => line \in DOMAIN meta
       /\ line \in DOMAIN meta /\ meta[line].made = held.made => meta[line].hits = held.hits

\* No line has more hits than passes, and a pass in progress is yet to count.
Counted ==
    /\ \A l \in DOMAIN meta : meta[l].hits <= visits[l]
    /\ main \in {"entered", "matched", "held"} /\ line \in DOMAIN meta
          => meta[line].hits + 1 <= visits[line]

HitsFollow == MadeBy /\ HeldIsCurrent /\ Counted

\* The facts about types that the steps below need.
LEMMA TableNumbers ==
    ASSUME TypeOK
    PROVE  /\ replacements \in Nat /\ held.made \in Nat /\ held.hits \in Nat
           /\ \A l \in DOMAIN meta : /\ l \in Lines /\ meta[l] \in Meta
                                     /\ meta[l].made \in Nat /\ meta[l].hits \in Nat
           /\ \A l \in Lines : visits[l] \in Nat
<1>1. replacements \in Nat
  BY DEF TypeOK, ReceiverTypeOK
<1>2. held.made \in Nat /\ held.hits \in Nat
  BY DEF TypeOK, MainTypeOK, Meta
<1>3. \A l \in DOMAIN meta : l \in Lines /\ meta[l] \in Meta
  BY DEF TypeOK, TablesTypeOK
<1>4. \A l \in Lines : visits[l] \in Nat
  BY DEF TypeOK, MainTypeOK
<1> QED
  BY <1>1, <1>2, <1>3, <1>4 DEF Meta

\* The receiver's steps that touch neither line_meta nor replacements.
LEMMA HitsFollowUnchanged ==
    ASSUME HitsFollow, UNCHANGED <<replacements, meta, mainVars, visits>>,
           phase' = "clearing" => phase = "clearing",
           phase' \in {"filling", "recording"} => phase \in {"filling", "recording"}
    PROVE  HitsFollow'
BY DEF HitsFollow, MadeBy, HeldIsCurrent, Counted, mainVars

LEMMA HitsFollowReceiver ==
    ASSUME TypeOK, TablesFollow, HitsFollow, Receiver
    PROVE  HitsFollow'
<1>1. CASE BeginRequest /\ UNCHANGED meta /\ phase' \in {"clearing", "others"}
  <2>1. replacements' = replacements + 1 /\ UNCHANGED <<main, line, held, meta, visits>>
    BY <1>1 DEF BeginRequest, mainVars
  <2>2. MadeBy'
    BY <1>1, <2>1, TableNumbers DEF HitsFollow, MadeBy
  <2>3. HeldIsCurrent'
    BY <1>1, <2>1 DEF HitsFollow, HeldIsCurrent
  <2>4. Counted'
    BY <2>1 DEF HitsFollow, Counted
  <2> QED
    BY <2>2, <2>3, <2>4 DEF HitsFollow
<1>2. CASE ClearBreak
  BY <1>2, HitsFollowUnchanged DEF ClearBreak, receiverVars, historyVars
<1>3. CASE ClearMeta
  <2>1. /\ phase = "clearing" /\ phase' = "filling" /\ DOMAIN meta' = {}
        /\ UNCHANGED <<replacements, main, line, held, visits>>
    BY <1>3 DEF ClearMeta, mainVars, historyVars
  <2>2. held.made # replacements
    BY <2>1, TableNumbers DEF HitsFollow, MadeBy
  <2> QED
    BY <2>1, <2>2 DEF HitsFollow, MadeBy, HeldIsCurrent, Counted
<1>4. CASE SetBreak
  BY <1>4, HitsFollowUnchanged DEF SetBreak, historyVars
<1>5. CASE Record
  <2>1. /\ phase = "recording" /\ phase' = "filling"
        /\ meta' = [k \in DOMAIN meta \cup {setting} |->
                      IF k = setting THEN Recorded(setting) ELSE meta[k]]
        /\ visits' = [visits EXCEPT ![setting] =
                        IF main \notin {"running", "stopped"} /\ line = setting THEN 1 ELSE 0]
        /\ UNCHANGED <<replacements, main, line, held>>
    BY <1>5 DEF Record, mainVars
  <2>2. setting \in Lines /\ setting \notin DOMAIN meta
    BY <2>1 DEF TypeOK, ReceiverTypeOK, IsBreakpoints, TablesFollow, Done
  <2>3. meta'[setting].hits = 0 /\ meta'[setting].made = replacements
    BY <2>1, <2>2 DEF Recorded
  <2>4. \A l \in DOMAIN meta : meta'[l] = meta[l] /\ visits'[l] = visits[l]
    BY <2>1, <2>2, TableNumbers DEF TypeOK, MainTypeOK
  <2>5. MadeBy'
    BY <2>1, <2>3, <2>4, TableNumbers DEF HitsFollow, MadeBy
  <2>6. main = "held" /\ line = setting => held.made # replacements
    BY <2>1, <2>2 DEF HitsFollow, HeldIsCurrent
  <2>7. HeldIsCurrent'
    BY <2>1, <2>3, <2>4, <2>6 DEF HitsFollow, HeldIsCurrent
  <2>8. visits'[setting] = IF main \notin {"running", "stopped"} /\ line = setting THEN 1 ELSE 0
    BY <2>1, <2>2 DEF TypeOK, MainTypeOK
  <2>9. Counted'
    BY <2>1, <2>3, <2>4, <2>8 DEF HitsFollow, Counted
  <2> QED
    BY <2>5, <2>7, <2>9 DEF HitsFollow
<1>6. CASE FinishSetBreakpoints
  BY <1>6, HitsFollowUnchanged DEF FinishSetBreakpoints, tableVars, historyVars
<1>7. CASE FinishSetOthers
  BY <1>7, HitsFollowUnchanged DEF FinishSetOthers, historyVars
<1>8. CASE Resume
  BY <1>8 DEF Resume, receiverVars, tableVars, HitsFollow, MadeBy, HeldIsCurrent, Counted
<1> QED
  BY <1>1, <1>2, <1>3, <1>4, <1>5, <1>6, <1>7, <1>8
  DEF Receiver, BeginSetBreakpoints, BeginSetOthers, tableVars

LEMMA HitsFollowMainThread ==
    ASSUME TypeOK, HitsFollow, MainThread
    PROVE  HitsFollow'
<1>1. CASE RunLine
  <2>1. /\ UNCHANGED <<phase, replacements, meta, held>>
        /\ main' \in {"entered", "running"} /\ line' \in Lines
        /\ visits' = [visits EXCEPT ![line'] = @ + 1]
    BY <1>1 DEF RunLine, receiverVars, tableVars
  <2>2. /\ visits'[line'] = visits[line'] + 1
        /\ \A l \in Lines \ {line'} : visits'[l] = visits[l]
    BY <2>1 DEF TypeOK, MainTypeOK
  <2>3. Counted'
    BY <2>1, <2>2, TableNumbers DEF HitsFollow, Counted
  <2> QED
    BY <2>1, <2>3 DEF HitsFollow, MadeBy, HeldIsCurrent
<1>2. CASE Match
  BY <1>2 DEF Match, receiverVars, tableVars, historyVars, HitsFollow, MadeBy,
              HeldIsCurrent, Counted
<1>3. CASE LookUp
  <2>1. /\ UNCHANGED <<phase, replacements, meta, line, visits>>
        /\ main = "matched" /\ main' = "held"
        /\ held' = IF line \in DOMAIN meta THEN meta[line] ELSE NoMeta
    BY <1>3 DEF LookUp, receiverVars, tableVars, historyVars
  <2>2. NoMeta.made = 0
    BY DEF NoMeta
  <2>3. MadeBy'
    BY <2>1, <2>2, TableNumbers DEF HitsFollow, MadeBy
  <2>4. HeldIsCurrent'
    BY <2>1, <2>2, TableNumbers DEF HitsFollow, MadeBy, HeldIsCurrent
  <2> QED
    BY <2>1, <2>3, <2>4 DEF HitsFollow, Counted
<1>4. CASE Resolve
  <2>1. /\ UNCHANGED <<phase, replacements, held, visits, line>>
        /\ main = "held" /\ main' \in {"running", "stopped"}
        /\ meta' = IF line \in DOMAIN meta /\ meta[line].made = held.made
                   THEN [meta EXCEPT ![line].hits = held.hits + 1] ELSE meta
    BY <1>4 DEF Resolve, SetContinue, receiverVars, historyVars
  <2>2. CASE meta' = meta
    BY <2>1, <2>2 DEF HitsFollow, MadeBy, HeldIsCurrent, Counted
  <2>3. CASE line \in DOMAIN meta /\ meta[line].made = held.made
    <3>1. /\ DOMAIN meta' = DOMAIN meta
          /\ \A l \in DOMAIN meta \ {line} : meta'[l] = meta[l]
          /\ meta'[line] = [meta[line] EXCEPT !.hits = held.hits + 1]
      BY <2>1, <2>3 DEF TypeOK, TablesTypeOK
    <3>2. meta'[line].hits = held.hits + 1 /\ meta'[line].made = meta[line].made
      BY <2>3, <3>1, TableNumbers DEF Meta
    <3>3. held.hits + 1 <= visits[line]
      BY <2>1, <2>3 DEF HitsFollow, HeldIsCurrent, Counted
    <3>4. \A l \in DOMAIN meta : meta'[l].made = meta[l].made
      BY <3>1, <3>2
    <3>5. MadeBy'
      BY <2>1, <3>1, <3>4 DEF HitsFollow, MadeBy
    <3>6. Counted'
      BY <2>1, <3>1, <3>2, <3>3 DEF HitsFollow, Counted
    <3> QED
      BY <2>1, <3>5, <3>6 DEF HitsFollow, HeldIsCurrent
  <2> QED
    BY <2>1, <2>2, <2>3
<1>5. CASE EndOfStep
  BY <1>5 DEF EndOfStep, SetContinue, receiverVars, tableVars, historyVars, HitsFollow,
              MadeBy, HeldIsCurrent, Counted
<1>6. CASE CallFunction
  <2>1. /\ UNCHANGED <<phase, replacements, meta, held, line, visits>>
        /\ main' \in {"running", "stopped"}
    BY <1>6 DEF CallFunction, Pass, receiverVars, tableVars
  <2> QED
    BY <2>1 DEF HitsFollow, MadeBy, HeldIsCurrent, Counted
<1> QED
  BY <1>1, <1>2, <1>3, <1>4, <1>5, <1>6 DEF MainThread

\* A replaced breakpoint starts counting again: a pass that holds the old
\* dictionary cannot write its count into the new one.
THEOREM HitsStartAgain == Spec => []HitsAreFresh
<1>1. Init => HitsFollow
  BY DEF Init, HitsFollow, MadeBy, HeldIsCurrent, Counted, NoMeta
<1>2. TypeOK /\ TablesFollow /\ HitsFollow /\ [Next]_vars => HitsFollow'
  <2>1. ASSUME HitsFollow, UNCHANGED vars PROVE HitsFollow'
    BY <2>1 DEF vars, receiverVars, tableVars, mainVars, historyVars, HitsFollow, MadeBy,
                HeldIsCurrent, Counted
  <2> QED
    BY <2>1, HitsFollowReceiver, HitsFollowMainThread DEF Next
<1>3. HitsFollow => HitsAreFresh
  BY DEF HitsFollow, Counted, HitsAreFresh
<1> QED
  BY <1>1, <1>2, <1>3, TypeCorrect, TablesFollowAlways, PTL DEF Spec

\* However replacements and passes interleave, nothing of an earlier request is
\* left in the tables once it is answered, nor ever in the counts of hits.
THEOREM TablesAreAlwaysCurrent == Spec => []TablesAreCurrent
<1>1. TablesSettle /\ HitsAreFresh => TablesAreCurrent
  BY DEF TablesAreCurrent
<1> QED
  BY <1>1, TablesSettleAlways, HitsStartAgain, PTL

-----------------------------------------------------------------------------
(***************************************************************************)
(* A pass that no replacement overlaps.  While it lasts the tables hold    *)
(* still, so what is looked up is what stands there, and bdb's step mode   *)
(* agrees with the stepping flags whenever the program moves.              *)
(***************************************************************************)
InPass == main \notin {"running", "stopped"}

CleanPass ==
    /\ clean /\ InPass => phase = "idle"
    /\ mode = "step" /\ main # "stopped" => (asked <=> entry \/ stepping)
    /\ clean /\ main = "entered" => mode = "step" \/ line \in DOMAIN breaks
    /\ clean /\ main \in {"matched", "held"} => line \in DOMAIN breaks
    /\ clean /\ main = "held" => line \in DOMAIN meta /\ held = meta[line]
    /\ clean /\ main = "missed" => mode = "step" /\ line \notin DOMAIN breaks

LEMMA CleanPassNext ==
    ASSUME TypeOK, TablesSettle, CleanPass, [Next]_vars
    PROVE  CleanPass'
<1> USE DEF receiverVars, tableVars, stepVars, mainVars, historyVars, InPass
<1>1. CASE BeginSetBreakpoints \/ BeginSetOthers
  BY <1>1 DEF BeginSetBreakpoints, BeginSetOthers, BeginRequest, CleanPass
<1>2. CASE ClearBreak \/ ClearMeta \/ SetBreak \/ Record \/ FinishSetBreakpoints \/ FinishSetOthers
  <2>1. phase # "idle" /\ UNCHANGED <<stepVars, mainVars, asked, clean>>
    BY <1>2 DEF ClearBreak, ClearMeta, SetBreak, Record, FinishSetBreakpoints, FinishSetOthers
  <2>2. ~(clean /\ InPass)
    BY <2>1 DEF CleanPass
  <2> QED
    BY <2>1, <2>2 DEF CleanPass
<1>3. CASE Resume
  <2>1. /\ main = "stopped" /\ main' = "running" /\ asked' \in BOOLEAN /\ entry' = entry
        /\ mode' = IF asked' THEN "step" ELSE "continue"
        /\ stepping' = (asked' \/ stepping)
    BY <1>3 DEF Resume
  <2>2. mode' = "step" => asked' /\ stepping'
    BY <2>1
  <2> QED
    BY <2>1, <2>2 DEF CleanPass
<1>4. CASE RunLine
  <2>1. /\ main = "running" /\ clean' = (phase = "idle")
        /\ main' = "entered" \/ main' = "running"
        /\ main' = "entered" => mode = "step" \/ line' \in DOMAIN breaks
        /\ UNCHANGED <<phase, breaks, mode, entry, stepping, asked>>
    BY <1>4 DEF RunLine, Pass, BreakHere
  <2> QED
    BY <2>1 DEF CleanPass
<1>5. CASE Match
  <2>1. /\ main = "entered"
        /\ main' = IF line \in DOMAIN breaks THEN "matched" ELSE "missed"
        /\ UNCHANGED <<phase, breaks, mode, entry, stepping, asked, clean, line>>
    BY <1>5 DEF Match
  <2> QED
    BY <2>1 DEF CleanPass
<1>6. CASE LookUp
  <2>1. /\ main = "matched" /\ main' = "held"
        /\ held' = IF line \in DOMAIN meta THEN meta[line] ELSE NoMeta
        /\ UNCHANGED <<phase, breaks, meta, mode, entry, stepping, asked, clean, line>>
    BY <1>6 DEF LookUp
  <2>2. clean => line \in DOMAIN breaks /\ line \in DOMAIN meta
    BY <2>1 DEF CleanPass, TablesSettle
  <2> QED
    BY <2>1, <2>2 DEF CleanPass
<1>7. CASE Resolve
  <2>1. /\ main' \in {"stopped", "running"} /\ UNCHANGED <<phase, entry, stepping, asked>>
        /\ main' = "running" => mode' = "continue"
    BY <1>7 DEF Resolve, SetContinue
  <2> QED
    BY <2>1 DEF CleanPass
<1>8. CASE EndOfStep
  <2>1. /\ main' \in {"stopped", "running"} /\ UNCHANGED <<phase, asked>>
        /\ main' = "running" => mode' = "continue"
    BY <1>8 DEF EndOfStep, SetContinue
  <2> QED
    BY <2>1 DEF CleanPass
<1>9. CASE CallFunction
  <2>1. /\ main = "running" /\ main' \in {"stopped", "running"}
        /\ UNCHANGED <<phase, mode, entry, stepping, asked>>
    BY <1>9 DEF CallFunction, Pass
  <2> QED
    BY <2>1 DEF CleanPass
<1>10. CASE UNCHANGED vars
  BY <1>10 DEF vars, CleanPass
<1> QED
  BY <1>1, <1>2, <1>3, <1>4, <1>5, <1>6, <1>7, <1>8, <1>9, <1>10 DEF Next, Receiver, MainThread

\* A pass that no replacement overlaps leaves its line stopped exactly when the breakpoints of
\* the latest request, or the command that resumed the program, say so.
LEMMA PassDecides ==
    ASSUME TypeOK, TablesSettle, CleanPass, [Next]_vars, clean, main \in {"held", "missed"},
           main' # main
    PROVE  main' = "stopped" <=> Expected
<1> USE DEF receiverVars, tableVars, stepVars, mainVars, historyVars
<1>0. phase = "idle" /\ DOMAIN breaks = DOMAIN wanted
      /\ \A l \in DOMAIN wanted : meta[l].kind = wanted[l]
  BY DEF CleanPass, InPass, TablesSettle
<1>1. CASE Resolve
  <2>1. main = "held" /\ line \in DOMAIN wanted /\ held = meta[line] /\ held.kind = wanted[line]
    BY <1>0, <1>1 DEF Resolve, CleanPass
  <2>2. main' = "stopped" <=> held = NoMeta \/ Stops(held.kind, holds, held.hits + 1)
    BY <1>1 DEF Resolve, SetContinue
  <2>3. held = NoMeta => Stops(held.kind, holds, held.hits + 1)
    BY DEF NoMeta, NoKind, Stops, HitConditionMet
  <2>4. Expected <=> Stops(held.kind, holds, held.hits + 1)
    BY <2>1 DEF Expected, Stops
  <2> QED
    BY <2>2, <2>3, <2>4
<1>2. CASE EndOfStep
  <2>1. main = "missed" /\ (main' = "stopped" <=> entry \/ stepping)
    BY <1>2 DEF EndOfStep, SetContinue
  <2>2. line \notin DOMAIN wanted /\ (asked <=> entry \/ stepping)
    BY <1>0, <2>1 DEF CleanPass
  <2> QED
    BY <2>1, <2>2 DEF Expected
<1>3. Resolve \/ EndOfStep
  BY DEF Next, Receiver, MainThread, BeginSetBreakpoints, BeginSetOthers, BeginRequest, ClearBreak,
         ClearMeta, SetBreak, Record, FinishSetBreakpoints, FinishSetOthers, Resume, RunLine, Pass,
         Match, LookUp, CallFunction, vars
<1> QED
  BY <1>1, <1>2, <1>3

\* However many replacements, stale flags and lost steps came before it, a pass that no
\* replacement overlaps stops exactly when it should.
THEOREM PassIsExactAlways == Spec => PassIsExact
<1>1. Init => CleanPass
  BY DEF Init, CleanPass, InPass
<1>2. TypeOK /\ TablesSettle /\ CleanPass /\ [Next]_vars => CleanPass'
  BY CleanPassNext
<1>3. TypeOK /\ TablesSettle /\ CleanPass /\ [Next]_vars
        => [clean /\ main \in {"held", "missed"} /\ main' # main
              => (main' = "stopped" <=> Expected)]_vars
  BY PassDecides
<1> QED
  BY <1>1, <1>2, <1>3, TypeCorrect, TablesSettleAlways, PTL DEF Spec, PassIsExact

=============================================================================
