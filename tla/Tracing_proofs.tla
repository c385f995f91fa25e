--------------------------- MODULE Tracing_proofs ---------------------------
(***************************************************************************)
(* Proofs about the ways the debugger attaches to a program and follows    *)
(* it: SelectiveTracing, MonitoringBackend, BytecodeInjection, AttachByPid *)
(* and EvalFrameHook, each for every value of its constants.               *)
(***************************************************************************)
EXTENDS SelectiveTracing, MonitoringBackend, BytecodeInjection, AttachByPid,
        EvalFrameHook, Integers, SequenceTheorems, FiniteSetTheorems,
        WellFoundedInduction, TLAPS

-----------------------------------------------------------------------------
(***************************************************************************)
(* SelectiveTracing: the caches.                                           *)
(***************************************************************************)

\* The two kinds of steps of an update that have to do with the cache.
CacheSteps == {"check", "store", "elsewhere"}

\* An update under way carries the lines of the table; only its first step can
\* have read the switch; and one that holds the replaced cache meets a new
\* cache without an entry for its file.
PendingSteps == [do : CacheSteps \cup {"conditions"}, file : SourceFiles, lines : SUBSET LineNos]

UpdatesUnderWay ==
    /\ pending \in Seq(PendingSteps)
    /\ \A i \in DOMAIN pending :
          /\ pending[i].do \in CacheSteps => pending[i].lines = table[pending[i].file]
          /\ pending[i].do \in {"store", "elsewhere"} => i = 1
          /\ pending[i].do = "elsewhere" => pending[i].file \notin DOMAIN cached

Waiting(f) == \E i \in DOMAIN pending : pending[i].file = f /\ pending[i].do # "conditions"

\* What CacheAgrees says of one file.
Agrees(f) ==
    \/ f \in unsent
    \/ Waiting(f)
    \/ f \in DOMAIN cached /\ cached[f] = table[f] /\ table[f] # {}
    \/ f \notin DOMAIN cached /\ (table[f] = {} \/ f \in dropped)

CachesTyped ==
    /\ table \in [SourceFiles -> SUBSET LineNos]
    /\ DOMAIN cached \subseteq SourceFiles
    /\ cached = [f \in DOMAIN cached |-> cached[f]]

InfoRecords == [weak : SUBSET CodeObjects, lru : Seq(CodeObjects), stamps : SUBSET CodeObjects,
                old : SUBSET CodeObjects, size : Nat]

InfosBounded ==
    /\ infos \in InfoRecords
    /\ Len(infos.lru) <= infos.size

CacheInv == /\ CachesTyped /\ UpdatesUnderWay /\ InfosBounded
            /\ \A f \in SourceFiles : Agrees(f)

-----------------------------------------------------------------------------
\* A smaller cache holds the same lines for the files it still has.
Within(e, d) ==
    /\ e.cached = [f \in DOMAIN e.cached |-> e.cached[f]]
    /\ DOMAIN e.cached \subseteq DOMAIN d.cached
    /\ \A f \in DOMAIN e.cached : e.cached[f] = d.cached[f]

LEMMA RemovedEntry ==
    ASSUME NEW e, NEW f
    PROVE  /\ Within(_remove_entry(e, f), e)
           /\ DOMAIN _remove_entry(e, f).cached = DOMAIN e.cached \ {f}
  BY DEF Within, _remove_entry, Restrict

LEMMA OldestEvicted ==
    ASSUME NEW e, e.cached = [f \in DOMAIN e.cached |-> e.cached[f]],
           e = [cached |-> e.cached, order |-> e.order, stale |-> e.stale]
    PROVE  Within(EvictOldest(e), e) /\ Within(Room(e), e)
  <1>1. Within(e, e)
    BY DEF Within
  <1>2. ASSUME NEW s PROVE [e EXCEPT !.order = s].cached = e.cached
    OBVIOUS
  <1>3. ASSUME NEW s, NEW f PROVE Within(_remove_entry([e EXCEPT !.order = s], f), e)
    <2>1. Within(_remove_entry([e EXCEPT !.order = s], f), [e EXCEPT !.order = s])
      BY RemovedEntry
    <2> QED BY <2>1, <1>2 DEF Within
  <1>4. Within(EvictOldest(e), e)
    <2>1. ASSUME NEW i PROVE Within(IF i = 0 THEN [e EXCEPT !.order = <<>>]
                    ELSE _remove_entry([e EXCEPT !.order = SubSeq(@, i + 1, Len(@))], e.order[i]), e)
      <3>1. CASE i = 0
        BY <3>1, <1>1, <1>2 DEF Within
      <3>2. CASE i # 0
        BY <3>2, <1>3
      <3> QED BY <3>1, <3>2
    <2> QED BY <2>1 DEF EvictOldest
  <1> QED BY <1>1, <1>4 DEF Room

\* What set_breakpoints does to the entries: the file has the lines it was
\* given, or none; any other file keeps its lines or is evicted.
LEMMA EntryReplaced ==
    ASSUME NEW f \in SourceFiles, NEW ls, CachesTyped
    PROVE  LET e == set_breakpoints(Entries, f, ls)
           IN  /\ e.cached = [g \in DOMAIN e.cached |-> e.cached[g]]
               /\ DOMAIN e.cached \subseteq DOMAIN cached \cup {f}
               /\ ls = {} => f \notin DOMAIN e.cached
               /\ ls # {} => f \in DOMAIN e.cached /\ e.cached[f] = ls
               /\ \A g \in DOMAIN e.cached \ {f} : e.cached[g] = cached[g]
  <1> DEFINE without == IF f \in DOMAIN Entries.cached THEN _remove_entry(Entries, f) ELSE Entries
             room == Room(without)
  <1>1. /\ Entries.cached = cached
        /\ Entries = [cached |-> cached, order |-> order, stale |-> stale]
    BY DEF Entries
  <1>2. /\ Within(without, Entries) /\ f \notin DOMAIN without.cached
        /\ without = [cached |-> without.cached, order |-> without.order, stale |-> without.stale]
    <2>1. CASE f \in DOMAIN cached
      <3>1. without = _remove_entry(Entries, f)
        BY <2>1, <1>1
      <3>2. Within(_remove_entry(Entries, f), Entries) /\ f \notin DOMAIN _remove_entry(Entries, f).cached
        BY RemovedEntry
      <3>3. _remove_entry(Entries, f) = [cached |-> _remove_entry(Entries, f).cached,
                order |-> _remove_entry(Entries, f).order, stale |-> _remove_entry(Entries, f).stale]
        BY DEF _remove_entry
      <3> QED BY <3>1, <3>2, <3>3
    <2>2. CASE f \notin DOMAIN cached
      BY <2>2, <1>1 DEF Within, CachesTyped, Entries
    <2> QED BY <2>1, <2>2
  <1>3. Within(room, without)
    <2>1. without.cached = [g \in DOMAIN without.cached |-> without.cached[g]]
      BY <1>2 DEF Within
    <2> HIDE DEF without
    <2> QED BY <2>1, <1>2, OldestEvicted
  <1>4. Within(room, Entries)
    BY <1>2, <1>3 DEF Within
  <1>5. CASE ls = {}
    <2>1. set_breakpoints(Entries, f, ls) = without
      BY <1>5, <1>1 DEF set_breakpoints
    <2> QED BY <2>1, <1>2, <1>1, <1>5 DEF Within
  <1>6. CASE ls # {}
    <2>1. set_breakpoints(Entries, f, ls).cached
             = [g \in DOMAIN room.cached \cup {f} |-> IF g = f THEN ls ELSE room.cached[g]]
      BY <1>6, <1>1 DEF set_breakpoints
    <2> HIDE DEF room
    <2> QED BY <2>1, <1>4, <1>1, <1>6 DEF Within
  <1> QED BY <1>5, <1>6

\* A look-up leaves every file its lines, or takes its entry away.
LEMMA LookedUp ==
    ASSUME NEW f, CachesTyped
    PROVE  Within(get_breakpoints(f).entries, Entries)
  <1>1. Within(Entries, Entries)
    BY DEF Within, Entries, CachesTyped
  <1>2. ASSUME NEW s PROVE Within([Entries EXCEPT !.order = s], Entries)
    BY <1>1 DEF Within, Entries
  <1>3. Within(_remove_entry(Entries, f), Entries)
    BY RemovedEntry
  <1> QED BY <1>1, <1>2, <1>3 DEF get_breakpoints

-----------------------------------------------------------------------------
\* The steps that give cache entries up, whatever else they change: what is
\* gone is among the dropped.
LEMMA EntriesGivenUp ==
    ASSUME CacheInv, NEW e, Within(e, Entries), SetEntries(e),
           dropped \cup Gone(e) \subseteq dropped',
           UNCHANGED <<table, pending, unsent>>
    PROVE  CachesTyped' /\ UpdatesUnderWay' /\ \A f \in SourceFiles : Agrees(f)'
  <1>1. /\ cached' = e.cached /\ DOMAIN e.cached \subseteq DOMAIN cached
        /\ \A f \in DOMAIN e.cached : e.cached[f] = cached[f]
        /\ e.cached = [f \in DOMAIN e.cached |-> e.cached[f]]
    BY DEF SetEntries, Within, Entries
  <1>2. CachesTyped'
    BY <1>1 DEF CacheInv, CachesTyped
  <1>3. UpdatesUnderWay'
    BY <1>1 DEF CacheInv, UpdatesUnderWay
  <1>4. ASSUME NEW f \in SourceFiles PROVE Agrees(f)'
    BY <1>1 DEF CacheInv, Agrees, Waiting, Gone
  <1> QED BY <1>2, <1>3, <1>4

LEMMA CacheCleared ==
    ASSUME CacheInv, SetEntries(Emptied), dropped' = SourceFiles, UNCHANGED <<table, pending, unsent>>
    PROVE  CachesTyped' /\ UpdatesUnderWay' /\ \A f \in SourceFiles : Agrees(f)'
  <1>1. Within(Emptied, Entries)
    BY DEF Within, Emptied
  <1>2. cached' = <<>> /\ DOMAIN cached' = {}
    BY DEF SetEntries, Emptied
  <1>3. CachesTyped'
    BY <1>2 DEF CacheInv, CachesTyped
  <1>4. UpdatesUnderWay'
    BY <1>2 DEF CacheInv, UpdatesUnderWay
  <1>5. ASSUME NEW f \in SourceFiles PROVE Agrees(f)'
    BY <1>2 DEF Agrees
  <1> QED BY <1>3, <1>4, <1>5

-----------------------------------------------------------------------------
(* The sequences of the caches and their sizes.                            *)

LEMMA SmallestIn ==
    ASSUME NEW N \in SUBSET Nat, N # {}
    PROVE  Min(N) \in N /\ \A n \in N : Min(N) <= n
  <1>1. PICK m \in N : \A n \in N : <<n, m>> \notin OpToRel(<, Nat)
    BY NatLessThanWellFounded, WFMin, Zenon
  <1>2. \A n \in N : <<n, m>> \in Nat \X Nat
    OBVIOUS
  <1>3. \A n \in N : ~(n < m)
    BY <1>1, <1>2 DEF OpToRel
  <1>4. \A n \in N : m =< n
    BY <1>3
  <1> QED BY <1>4 DEF Min

LEMMA Slice ==
    ASSUME NEW T, NEW s \in Seq(T), NEW m \in 1..(Len(s) + 1), NEW n \in 0..Len(s), m <= n + 1
    PROVE  SubSeq(s, m, n) \in Seq(T) /\ Len(SubSeq(s, m, n)) = n - m + 1
  <1>1. m \in Int /\ n \in Int /\ \A i \in m..n : s[i] \in T
    OBVIOUS
  <1>2. /\ SubSeq(s, m, n) \in Seq(T)
        /\ Len(SubSeq(s, m, n)) = IF m <= n THEN n - m + 1 ELSE 0
    BY <1>1, SubSeqProperties
  <1> QED BY <1>2

\* Taking an element out of an order: it gets no longer, and is one shorter
\* where the element was there.
LEMMA TakenOut ==
    ASSUME NEW T, NEW s \in Seq(T), NEW e
    PROVE  /\ RemoveFirst(s, e) \in Seq(T)
           /\ Len(RemoveFirst(s, e)) <= Len(s)
           /\ e \in Range(s) => Len(RemoveFirst(s, e)) + 1 = Len(s)
  <1> DEFINE Places == {i \in 1..Len(s) : s[i] = e}
  <1>1. CASE Places = {}
    <2>1. RemoveFirst(s, e) = s
      BY <1>1 DEF RemoveFirst
    <2>2. e \notin Range(s)
      BY <1>1 DEF Range
    <2> QED BY <2>1, <2>2
  <1>2. CASE Places # {}
    <2>1. PICK i \in 1..Len(s) : i = Min(Places)
      <3>1. Places \in SUBSET Nat
        OBVIOUS
      <3>2. Min(Places) \in Places
        BY <3>1, <1>2, SmallestIn
      <3> QED BY <3>2
    <2>2. RemoveFirst(s, e) = RemoveAt(s, Min(Places))
      BY <1>2 DEF RemoveFirst, SelectInSeq
    <2>3. RemoveFirst(s, e) = SubSeq(s, 1, i - 1) \o SubSeq(s, i + 1, Len(s))
      BY <2>1, <2>2 DEF RemoveAt
    <2>4. /\ SubSeq(s, 1, i - 1) \in Seq(T) /\ Len(SubSeq(s, 1, i - 1)) = i - 1
          /\ SubSeq(s, i + 1, Len(s)) \in Seq(T) /\ Len(SubSeq(s, i + 1, Len(s))) = Len(s) - i
      <3>1. i \in 1..Len(s) /\ Len(s) \in Nat
        BY <2>1
      <3>2. SubSeq(s, 1, i - 1) \in Seq(T) /\ Len(SubSeq(s, 1, i - 1)) = (i - 1) - 1 + 1
        BY <3>1, Slice
      <3>3. /\ SubSeq(s, i + 1, Len(s)) \in Seq(T)
            /\ Len(SubSeq(s, i + 1, Len(s))) = Len(s) - (i + 1) + 1
        <4>1. i + 1 \in 1..(Len(s) + 1) /\ Len(s) \in 0..Len(s) /\ i + 1 <= Len(s) + 1
          BY <3>1
        <4> QED BY <4>1, Slice
      <3> QED BY <3>1, <3>2, <3>3
    <2> DEFINE before == SubSeq(s, 1, i - 1)
               after == SubSeq(s, i + 1, Len(s))
    <2>6. before \in Seq(T) /\ after \in Seq(T) /\ Len(before) = i - 1 /\ Len(after) = Len(s) - i
      BY <2>4
    <2>7. RemoveFirst(s, e) = before \o after /\ i \in 1..Len(s) /\ Len(s) \in Nat
      BY <2>3, <2>1
    <2> HIDE DEF before, after
    <2>8. before \o after \in Seq(T) /\ Len(before \o after) = Len(before) + Len(after)
      BY <2>6
    <2>9. Len(RemoveFirst(s, e)) = (i - 1) + (Len(s) - i)
      BY <2>6, <2>7, <2>8
    <2> QED BY <2>7, <2>8, <2>9
  <1> QED BY <1>1, <1>2

LEMMA Evicted ==
    ASSUME NEW r \in InfoRecords
    PROVE  /\ _evict_if_needed(r) \in InfoRecords
           /\ Len(_evict_if_needed(r).lru) <= _evict_if_needed(r).size
  <1> DEFINE over == IF Len(r.lru) > r.size THEN Len(r.lru) - r.size ELSE 0
             lru2 == SubSeq(r.lru, over + 1, Len(r.lru))
  <1>1. r.lru \in Seq(CodeObjects) /\ r.size \in Nat /\ r.weak \in SUBSET CodeObjects
    BY DEF InfoRecords
  <1>2. over \in 0..Len(r.lru) /\ Len(r.lru) - over <= r.size
    BY <1>1
  <1>3. lru2 \in Seq(CodeObjects) /\ Len(lru2) = Len(r.lru) - over
    BY <1>1, <1>2
  <1>4. _evict_if_needed(r) = [r EXCEPT !.weak = @ \ Range(SubSeq(r.lru, 1, over)), !.lru = lru2]
    BY DEF _evict_if_needed
  <1> HIDE DEF over, lru2
  <1> QED BY <1>1, <1>2, <1>3, <1>4 DEF InfoRecords

\* Every operation on the information keeps to the size.
LEMMA InfosKeepToSize ==
    ASSUME infos \in InfoRecords, Len(infos.lru) <= infos.size, NEW c \in CodeObjects
    PROVE  /\ _evict_if_needed(_insert_into_lru(infos, c)) \in InfoRecords
           /\ LET r == _evict_if_needed(_insert_into_lru(infos, c)) IN Len(r.lru) <= r.size
           /\ LET r == _get_from_weak_map(infos, c) IN r \in InfoRecords /\ Len(r.lru) <= r.size
           /\ LET r == _remove(infos, c) IN r \in InfoRecords /\ Len(r.lru) <= r.size
           /\ LET r == _cleanup_expired(infos) IN r \in InfoRecords /\ Len(r.lru) <= r.size
  <1>1. /\ infos.lru \in Seq(CodeObjects) /\ infos.size \in Nat /\ infos.weak \in SUBSET CodeObjects
        /\ infos.old \in SUBSET CodeObjects /\ infos.stamps \in SUBSET CodeObjects
    BY DEF InfoRecords
  <1>2. /\ RemoveFirst(infos.lru, c) \in Seq(CodeObjects)
        /\ Len(RemoveFirst(infos.lru, c)) <= Len(infos.lru)
        /\ c \in Range(infos.lru) => Len(RemoveFirst(infos.lru, c)) + 1 = Len(infos.lru)
    BY <1>1, TakenOut
  <1>3. /\ Younger(infos.lru, c) \in Seq(CodeObjects)
        /\ c \in Range(infos.lru) => Len(Younger(infos.lru, c)) = Len(infos.lru)
    BY <1>2, <1>1 DEF Younger
  <1>4. _insert_into_lru(infos, c) \in InfoRecords
    BY <1>1, <1>3 DEF _insert_into_lru, InfoRecords
  <1>5. LET r == _get_from_weak_map(infos, c) IN r \in InfoRecords /\ Len(r.lru) <= r.size
    <2>1. CASE c \notin infos.weak
      BY <2>1 DEF _get_from_weak_map
    <2>2. CASE c \in infos.weak /\ c \in infos.old
      <3>1. _get_from_weak_map(infos, c) = [infos EXCEPT !.weak = @ \ {c}, !.lru = RemoveFirst(infos.lru, c)]
        BY <2>2 DEF _get_from_weak_map
      <3> DEFINE w == infos.weak \ {c}
                 l == RemoveFirst(infos.lru, c)
      <3>2. infos = [weak |-> infos.weak, lru |-> infos.lru, stamps |-> infos.stamps,
                     old |-> infos.old, size |-> infos.size]
        BY DEF InfoRecords
      <3>3. _get_from_weak_map(infos, c) = [weak |-> w, lru |-> l, stamps |-> infos.stamps,
                                            old |-> infos.old, size |-> infos.size]
        BY <3>1, <3>2
      <3>4. w \in SUBSET CodeObjects /\ l \in Seq(CodeObjects) /\ Len(l) \in Nat
        BY <1>1, <1>2
      <3>5. l = RemoveFirst(infos.lru, c)
        OBVIOUS
      <3> HIDE DEF w, l
      <3> QED BY <3>3, <3>4, <3>5, <1>1, <1>2 DEF InfoRecords
    <2>3. CASE c \in infos.weak /\ c \notin infos.old
      <3>1. _get_from_weak_map(infos, c)
              = [infos EXCEPT !.lru = IF c \in Range(infos.lru) THEN Younger(infos.lru, c) ELSE infos.lru]
        BY <2>3 DEF _get_from_weak_map
      <3> QED BY <3>1, <1>1, <1>3 DEF InfoRecords
    <2> QED BY <2>1, <2>2, <2>3
  <1>6. LET r == _remove(infos, c) IN r \in InfoRecords /\ Len(r.lru) <= r.size
    <2>1. CASE c \notin infos.weak
      BY <2>1 DEF _remove
    <2>2. CASE c \in infos.weak
      <3>1. _remove(infos, c) = [infos EXCEPT !.weak = @ \ {c}, !.lru = RemoveFirst(infos.lru, c),
                                              !.stamps = @ \ {c}, !.old = @ \ {c}]
        BY <2>2 DEF _remove
      <3> DEFINE w == infos.weak \ {c}
                 l == RemoveFirst(infos.lru, c)
                 t == infos.stamps \ {c}
                 o == infos.old \ {c}
      <3>2. infos = [weak |-> infos.weak, lru |-> infos.lru, stamps |-> infos.stamps,
                     old |-> infos.old, size |-> infos.size]
        BY DEF InfoRecords
      <3>3. _remove(infos, c) = [weak |-> w, lru |-> l, stamps |-> t, old |-> o, size |-> infos.size]
        BY <3>1, <3>2
      <3>4. /\ w \in SUBSET CodeObjects /\ l \in Seq(CodeObjects) /\ Len(l) \in Nat
            /\ t \in SUBSET CodeObjects /\ o \in SUBSET CodeObjects
        BY <1>1, <1>2
      <3>5. l = RemoveFirst(infos.lru, c)
        OBVIOUS
      <3> HIDE DEF w, l, t, o
      <3> QED BY <3>3, <3>4, <3>5, <1>1, <1>2 DEF InfoRecords
    <2> QED BY <2>1, <2>2
  <1>7. LET r == _cleanup_expired(infos) IN r \in InfoRecords /\ Len(r.lru) <= r.size
    BY <1>1 DEF _cleanup_expired, InfoRecords
  <1> QED BY <1>4, <1>5, <1>6, <1>7, Evicted

LEMMA InfosEmptied ==
    ASSUME infos \in InfoRecords
    PROVE  /\ _clear(infos) \in InfoRecords /\ Len(_clear(infos).lru) <= _clear(infos).size
           /\ \A n \in Nat : NoInfos(n) \in InfoRecords /\ Len(NoInfos(n).lru) <= NoInfos(n).size
  <1>1. _clear(infos) \in InfoRecords
    <2> DEFINE none == <<>>
    <2>1. none \in Seq(CodeObjects) /\ _clear(infos) = [infos EXCEPT !.weak = {}, !.lru = none]
      BY DEF _clear
    <2> HIDE DEF none
    <2> QED BY <2>1 DEF InfoRecords
  <1>2. _clear(infos).lru = <<>> /\ _clear(infos).size \in Nat /\ Len(<<>>) = 0
    BY DEF InfoRecords, _clear
  <1>3. ASSUME NEW n \in Nat PROVE NoInfos(n) \in InfoRecords /\ Len(NoInfos(n).lru) <= NoInfos(n).size
    <2>1. <<>> \in Seq(CodeObjects) /\ Len(<<>>) = 0
      OBVIOUS
    <2>2. NoInfos(n) = [weak |-> {}, lru |-> <<>>, stamps |-> {}, old |-> {}, size |-> n]
      BY DEF NoInfos
    <2> QED BY <2>1, <2>2 DEF InfoRecords
  <1> QED BY <1>1, <1>2, <1>3

-----------------------------------------------------------------------------
(* The steps.                                                              *)

Agreement == CachesTyped /\ UpdatesUnderWay /\ \A f \in SourceFiles : Agrees(f)

\* A step that begins an update of one file.
LEMMA UpdateBegins ==
    ASSUME CacheInv, NEW f \in SourceFiles, NEW ls \in SUBSET LineNos, NEW cs \in SUBSET LineNos,
           update_file_breakpoints(f, ls) \/ set_conditional_breakpoints(f, ls, cs)
    PROVE  Agreement'
  <1>1. /\ table' = [table EXCEPT ![f] = ls]
        /\ UNCHANGED <<cached, order, stale, infos, dropped, unsent>>
        /\ \/ pending' = <<Step("check", f, ls)>>
           \/ pending' = <<Step("check", f, ls), Step("conditions", f, cs)>>
    BY DEF update_file_breakpoints, set_conditional_breakpoints, Locked, entries
  <1>2. pending = <<>>
    BY DEF update_file_breakpoints, set_conditional_breakpoints, Locked, Unlocked
  <1>3. CachesTyped'
    BY <1>1 DEF CacheInv, CachesTyped
  <1>4. UpdatesUnderWay'
    <2> DEFINE first == Step("check", f, ls)
               second == Step("conditions", f, cs)
    <2>1. /\ first \in PendingSteps /\ first.do = "check" /\ first.file = f /\ first.lines = ls
          /\ second \in PendingSteps /\ second.do = "conditions"
      BY DEF Step, CacheSteps, PendingSteps
    <2>2. table'[f] = ls
      BY <1>1 DEF CacheInv, CachesTyped
    <2> HIDE DEF first, second
    <2>3. CASE pending' = <<first>>
      BY <2>1, <2>2, <2>3 DEF UpdatesUnderWay, CacheSteps
    <2>4. CASE pending' = <<first, second>>
      BY <2>1, <2>2, <2>4 DEF UpdatesUnderWay, CacheSteps
    <2> QED BY <1>1, <2>3, <2>4 DEF first, second
  <1>5. 1 \in DOMAIN pending' /\ pending'[1].file = f /\ pending'[1].do = "check"
    BY <1>1 DEF Step
  <1>6. ASSUME NEW g \in SourceFiles PROVE Agrees(g)'
    <2>1. CASE g = f
      BY <2>1, <1>5 DEF Agrees, Waiting
    <2>2. CASE g # f
      <3>1. table'[g] = table[g]
        BY <1>1, <2>2 DEF CacheInv, CachesTyped
      <3>2. ~Waiting(g)
        BY <1>2 DEF Waiting
      <3> QED BY <3>1, <3>2, <1>1 DEF CacheInv, Agrees
    <2> QED BY <2>1, <2>2
  <1> QED BY <1>3, <1>4, <1>6 DEF Agreement

\* update_all_breakpoints: the files of the map, in any order.
LEMMA UpdateAllBegins ==
    ASSUME CacheInv, NEW files \in Orders, NEW t \in Maps, update_all_breakpoints(files, t)
    PROVE  Agreement'
  <1>1. PICK n \in Nat : files \in [1..n -> SourceFiles]
    <2>1. PICK S \in SUBSET SourceFiles : files \in SetToSeqs(S)
      BY DEF Orders
    <2>2. files \in [1..Cardinality(S) -> S]
      BY <2>1 DEF SetToSeqs
    <2>3. Cardinality(S) \in Nat
      BY UnstampedAssumption, FS_Subset, FS_CardinalityType
    <2> QED BY <2>2, <2>3
  <1>2. files \in Seq(SourceFiles)
    BY <1>1
  <1>3. /\ table' = [f \in SourceFiles |-> IF f \in Range(files) THEN t[f] ELSE {}]
        /\ pending' = [i \in DOMAIN files |-> Step("check", files[i], t[files[i]])]
        /\ unsent' = unsent \cup (SourceFiles \ Range(files))
        /\ pending = <<>> /\ UNCHANGED <<cached, dropped>>
    BY DEF update_all_breakpoints, Locked, Unlocked, entries
  <1>4. CachesTyped'
    BY <1>3 DEF CacheInv, CachesTyped, Maps
  <1>5. ASSUME NEW i \in DOMAIN files
        PROVE  /\ pending'[i].do = "check" /\ pending'[i].file = files[i]
               /\ pending'[i].lines = table'[files[i]]
               /\ files[i] \in SourceFiles /\ pending'[i].lines \in SUBSET LineNos
    <2>1. pending'[i] = [do |-> "check", file |-> files[i], lines |-> t[files[i]]]
      BY <1>3 DEF Step
    <2>2. files[i] \in Range(files) /\ files[i] \in SourceFiles
      BY <1>1 DEF Range
    <2> QED BY <2>1, <2>2, <1>3 DEF Maps
  <1>6. UpdatesUnderWay'
    <2>1. DOMAIN pending' = 1..Len(files) /\ DOMAIN files = 1..Len(files) /\ Len(files) \in Nat
      BY <1>2, <1>3
    <2>2. \A i \in 1..Len(files) :
              pending'[i] \in PendingSteps
      BY <1>3, <1>5, <2>1 DEF Step, CacheSteps, PendingSteps
    <2>3. pending' \in Seq(PendingSteps)
      <3>1. pending' = [i \in 1..Len(files) |-> Step("check", files[i], t[files[i]])]
        BY <1>3, <2>1
      <3>2. \A i \in 1..Len(files) : pending'[i] = Step("check", files[i], t[files[i]])
        BY <3>1
      <3> QED BY <2>1, <2>2, <3>1, <3>2
    <2> QED BY <2>1, <2>3, <1>5 DEF UpdatesUnderWay, CacheSteps
  <1>7. ASSUME NEW g \in SourceFiles PROVE Agrees(g)'
    <2>1. CASE g \in Range(files)
      <3>1. PICK i \in DOMAIN files : files[i] = g
        BY <2>1 DEF Range
      <3>2. i \in DOMAIN pending'
        BY <1>3
      <3> QED BY <3>1, <3>2, <1>5 DEF Agrees, Waiting
    <2>2. CASE g \notin Range(files)
      BY <2>2, <1>3 DEF Agrees
    <2> QED BY <2>1, <2>2
  <1> QED BY <1>4, <1>6, <1>7 DEF Agreement

\* What is left to do moves on by one.
LEMMA PendingMovesOn ==
    ASSUME UpdatesUnderWay, pending # <<>>
    PROVE  /\ Tail(pending) \in Seq(PendingSteps)
           /\ Head(pending) = pending[1] /\ 1 \in DOMAIN pending
           /\ Head(pending).file \in SourceFiles /\ Head(pending).lines \in SUBSET LineNos
           /\ \A i \in DOMAIN Tail(pending) :
                 /\ i + 1 \in DOMAIN pending /\ i + 1 # 1
                 /\ Tail(pending)[i] = pending[i + 1]
                 /\ Tail(pending)[i].do \notin {"store", "elsewhere"}
           /\ \A i \in DOMAIN pending \ {1} :
                 i - 1 \in DOMAIN Tail(pending) /\ Tail(pending)[i - 1] = pending[i]
  <1>1. pending \in Seq(PendingSteps)
    BY DEF UpdatesUnderWay
  <1>2. Head(pending) = pending[1] /\ pending[1] \in PendingSteps /\ 1 \in DOMAIN pending
        /\ Tail(pending) \in Seq(PendingSteps)
    <2> QED BY <1>1
  <1>3. /\ \A i \in DOMAIN Tail(pending) :
              i + 1 \in DOMAIN pending /\ i + 1 # 1 /\ Tail(pending)[i] = pending[i + 1]
        /\ \A i \in DOMAIN pending \ {1} :
              i - 1 \in DOMAIN Tail(pending) /\ Tail(pending)[i - 1] = pending[i]
    <2> QED BY <1>1
  <1>4. \A i \in DOMAIN Tail(pending) : Tail(pending)[i].do \notin {"store", "elsewhere"}
    BY <1>3 DEF UpdatesUnderWay
  <1>5. Head(pending).file \in SourceFiles /\ Head(pending).lines \in SUBSET LineNos
    BY <1>2 DEF PendingSteps
  <1> QED BY <1>2, <1>3, <1>4, <1>5

LEMMA FileWaitsOn ==
    ASSUME UpdatesUnderWay, pending # <<>>, pending' = Tail(pending), NEW f,
           f # Head(pending).file \/ Head(pending).do = "conditions"
    PROVE  Waiting(f) => Waiting(f)'
  BY PendingMovesOn DEF Waiting

LEMMA MovesOnTyped ==
    ASSUME UpdatesUnderWay, pending # <<>>, pending' = Tail(pending), UNCHANGED table
    PROVE  UpdatesUnderWay'
  BY PendingMovesOn DEF UpdatesUnderWay, CacheSteps, PendingSteps

LEMMA UpdateGoesOn ==
    ASSUME CacheInv, ReadSwitch \/ Store \/ StoreElsewhere \/ set_breakpoint_conditions
    PROVE  Agreement'
  <1>0. UpdatesUnderWay /\ CachesTyped
    BY DEF CacheInv
  <1>1. CASE ReadSwitch
    <2>0. pending # <<>> /\ Head(pending).do = "check"
          /\ UNCHANGED <<table, cached, dropped>>
      BY <1>1 DEF ReadSwitch, Unlocked, entries
    <2>1. CachesTyped'
      BY <1>0, <2>0 DEF CachesTyped
    <2>2. CASE switches.caching
      <3> DEFINE head == [Head(pending) EXCEPT !.do = "store"]
      <3>1. pending' = <<head>> \o Tail(pending) /\ UNCHANGED unsent
        BY <1>1, <2>2 DEF ReadSwitch
      <3>2. /\ head \in PendingSteps
            /\ head.do = "store" /\ head.file = pending[1].file /\ head.lines = pending[1].lines
        <4>1. /\ pending[1] \in PendingSteps
              /\ head = [pending[1] EXCEPT !.do = "store"]
          <5>1. 1 \in DOMAIN pending /\ Head(pending) = pending[1]
            BY <1>0, <2>0, PendingMovesOn
          <5>2. pending[1] \in PendingSteps
            BY <5>1, <1>0 DEF UpdatesUnderWay
          <5>3. head = [pending[1] EXCEPT !.do = "store"]
            BY <5>1
          <5> QED BY <5>2, <5>3
        <4> QED BY <4>1 DEF CacheSteps, PendingSteps
      <3> HIDE DEF head
      <3>3. pending' \in Seq(PendingSteps)
        BY <3>1, <3>2, <1>0, <2>0, PendingMovesOn
      <3>4. /\ DOMAIN pending' = DOMAIN pending /\ pending'[1] = head
            /\ \A i \in DOMAIN pending \ {1} : pending'[i] = pending[i]
        BY <3>1, <3>2, <1>0, <2>0, PendingMovesOn DEF UpdatesUnderWay
      <3>5. UpdatesUnderWay'
        BY <3>2, <3>3, <3>4, <1>0, <2>0, PendingMovesOn DEF UpdatesUnderWay, CacheSteps
      <3>6. ASSUME NEW f \in SourceFiles PROVE Agrees(f)'
        <4>1. Waiting(f) => Waiting(f)'
          BY <3>2, <3>4 DEF Waiting
        <4> QED BY <4>1, <2>0, <3>1 DEF CacheInv, Agrees
      <3> QED BY <2>1, <3>5, <3>6 DEF Agreement
    <2>3. CASE ~switches.caching
      <3>1. pending' = Tail(pending) /\ unsent' = unsent \cup {Head(pending).file}
        BY <1>1, <2>3 DEF ReadSwitch
      <3>2. UpdatesUnderWay'
        BY <3>1, <2>0, <1>0, MovesOnTyped
      <3>3. ASSUME NEW f \in SourceFiles PROVE Agrees(f)'
        BY <3>1, <2>0, <1>0, FileWaitsOn DEF CacheInv, Agrees
      <3> QED BY <2>1, <3>2, <3>3 DEF Agreement
    <2> QED BY <2>2, <2>3
  <1>2. CASE Store
    <2> DEFINE g == Head(pending).file
               e == set_breakpoints(Entries, g, Head(pending).lines)
    <2>0. /\ pending # <<>> /\ Head(pending).do = "store" /\ pending' = Tail(pending)
          /\ UNCHANGED table
          /\ cached' = e.cached /\ unsent' = unsent \ {g}
          /\ dropped' = (dropped \cup Gone(e)) \ {g}
      BY <1>2 DEF Store, Unlocked, SetEntries
    <2>1. g \in SourceFiles /\ Head(pending).lines = table[g]
      BY <2>0, <1>0, PendingMovesOn DEF UpdatesUnderWay, CacheSteps
    <2>2. /\ e.cached = [h \in DOMAIN e.cached |-> e.cached[h]]
          /\ DOMAIN e.cached \subseteq DOMAIN cached \cup {g}
          /\ table[g] = {} => g \notin DOMAIN e.cached
          /\ table[g] # {} => g \in DOMAIN e.cached /\ e.cached[g] = table[g]
          /\ \A h \in DOMAIN e.cached \ {g} : e.cached[h] = cached[h]
      BY <2>1, <1>0, EntryReplaced
    <2> HIDE DEF e
    <2>3. CachesTyped'
      BY <1>0, <2>0, <2>1, <2>2 DEF CachesTyped
    <2>4. UpdatesUnderWay'
      BY <2>0, <1>0, PendingMovesOn DEF UpdatesUnderWay, CacheSteps
    <2>5. ASSUME NEW f \in SourceFiles PROVE Agrees(f)'
      <3>1. CASE f = g
        BY <3>1, <2>0, <2>2 DEF Agrees
      <3>2. CASE f # g
        <4>1. Waiting(f) => Waiting(f)'
          BY <3>2, <2>0, <1>0, FileWaitsOn
        <4> QED BY <4>1, <3>2, <2>0, <2>2 DEF CacheInv, Agrees, Gone
      <3> QED BY <3>1, <3>2
    <2> QED BY <2>3, <2>4, <2>5 DEF Agreement
  <1>3. CASE StoreElsewhere
    <2> DEFINE g == Head(pending).file
    <2>0. /\ pending # <<>> /\ Head(pending).do = "elsewhere" /\ pending' = Tail(pending)
          /\ UNCHANGED <<table, cached>>
          /\ unsent' = unsent \ {g} /\ dropped' = dropped \cup {g}
      BY <1>3 DEF StoreElsewhere, Unlocked, entries
    <2>1. g \notin DOMAIN cached
      BY <2>0, <1>0, PendingMovesOn DEF UpdatesUnderWay
    <2>2. CachesTyped' /\ UpdatesUnderWay'
      BY <2>0, <1>0, MovesOnTyped DEF CachesTyped
    <2>3. ASSUME NEW f \in SourceFiles PROVE Agrees(f)'
      <3>1. CASE f = g
        BY <3>1, <2>0, <2>1 DEF Agrees
      <3>2. CASE f # g
        <4>1. Waiting(f) => Waiting(f)'
          BY <3>2, <2>0, <1>0, FileWaitsOn
        <4> QED BY <4>1, <3>2, <2>0 DEF CacheInv, Agrees
      <3> QED BY <3>1, <3>2
    <2> QED BY <2>2, <2>3 DEF Agreement
  <1>4. CASE set_breakpoint_conditions
    <2>0. /\ pending # <<>> /\ Head(pending).do = "conditions" /\ pending' = Tail(pending)
          /\ UNCHANGED <<table, cached, unsent, dropped>>
      BY <1>4 DEF set_breakpoint_conditions, Unlocked, entries
    <2>1. CachesTyped' /\ UpdatesUnderWay'
      BY <2>0, <1>0, MovesOnTyped DEF CachesTyped
    <2>2. ASSUME NEW f \in SourceFiles PROVE Agrees(f)'
      <3>1. Waiting(f) => Waiting(f)'
        BY <2>0, <1>0, FileWaitsOn
      <3> QED BY <3>1, <2>0 DEF CacheInv, Agrees
    <2> QED BY <2>1, <2>2 DEF Agreement
  <1> QED BY <1>1, <1>2, <1>3, <1>4

\* Everything is sent again, or nothing is any more.
LEMMA TableCleared ==
    ASSUME CacheInv, clear_all_breakpoints
    PROVE  Agreement'
  <1>1. /\ table' = [f \in SourceFiles |-> {}] /\ unsent' = SourceFiles
        /\ pending = <<>> /\ pending' = <<>> /\ UNCHANGED cached
    BY DEF clear_all_breakpoints, Locked, Unlocked, entries
  <1>2. CachesTyped'
    BY <1>1 DEF CacheInv, CachesTyped
  <1>3. UpdatesUnderWay'
    BY <1>1 DEF CacheInv, UpdatesUnderWay
  <1> QED BY <1>1, <1>2, <1>3 DEF Agreement, Agrees

\* New caches: the update under way holds the old one.
LEMMA CachesReplaced ==
    ASSUME CacheInv, NEW n, configure_caches(n), UNCHANGED <<table, unsent>>
    PROVE  Agreement'
  <1> DEFINE Moved(i) == IF pending[i].do = "store" THEN [pending[i] EXCEPT !.do = "elsewhere"]
                         ELSE pending[i]
  <1>1. /\ cached' = <<>> /\ DOMAIN cached' = {} /\ dropped' = SourceFiles
        /\ pending' = [i \in DOMAIN pending |-> Moved(i)]
    BY DEF configure_caches, SetEntries, Emptied
  <1>2. CachesTyped'
    BY <1>1 DEF CacheInv, CachesTyped
  <1>3. ASSUME NEW i \in DOMAIN pending
        PROVE  /\ Moved(i) \in PendingSteps
               /\ Moved(i).file = pending[i].file /\ Moved(i).lines = pending[i].lines
               /\ Moved(i).do \in CacheSteps <=> pending[i].do \in CacheSteps
               /\ Moved(i).do \in {"store", "elsewhere"} => pending[i].do \in {"store", "elsewhere"}
    <2>1. pending[i] \in PendingSteps
      BY DEF CacheInv, UpdatesUnderWay
    <2>2. ASSUME NEW r \in PendingSteps
          PROVE  LET m == [r EXCEPT !.do = "elsewhere"]
                 IN  m \in PendingSteps /\ m.file = r.file /\ m.lines = r.lines /\ m.do = "elsewhere"
      BY DEF CacheSteps, PendingSteps
    <2>3. CASE pending[i].do = "store"
      BY <2>1, <2>2, <2>3 DEF CacheSteps
    <2>4. CASE pending[i].do # "store"
      BY <2>1, <2>4
    <2> QED BY <2>3, <2>4
  <1>4. UpdatesUnderWay'
    <2>1. pending \in Seq(PendingSteps)
      BY DEF CacheInv, UpdatesUnderWay
    <2>2. \A i \in DOMAIN pending : pending'[i] = Moved(i) /\ pending'[i] \in PendingSteps
      BY <1>1, <1>3
    <2>3. pending' \in Seq(PendingSteps) /\ DOMAIN pending' = DOMAIN pending
      <3> HIDE DEF Moved
      <3> QED BY <1>1, <1>3, <2>1
    <2> HIDE DEF Moved
    <2> QED BY <1>1, <1>3, <2>2, <2>3 DEF CacheInv, UpdatesUnderWay
  <1>5. ASSUME NEW f \in SourceFiles PROVE Agrees(f)'
    BY <1>1 DEF Agrees
  <1> QED BY <1>2, <1>4, <1>5 DEF Agreement

LEMMA NothingMoves ==
    ASSUME CacheInv, UNCHANGED <<table, cached, pending, unsent, dropped>>
    PROVE  Agreement'
  BY DEF CacheInv, Agreement, CachesTyped, UpdatesUnderWay, Agrees, Waiting

LEMMA InfosStay == ASSUME InfosBounded, UNCHANGED infos PROVE InfosBounded'
  BY DEF InfosBounded

LEMMA TableOperationStep ==
    ASSUME CacheInv, TableOperation
    PROVE  CacheInv'
  <1>1. ASSUME NEW f \in SourceFiles, NEW ls \in SUBSET LineNos, update_file_breakpoints(f, ls)
        PROVE  CacheInv'
    <2>1. UNCHANGED infos
      BY <1>1 DEF update_file_breakpoints, Locked
    <2>2. Agreement'
      <3>1. {} \in SUBSET LineNos
        OBVIOUS
      <3> QED BY <1>1, <3>1, UpdateBegins
    <2> QED BY <2>1, <2>2, InfosStay DEF CacheInv, Agreement
  <1>2. ASSUME NEW f \in SourceFiles, NEW ls \in SUBSET LineNos, NEW cs \in SUBSET LineNos,
               set_conditional_breakpoints(f, ls, cs)
        PROVE  CacheInv'
    <2>1. UNCHANGED infos
      BY <1>2 DEF set_conditional_breakpoints, Locked
    <2> QED BY <2>1, <1>2, UpdateBegins, InfosStay DEF CacheInv, Agreement
  <1>3. ASSUME NEW files \in Orders, NEW t \in Maps, update_all_breakpoints(files, t)
        PROVE  CacheInv'
    <2>1. UNCHANGED infos
      BY <1>3 DEF update_all_breakpoints, Locked
    <2> QED BY <2>1, <1>3, UpdateAllBegins, InfosStay DEF CacheInv, Agreement
  <1>4. ASSUME NEW f \in SourceFiles, NEW l \in LineNos, add_breakpoint(f, l) \/ remove_breakpoint(f, l)
        PROVE  CacheInv'
    <2>1. table[f] \in SUBSET LineNos
      BY DEF CacheInv, CachesTyped
    <2>2. table[f] \cup {l} \in SUBSET LineNos /\ table[f] \ {l} \in SUBSET LineNos
      BY <2>1
    <2> QED BY <2>2, <1>4, <1>1 DEF add_breakpoint, remove_breakpoint
  <1>5. ASSUME NEW f \in SourceFiles, clear_breakpoints(f) PROVE CacheInv'
    <2>1. {} \in SUBSET LineNos
      OBVIOUS
    <2> QED BY <2>1, <1>5, <1>1 DEF clear_breakpoints
  <1>6. CASE clear_all_breakpoints
    <2>1. UNCHANGED infos
      BY <1>6 DEF clear_all_breakpoints, Locked
    <2> QED BY <2>1, <1>6, TableCleared, InfosStay DEF CacheInv, Agreement
  <1>7. CASE ReadSwitch \/ Store \/ StoreElsewhere \/ set_breakpoint_conditions
    <2>1. UNCHANGED infos
      BY <1>7 DEF ReadSwitch, Store, StoreElsewhere, set_breakpoint_conditions
    <2> QED BY <2>1, <1>7, UpdateGoesOn, InfosStay DEF CacheInv, Agreement
  <1> QED BY <1>1, <1>2, <1>3, <1>4, <1>5, <1>6, <1>7 DEF TableOperation

LEMMA CacheOperationStep ==
    ASSUME CacheInv, CacheOperation
    PROVE  CacheInv'
  <1>1. ASSUME NEW f \in SourceFiles, invalidate_file(f) \/ invalidate_breakpoints(f)
        PROVE  CacheInv'
    <2>1. /\ SetEntries(_remove_entry(Entries, f)) /\ dropped' = dropped \cup {f}
          /\ UNCHANGED <<table, infos, pending, unsent>>
      BY <1>1 DEF invalidate_file, invalidate_breakpoints
    <2>2. Within(_remove_entry(Entries, f), Entries)
      BY RemovedEntry
    <2>3. Gone(_remove_entry(Entries, f)) \subseteq {f}
      BY RemovedEntry DEF Gone, Entries
    <2>4. dropped \cup Gone(_remove_entry(Entries, f)) \subseteq dropped'
      BY <2>1, <2>3
    <2> QED BY <2>1, <2>2, <2>4, EntriesGivenUp, InfosStay DEF CacheInv
  <1>2. ASSUME NEW f \in SourceFiles, Save(f) PROVE CacheInv'
    BY <1>2, NothingMoves, InfosStay DEF Save, CacheInv, Agreement
  <1>3. CASE InfoOperation
    <2>1. UNCHANGED <<table, cached, pending, unsent, dropped>>
      BY <1>3 DEF InfoOperation, entries
    <2>2. InfosBounded'
      <3>1. infos \in InfoRecords /\ Len(infos.lru) <= infos.size
        BY DEF CacheInv, InfosBounded
      <3>2. CASE infos' = infos
        BY <3>1, <3>2 DEF InfosBounded
      <3>3. CASE \E c \in CodeObjects :
                   \/ infos' = _evict_if_needed(_insert_into_lru(infos, c))
                   \/ infos' = _get_from_weak_map(infos, c)
                   \/ infos' = _remove(infos, c)
        BY <3>1, <3>3, InfosKeepToSize DEF InfosBounded
      <3>4. CASE infos' = _cleanup_expired(infos)
        BY <3>1, <3>4 DEF InfosBounded, InfoRecords, _cleanup_expired
      <3> QED BY <1>3, <3>2, <3>3, <3>4 DEF InfoOperation
    <2> QED BY <2>1, <2>2, NothingMoves DEF CacheInv, Agreement
  <1>4. ASSUME NEW c \in CodeObjects, Expire(c) PROVE CacheInv'
    <2>1. UNCHANGED <<table, cached, pending, unsent, dropped>>
      BY <1>4 DEF Expire, entries
    <2>2. InfosBounded'
      BY <1>4 DEF Expire, CacheInv, InfosBounded, InfoRecords
    <2> QED BY <2>1, <2>2, NothingMoves DEF CacheInv, Agreement
  <1>5. ASSUME NEW on \in BOOLEAN, set_cache_enabled(on) PROVE CacheInv'
    <2>1. UNCHANGED <<table, pending, unsent>>
      BY <1>5 DEF set_cache_enabled
    <2>2. CASE on
      <3>1. UNCHANGED <<infos, cached, dropped>>
        BY <1>5, <2>2 DEF set_cache_enabled, entries
      <3> QED BY <2>1, <3>1, NothingMoves, InfosStay DEF CacheInv, Agreement
    <2>3. CASE ~on
      <3>1. infos' = _clear(infos) /\ SetEntries(Emptied) /\ dropped' = SourceFiles
        BY <1>5, <2>3 DEF set_cache_enabled, clear_all_caches
      <3>2. InfosBounded'
        BY <3>1, InfosEmptied DEF CacheInv, InfosBounded
      <3> QED BY <2>1, <3>1, <3>2, CacheCleared DEF CacheInv
    <2> QED BY <2>2, <2>3
  <1> QED BY <1>1, <1>2, <1>3, <1>4, <1>5 DEF CacheOperation

LEMMA SetupOperationStep ==
    ASSUME CacheInv, SetupOperation
    PROVE  CacheInv'
  <1>1. ASSUME NEW enabled \in BOOLEAN, NEW selecting \in BOOLEAN, NEW caching \in BOOLEAN,
               configure_integration(enabled, selecting, caching)
        PROVE  CacheInv'
    <2>1. UNCHANGED <<table, pending, unsent>>
      BY <1>1 DEF configure_integration
    <2>2. CASE caching
      <3>1. UNCHANGED <<infos, cached, dropped>>
        BY <1>1, <2>2 DEF configure_integration, entries
      <3> QED BY <2>1, <3>1, NothingMoves, InfosStay DEF CacheInv, Agreement
    <2>3. CASE ~caching
      <3>1. infos' = _clear(infos) /\ SetEntries(Emptied) /\ dropped' = SourceFiles
        BY <1>1, <2>3 DEF configure_integration, clear_all_caches
      <3>2. InfosBounded'
        BY <3>1, InfosEmptied DEF CacheInv, InfosBounded
      <3> QED BY <2>1, <3>1, <3>2, CacheCleared DEF CacheInv
    <2> QED BY <2>2, <2>3
  <1>2. CASE integrate_with_debugger_bdb \/ remove_integration \/ install_backend
    <2>1. UNCHANGED <<table, cached, infos, pending, unsent, dropped>>
      BY <1>2 DEF integrate_with_debugger_bdb, remove_integration, install_backend, entries
    <2> QED BY <2>1, NothingMoves, InfosStay DEF CacheInv, Agreement
  <1>3. ASSUME NEW sized \in BOOLEAN, NEW made \in BOOLEAN, NEW size \in 1..MaxInfos,
               setup_frame_eval(sized, size, made)
        PROVE  CacheInv'
    <2>1. /\ UNCHANGED <<table, pending, unsent>>
          /\ SetEntries(Emptied) /\ dropped' = SourceFiles
          /\ infos' = NoInfos(size) \/ infos' = _clear(infos)
      BY <1>3 DEF setup_frame_eval
    <2>2. InfosBounded'
      BY <2>1, InfosEmptied, SizesAssumption DEF CacheInv, InfosBounded
    <2> QED BY <2>1, <2>2, CacheCleared DEF CacheInv
  <1>4. CASE shutdown_frame_eval
    <2>1. /\ UNCHANGED <<table, pending, unsent>>
          /\ SetEntries(Emptied) /\ dropped' = SourceFiles /\ infos' = _clear(infos)
      BY <1>4 DEF shutdown_frame_eval, clear_all_caches
    <2>2. InfosBounded'
      BY <2>1, InfosEmptied DEF CacheInv, InfosBounded
    <2> QED BY <2>1, <2>2, CacheCleared DEF CacheInv
  <1>5. ASSUME NEW size \in 1..MaxInfos, update_config(size) PROVE CacheInv'
    <2>1. configure_caches(size) /\ UNCHANGED <<table, unsent>>
      BY <1>5 DEF update_config
    <2>2. infos' = NoInfos(size)
      BY <2>1 DEF configure_caches
    <2>3. InfosBounded'
      BY <2>2, InfosEmptied, SizesAssumption DEF CacheInv, InfosBounded
    <2> QED BY <2>1, <2>3, CachesReplaced DEF CacheInv, Agreement
  <1> QED BY <1>1, <1>2, <1>3, <1>4, <1>5 DEF SetupOperation

LEMMA ProgramStep ==
    ASSUME CacheInv, Program
    PROVE  CacheInv'
  <1>1. ASSUME NEW f \in SourceFiles, NEW l \in LineNos, enhanced_user_line(f, l)
        PROVE  CacheInv'
    <2>1. UNCHANGED <<table, pending, unsent, infos>>
      BY <1>1 DEF enhanced_user_line
    <2>2. CASE Selecting
      <3> DEFINE found == get_breakpoints(f)
      <3>1. SetEntries(found.entries) /\ dropped' = dropped \cup Gone(found.entries)
        BY <1>1, <2>2 DEF enhanced_user_line
      <3>2. Within(found.entries, Entries)
        BY LookedUp DEF CacheInv
      <3> HIDE DEF found
      <3> QED BY <2>1, <3>1, <3>2, EntriesGivenUp, InfosStay DEF CacheInv
    <2>3. CASE ~Selecting
      <3>1. UNCHANGED <<cached, dropped>>
        BY <1>1, <2>3 DEF enhanced_user_line, entries
      <3> QED BY <2>1, <3>1, NothingMoves, InfosStay DEF CacheInv, Agreement
    <2> QED BY <2>2, <2>3
  <1>2. ASSUME NEW passes \in BOOLEAN, should_trace_code(passes) PROVE CacheInv'
    <2>1. UNCHANGED <<table, cached, infos, pending, unsent, dropped>>
      BY <1>2 DEF should_trace_code, entries
    <2> QED BY <2>1, NothingMoves, InfosStay DEF CacheInv, Agreement
  <1> QED BY <1>1, <1>2 DEF Program

-----------------------------------------------------------------------------
\* What the program finds in the breakpoint cache between updates is what the
\* manager has registered, for any files, cache sizes and operations
\* (FrameTraceManager, BreakpointCache, FuncCodeInfoCache).
THEOREM CacheAgreesAlways == TracingSpec => []CacheAgrees
<1>1. TracingInit => CacheInv
  <2> SUFFICES ASSUME TracingInit PROVE CacheInv
    OBVIOUS
  <2>1. cached = <<>> /\ DOMAIN cached = {} /\ pending = <<>> /\ DOMAIN pending = {}
        /\ table = [f \in SourceFiles |-> {}] /\ infos = NoInfos(MaxInfos)
    BY DEF TracingInit
  <2>2. InfosBounded
    <3> DEFINE none == <<>>
    <3>1. none \in Seq(CodeObjects) /\ Len(none) = 0
      OBVIOUS
    <3>2. infos = [weak |-> {}, lru |-> none, stamps |-> {}, old |-> {}, size |-> MaxInfos]
      BY <2>1 DEF NoInfos
    <3> HIDE DEF none
    <3> QED BY <3>1, <3>2, SizesAssumption DEF InfosBounded, InfoRecords
  <2>3. CachesTyped
    BY <2>1 DEF CachesTyped
  <2>4. UpdatesUnderWay
    BY <2>1 DEF UpdatesUnderWay
  <2> QED BY <2>1, <2>2, <2>3, <2>4 DEF CacheInv, Agrees
<1>2. CacheInv /\ [TracingNext]_tracingVars => CacheInv'
  <2> SUFFICES ASSUME CacheInv, [TracingNext]_tracingVars PROVE CacheInv'
    OBVIOUS
  <2>1. CASE UNCHANGED tracingVars
    BY <2>1, NothingMoves, InfosStay DEF tracingVars, CacheInv, Agreement
  <2> QED BY <2>1, TableOperationStep, CacheOperationStep, SetupOperationStep, ProgramStep
          DEF TracingNext
<1>3. CacheInv => CacheAgrees
  BY DEF CacheInv, InfosBounded, InfoRecords, Agrees, Waiting, CacheAgrees
<1> QED BY <1>1, <1>2, <1>3, PTL DEF TracingSpec

-----------------------------------------------------------------------------
(***************************************************************************)
(* MonitoringBackend: the events that are armed.                           *)
(***************************************************************************)

\* The interpreter's instrumentation; code objects ask for line events only.
Instrumentations ==
    [global : SUBSET Events, local : [Codes -> SUBSET {"LINE"}], active : [Codes -> SUBSET Events],
     disabled : SUBSET Locations, late : SUBSET Locations, strayed : BOOLEAN]

MonitoringTypeOK ==
    /\ installed \in BOOLEAN
    /\ breakpoints \in [Files -> SUBSET Lines]
    /\ registry \subseteq Codes
    /\ mode \in Modes
    /\ stepCode \in Codes \cup {NoCode}
    /\ vm \in Instrumentations
    /\ stack \in [Threads -> Seq(Codes)]
    /\ callback \in [Threads -> Callbacks]
    /\ control \in {"idle", "restart", "events"}

\* Running code objects follow the events at once.
Follows(v, s) == \A c \in Running(s) : v.active[c] = v.global \cup v.local[c]

\* The location is disabled, or an answer that will disable it is on its way,
\* and no restart has come since.
OnItsWay(at) ==
    \E t \in Threads : callback[t].answer = "disable" /\ ~callback[t].old /\ callback[t].at = at
Stuck(at) == Silenced(at) \/ OnItsWay(at)

NobodyThere ==
    ~installed =>
        /\ registry = {} /\ mode = "CONTINUE" /\ control = "idle"
        /\ \A f \in Files : breakpoints[f] = {}
        /\ \A t \in Threads : callback[t].answer # "switch"

\* Until the restart after an update is done nothing is said.
LinesOffered ==
    control # "restart" =>
        \A c \in Codes : \A l \in breakpoints[FileOf[c]] :
            ~Stuck(LineAt(c, l)) /\ (c \notin registry => ~Stuck(StartOf(c)))

LinesOn ==
    installed /\ mode = "CONTINUE" /\ control # "events" =>
        \A c \in registry : breakpoints[FileOf[c]] # {} => "LINE" \in vm.local[c]

EventsOfMode ==
    installed /\ control # "events" /\ ~vm.strayed =>
        /\ mode \in {"STEP_OVER", "STEP_OUT"} => "PY_RETURN" \in vm.global
        /\ mode = "STEP_IN" => "LINE" \in vm.global
        /\ mode = "CONTINUE" => "PY_RETURN" \notin vm.global

ReturnsOffered ==
    ~vm.strayed /\ ~(control = "events" /\ mode = "CONTINUE") =>
        \A c \in Codes : ~Stuck(ReturnOf(c))

MonitoringInv ==
    /\ MonitoringTypeOK
    /\ Follows(vm, stack)
    /\ installed => "PY_START" \in vm.global
    /\ NobodyThere /\ LinesOffered /\ LinesOn /\ EventsOfMode /\ ReturnsOffered

-----------------------------------------------------------------------------
(* What the operations of the interpreter do.                              *)

Off(v) == v.disabled \ v.late

\* r is v after the code objects of S have been instrumented anew.
Instrumented(r, v, S) ==
    /\ r \in Instrumentations /\ r.global = v.global /\ r.local = v.local
    /\ r.strayed = v.strayed /\ Off(r) \subseteq Off(v)
    /\ \A c \in Codes : r.active[c] = IF c \in S THEN v.global \cup v.local[c] ELSE v.active[c]

LEMMA InstrumentDoes ==
    ASSUME NEW v \in Instrumentations, NEW S
    PROVE  Instrumented(Instrument(v, S), v, S)
  <1> DEFINE now(c) == v.global \cup v.local[c]
             off == {d \in v.disabled : d[2] \in S => d[1] \in v.active[d[2]] \cap now(d[2])}
             act == [c \in Codes |-> IF c \in S THEN now(c) ELSE v.active[c]]
             still == v.late \cap off
  <1>1. Instrument(v, S) = [v EXCEPT !.active = act, !.disabled = off, !.late = still]
    BY DEF Instrument
  <1>2. act \in [Codes -> SUBSET Events]
    BY DEF Instrumentations, Events
  <1>3. /\ off \in SUBSET Locations /\ still \in SUBSET Locations
        /\ off \ still \subseteq v.disabled \ v.late
    BY DEF Instrumentations
  <1>4. \A c \in Codes : act[c] = IF c \in S THEN v.global \cup v.local[c] ELSE v.active[c]
    OBVIOUS
  <1> HIDE DEF act, off, still
  <1> QED BY <1>1, <1>2, <1>3, <1>4 DEF Instrumentations, Off, Instrumented

LEMMA SetEventsDoes ==
    ASSUME NEW v \in Instrumentations, Follows(v, stack), NEW es \in SUBSET Events
    PROVE  /\ SetEvents(v, es) \in Instrumentations
           /\ SetEvents(v, es).global = es /\ SetEvents(v, es).local = v.local
           /\ SetEvents(v, es).strayed = v.strayed
           /\ Off(SetEvents(v, es)) \subseteq Off(v)
           /\ Follows(SetEvents(v, es), stack)
  <1> DEFINE w == [v EXCEPT !.global = es]
  <1>1. /\ w \in Instrumentations /\ w.global = es /\ w.local = v.local /\ w.strayed = v.strayed
        /\ Off(w) = Off(v) /\ w.active = v.active
    BY DEF Instrumentations, Off
  <1>2. SetEvents(v, es) = Instrument(w, Running(stack))
    BY DEF SetEvents
  <1> HIDE DEF w
  <1>3. Running(stack) \subseteq Codes
    BY DEF Running
  <1>4. Instrumented(Instrument(w, Running(stack)), w, Running(stack))
    BY <1>1, InstrumentDoes
  <1> DEFINE r == Instrument(w, Running(stack))
  <1> HIDE DEF r
  <1>5. r = SetEvents(v, es) /\ Instrumented(r, w, Running(stack))
    BY <1>2, <1>4 DEF r
  <1> QED BY <1>1, <1>3, <1>5 DEF Follows, Instrumented

Localised(r, v, S, es) == \A c \in Codes : r.local[c] = IF c \in S THEN es ELSE v.local[c]

LEMMA SetLocalEventsDoes ==
    ASSUME NEW v \in Instrumentations, Follows(v, stack), NEW S \in SUBSET Codes,
           NEW es \in SUBSET {"LINE"}
    PROVE  /\ SetLocalEvents(v, S, es) \in Instrumentations
           /\ SetLocalEvents(v, S, es).global = v.global
           /\ SetLocalEvents(v, S, es).strayed = v.strayed
           /\ Localised(SetLocalEvents(v, S, es), v, S, es)
           /\ Off(SetLocalEvents(v, S, es)) \subseteq Off(v)
           /\ Follows(SetLocalEvents(v, S, es), stack)
  <1> DEFINE loc == [c \in Codes |-> IF c \in S THEN es ELSE v.local[c]]
             w == [v EXCEPT !.local = loc]
  <1>0. loc \in [Codes -> SUBSET {"LINE"}]
    BY DEF Instrumentations
  <1>1. /\ w \in Instrumentations /\ w.global = v.global /\ w.local = loc /\ w.strayed = v.strayed
        /\ Off(w) = Off(v) /\ w.active = v.active
    <2> HIDE DEF loc
    <2> QED BY <1>0 DEF Instrumentations, Off
  <1>2. SetLocalEvents(v, S, es) = Instrument(w, S)
    BY DEF SetLocalEvents
  <1>3. \A c \in Codes : loc[c] = IF c \in S THEN es ELSE v.local[c]
    OBVIOUS
  <1> HIDE DEF w, loc
  <1>4. Running(stack) \subseteq Codes
    BY DEF Running
  <1>5. Instrumented(Instrument(w, S), w, S)
    BY <1>1, InstrumentDoes
  <1> DEFINE r == Instrument(w, S)
  <1>6. /\ r \in Instrumentations /\ r.global = v.global /\ r.local = loc
        /\ r.strayed = v.strayed /\ Off(r) \subseteq Off(v)
        /\ \A c \in Codes : r.active[c] = IF c \in S THEN v.global \cup loc[c] ELSE v.active[c]
    BY <1>1, <1>5 DEF Instrumented
  <1> HIDE DEF r
  <1>7. Follows(r, stack)
    BY <1>6, <1>3, <1>4 DEF Follows
  <1>8. SetLocalEvents(v, S, es) = r
    BY <1>2 DEF r
  <1> QED BY <1>3, <1>6, <1>7, <1>8 DEF Localised

LEMMA RestartDoes ==
    ASSUME NEW v \in Instrumentations
    PROVE  /\ RestartEvents(v) \in Instrumentations
           /\ RestartEvents(v).global = v.global /\ RestartEvents(v).local = v.local
           /\ RestartEvents(v).strayed = v.strayed
           /\ Off(RestartEvents(v)) = {}
           /\ Follows(RestartEvents(v), stack)
  <1> DEFINE act == [c \in Codes |-> v.global \cup v.local[c]]
  <1>1. act \in [Codes -> SUBSET Events] /\ \A c \in Codes : act[c] = v.global \cup v.local[c]
    BY DEF Instrumentations, Events
  <1>2. RestartEvents(v) = [v EXCEPT !.active = act, !.disabled = {}, !.late = {}]
    BY DEF RestartEvents
  <1> HIDE DEF act
  <1> QED BY <1>1, <1>2 DEF Instrumentations, Off, Follows, Running

LEMMA DisableDoes ==
    ASSUME NEW v \in Instrumentations, NEW at \in Locations, NEW old \in BOOLEAN
    PROVE  /\ Disable(v, at, old) \in Instrumentations
           /\ Disable(v, at, old).global = v.global /\ Disable(v, at, old).local = v.local
           /\ Disable(v, at, old).active = v.active
           /\ Disable(v, at, old).strayed = v.strayed
           /\ Off(Disable(v, at, old)) \subseteq IF old THEN Off(v) ELSE Off(v) \cup {at}
  <1>1. CASE old
    BY <1>1 DEF Disable, Instrumentations, Off
  <1>2. CASE ~old
    BY <1>2 DEF Disable, Instrumentations, Off
  <1> QED BY <1>1, <1>2

LEMMA LocationParts ==
    ASSUME NEW at \in Locations
    PROVE  /\ at[1] \in Events /\ at[2] \in Codes
           /\ at[1] = "LINE" => at[3] \in Lines /\ at = LineAt(at[2], at[3])
           /\ at[1] = "CALL" => at[3] \in Codes /\ at = CallOf(at[2], at[3])
           /\ at[1] = "PY_START" => at = StartOf(at[2])
           /\ at[1] = "PY_RETURN" => at = ReturnOf(at[2])
  BY DEF Locations, Events, LineAt, CallOf, ReadOf, StartOf, ReturnOf

LEMMA PlacesDiffer ==
    /\ \A c, d, l : LineAt(c, l) # StartOf(d) /\ LineAt(c, l) # ReturnOf(d)
    /\ \A c, d : StartOf(c) # ReturnOf(d)
    /\ \A c, d, k, l : LineAt(c, l) = LineAt(d, k) => c = d /\ l = k
    /\ \A c, d : StartOf(c) = StartOf(d) => c = d
  BY DEF LineAt, StartOf, ReturnOf

-----------------------------------------------------------------------------
\* A step that disables nothing and answers nothing new leaves no place stuck
\* that was not.
Eased == \A at \in Locations : Stuck(at)' => Stuck(at)

LEMMA Easing ==
    ASSUME Off(vm') \subseteq Off(vm),
           \A t \in Threads : callback'[t].answer = "disable" /\ ~callback'[t].old
                                 => callback'[t] = callback[t]
    PROVE  Eased
  BY DEF Eased, Stuck, Silenced, OnItsWay, Off

LEMMA PlacesAre ==
    /\ \A c \in Codes, l \in Lines : LineAt(c, l) \in Locations
    /\ \A c \in Codes : StartOf(c) \in Locations /\ ReturnOf(c) \in Locations
  BY DEF Locations

LEMMA LinesKept ==
    ASSUME MonitoringInv, Eased, UNCHANGED breakpoints, registry \subseteq registry',
           control' # "restart" => control # "restart"
    PROVE  LinesOffered'
  <1>1. SUFFICES ASSUME control' # "restart", NEW c \in Codes, NEW l \in breakpoints[FileOf[c]]
                 PROVE  ~Stuck(LineAt(c, l))' /\ (c \notin registry' => ~Stuck(StartOf(c))')
    BY DEF LinesOffered
  <1>2. l \in Lines
    BY FileAssumption DEF MonitoringInv, MonitoringTypeOK
  <1>3. ~Stuck(LineAt(c, l)) /\ (c \notin registry => ~Stuck(StartOf(c)))
    BY <1>1 DEF MonitoringInv, LinesOffered
  <1>4. LineAt(c, l) \in Locations /\ StartOf(c) \in Locations
    BY <1>2, PlacesAre
  <1> QED BY <1>3, <1>4 DEF Eased

LEMMA ReturnsKept ==
    ASSUME MonitoringInv, Eased, ~vm'.strayed => ~vm.strayed,
           control = "events" /\ mode = "CONTINUE" => control' = "events" /\ mode' = "CONTINUE"
    PROVE  ReturnsOffered'
  <1>1. SUFFICES ASSUME ~vm'.strayed, ~(control' = "events" /\ mode' = "CONTINUE"), NEW c \in Codes
                 PROVE  ~Stuck(ReturnOf(c))'
    BY DEF ReturnsOffered
  <1>2. ~Stuck(ReturnOf(c))
    BY <1>1 DEF MonitoringInv, ReturnsOffered
  <1> QED BY <1>2, PlacesAre DEF Eased

\* A restart of the events leaves nothing stuck.
LEMMA NothingStuck ==
    ASSUME MonitoringTypeOK, Off(vm') = {}, callback' = Outdated
    PROVE  /\ \A at : ~Stuck(at)'
           /\ callback' \in [Threads -> Callbacks]
           /\ \A t \in Threads : callback'[t].answer = callback[t].answer
  <1>1. ASSUME NEW t \in Threads
        PROVE  /\ callback'[t] \in Callbacks /\ callback'[t].answer = callback[t].answer
               /\ callback'[t].answer = "disable" => callback'[t].old
    <2>1. callback[t] \in Callbacks
      BY DEF MonitoringTypeOK
    <2>2. CASE callback[t] = Idle
      BY <2>1, <2>2 DEF Outdated, Idle
    <2>3. CASE callback[t] # Idle
      <3>1. callback'[t] = [callback[t] EXCEPT !.old = TRUE]
        BY <2>3 DEF Outdated
      <3>2. callback[t] \in [at : Locations, answer : Answers, old : BOOLEAN]
        BY <2>1, <2>3 DEF Callbacks
      <3> QED BY <3>1, <3>2 DEF Callbacks
    <2> QED BY <2>2, <2>3
  <1>2. callback' = [t \in Threads |-> callback'[t]]
    BY DEF Outdated
  <1> QED BY <1>1, <1>2 DEF Stuck, Silenced, OnItsWay, Off

\* Entering a code object instruments it.
LEMMA EnterDoes ==
    ASSUME MonitoringTypeOK, NEW v \in Instrumentations, Follows(v, stack), NEW t \in Threads,
           NEW c \in Codes, Enter(t, c, v)
    PROVE  /\ vm' \in Instrumentations /\ vm'.global = v.global /\ vm'.local = v.local
           /\ vm'.strayed = v.strayed /\ Off(vm') \subseteq Off(v)
           /\ stack' \in [Threads -> Seq(Codes)] /\ Follows(vm', stack')
  <1>1. Instrumented(vm', v, {c})
    BY InstrumentDoes DEF Enter
  <1>2. stack[t] \in Seq(Codes) /\ stack' = [stack EXCEPT ![t] = Append(stack[t], c)]
    BY DEF Enter, MonitoringTypeOK
  <1>3. stack' \in [Threads -> Seq(Codes)]
    BY <1>2 DEF MonitoringTypeOK
  <1>4. Running(stack') \subseteq Running(stack) \cup {c}
    <2> SUFFICES ASSUME NEW d \in Codes, NEW u \in Threads, NEW i \in DOMAIN stack'[u],
                        stack'[u][i] = d, d # c
                 PROVE  \E k \in DOMAIN stack[u] : stack[u][k] = d
      BY DEF Running
    <2>1. CASE u = t
      <3>1. stack'[t] = Append(stack[t], c)
        BY <1>2 DEF MonitoringTypeOK
      <3> QED BY <3>1, <2>1, <1>2
    <2>2. CASE u # t
      BY <2>2, <1>2 DEF MonitoringTypeOK
    <2> QED BY <2>1, <2>2
  <1> QED BY <1>1, <1>3, <1>4 DEF Instrumented, Follows, Running

LEMMA ProceedDoes ==
    ASSUME MonitoringTypeOK, NEW v \in Instrumentations, Follows(v, stack), NEW t \in Threads,
           NEW at \in Locations, Proceed(t, at, v)
    PROVE  /\ vm' \in Instrumentations /\ vm'.global = v.global /\ vm'.local = v.local
           /\ vm'.strayed = v.strayed /\ Off(vm') \subseteq Off(v)
           /\ stack' \in [Threads -> Seq(Codes)] /\ Follows(vm', stack')
  <1>1. CASE at[1] = "CALL" /\ Enter(t, at[3], v)
    BY <1>1, LocationParts, EnterDoes
  <1>2. CASE vm' = v /\ UNCHANGED stack
    BY <1>2 DEF MonitoringTypeOK
  <1>3. CASE vm' = v /\ stack' = [stack EXCEPT ![t] = SubSeq(stack[t], 1, Len(stack[t]) - 1)]
    <2>1. stack[t] \in Seq(Codes)
      BY DEF MonitoringTypeOK
    <2> DEFINE rest == SubSeq(stack[t], 1, Len(stack[t]) - 1)
    <2>2. /\ rest \in Seq(Codes) /\ DOMAIN rest \subseteq DOMAIN stack[t]
          /\ \A i \in DOMAIN rest : rest[i] = stack[t][i]
      BY <2>1
    <2> HIDE DEF rest
    <2>3. stack' = [stack EXCEPT ![t] = rest] /\ stack' \in [Threads -> Seq(Codes)]
      BY <1>3, <2>2 DEF MonitoringTypeOK, rest
    <2>4. Running(stack') \subseteq Running(stack)
      <3> SUFFICES ASSUME NEW d \in Codes, NEW u \in Threads, NEW i \in DOMAIN stack'[u],
                          stack'[u][i] = d
                   PROVE  \E k \in DOMAIN stack[u] : stack[u][k] = d
        BY DEF Running
      <3>1. CASE u = t
        BY <3>1, <2>2, <2>3 DEF MonitoringTypeOK
      <3>2. CASE u # t
        BY <3>2, <2>3 DEF MonitoringTypeOK
      <3> QED BY <3>1, <3>2
    <2> QED BY <1>3, <2>3, <2>4 DEF Follows
  <1> QED BY <1>1, <1>2, <1>3 DEF Proceed, program

\* What each part of the invariant needs of a step that leaves the tables.
LEMMA Parts ==
    ASSUME MonitoringInv, MonitoringTypeOK', Follows(vm', stack'), Eased,
           UNCHANGED <<installed, breakpoints, registry, mode, control>>,
           vm'.local = vm.local, vm'.global = vm.global, vm'.strayed = vm.strayed,
           \A t \in Threads : callback'[t].answer = "switch" => callback[t].answer = "switch"
    PROVE  MonitoringInv'
  <1>1. LinesOffered' /\ ReturnsOffered'
    BY LinesKept, ReturnsKept
  <1>2. NobodyThere' /\ LinesOn' /\ EventsOfMode'
    BY DEF MonitoringInv, NobodyThere, LinesOn, EventsOfMode
  <1> QED BY <1>1, <1>2 DEF MonitoringInv

-----------------------------------------------------------------------------
(* The operations of the control thread.                                   *)

LEMMA VmTyped ==
    ASSUME MonitoringInv
    PROVE  /\ vm \in Instrumentations /\ Follows(vm, stack)
           /\ vm.global \in SUBSET Events /\ vm.local \in [Codes -> SUBSET {"LINE"}]
           /\ {"PY_START"} \in SUBSET Events /\ {} \in SUBSET Events
           /\ StepEvents \in SUBSET Events /\ StepEvents \cup {"LINE"} \in SUBSET Events
  BY DEF MonitoringInv, MonitoringTypeOK, Instrumentations, Events, StepEvents

LEMMA BackendInstallStep ==
    ASSUME MonitoringInv, install
    PROVE  MonitoringInv'
  <1>1. /\ installed' = TRUE /\ vm' = SetEvents(vm, {"PY_START"}) /\ ~installed
        /\ UNCHANGED <<breakpoints, registry, mode, stepCode, stack, callback, control>>
    BY DEF install, tables, program
  <1>2. /\ vm' \in Instrumentations /\ vm'.global = {"PY_START"} /\ vm'.strayed = vm.strayed
        /\ Off(vm') \subseteq Off(vm) /\ Follows(vm', stack)
    BY <1>1, VmTyped, SetEventsDoes
  <1>3. Follows(vm', stack')
    BY <1>1, <1>2
  <1>4. MonitoringTypeOK'
    BY <1>1, <1>2 DEF MonitoringInv, MonitoringTypeOK
  <1>5. Eased
    BY <1>1, <1>2, Easing
  <1>6. registry = {} /\ mode = "CONTINUE" /\ \A f \in Files : breakpoints[f] = {}
    BY <1>1 DEF MonitoringInv, NobodyThere
  <1>7. LinesOffered' /\ ReturnsOffered'
    BY <1>1, <1>2, <1>5, LinesKept, ReturnsKept
  <1>8. NobodyThere' /\ LinesOn' /\ EventsOfMode' /\ "PY_START" \in vm'.global
    BY <1>1, <1>2, <1>6 DEF NobodyThere, LinesOn, EventsOfMode
  <1> QED BY <1>3, <1>4, <1>7, <1>8 DEF MonitoringInv

LEMMA ShutdownStep ==
    ASSUME MonitoringInv, shutdown
    PROVE  MonitoringInv'
  <1>1. /\ installed' = FALSE /\ vm' = SetEvents(vm, {}) /\ control = "idle" /\ installed
        /\ breakpoints' = [f \in Files |-> {}] /\ registry' = {}
        /\ mode' = "CONTINUE" /\ stepCode' = NoCode
        /\ callback' = [t \in Threads |-> IF callback[t].answer = "switch"
                                          THEN [callback[t] EXCEPT !.answer = "orphan"]
                                          ELSE callback[t]]
        /\ UNCHANGED <<stack, control>>
    BY DEF shutdown, program, Operation
  <1>2. /\ vm' \in Instrumentations /\ vm'.strayed = vm.strayed
        /\ Off(vm') \subseteq Off(vm) /\ Follows(vm', stack)
    BY <1>1, VmTyped, SetEventsDoes
  <1>3. Follows(vm', stack')
    BY <1>1, <1>2
  <1>4. ASSUME NEW t \in Threads
        PROVE  /\ callback'[t] \in Callbacks /\ callback'[t].answer # "switch"
               /\ callback'[t].answer = "disable" => callback'[t] = callback[t]
    <2>1. callback[t] \in Callbacks
      BY DEF MonitoringInv, MonitoringTypeOK
    <2>2. CASE callback[t].answer = "switch"
      <3>1. callback'[t] = [callback[t] EXCEPT !.answer = "orphan"]
        BY <1>1, <2>2
      <3>2. callback[t] \in [at : Locations, answer : Answers, old : BOOLEAN]
        BY <2>1, <2>2 DEF Callbacks, Idle
      <3> QED BY <3>1, <3>2 DEF Callbacks, Answers
    <2>3. CASE callback[t].answer # "switch"
      BY <1>1, <2>1, <2>3
    <2> QED BY <2>2, <2>3
  <1>5. callback' \in [Threads -> Callbacks]
    BY <1>1, <1>4
  <1>6. MonitoringTypeOK'
    BY <1>1, <1>2, <1>5 DEF MonitoringInv, MonitoringTypeOK, Modes
  <1>7. Eased
    BY <1>2, <1>4, Easing
  <1>8. ReturnsOffered'
    BY <1>1, <1>2, <1>7, ReturnsKept
  <1>9. NobodyThere' /\ LinesOn' /\ EventsOfMode' /\ LinesOffered'
    BY <1>1, <1>4, FileAssumption DEF NobodyThere, LinesOn, EventsOfMode, LinesOffered
  <1> QED BY <1>1, <1>3, <1>6, <1>8, <1>9 DEF MonitoringInv

LEMMA UpdateStep ==
    ASSUME MonitoringInv, NEW f \in Files, NEW ls \in SUBSET Lines, update_breakpoints(f, ls)
    PROVE  MonitoringInv'
  <1> DEFINE known == {c \in registry : FileOf[c] = f}
             es == IF ls # {} THEN {"LINE"} ELSE {}
  <1>1. /\ installed /\ installed' /\ control = "idle" /\ control' = "restart"
        /\ breakpoints' = [breakpoints EXCEPT ![f] = ls]
        /\ UNCHANGED <<installed, registry, mode, stepCode, stack, callback>>
    BY DEF update_breakpoints, program, Operation
  <1>2. breakpoints'[f] = ls /\ \A g \in Files \ {f} : breakpoints'[g] = breakpoints[g]
    BY <1>1 DEF MonitoringInv, MonitoringTypeOK
  <1>3. vm' = SetLocalEvents(vm, known, es)
    BY <1>2 DEF update_breakpoints, ApplyLocalEvents
  <1>4. known \in SUBSET Codes /\ es \in SUBSET {"LINE"}
    BY DEF MonitoringInv, MonitoringTypeOK
  <1> HIDE DEF es
  <1>5. /\ vm' \in Instrumentations /\ vm'.global = vm.global /\ vm'.strayed = vm.strayed
        /\ \A c \in Codes : vm'.local[c] = IF c \in known THEN es ELSE vm.local[c]
        /\ Off(vm') \subseteq Off(vm) /\ Follows(vm', stack)
    <2>1. PICK K \in SUBSET Codes : K = known
      BY <1>4
    <2>2. /\ vm' \in Instrumentations /\ vm'.global = vm.global /\ vm'.strayed = vm.strayed
          /\ Localised(vm', vm, K, es)
          /\ Off(vm') \subseteq Off(vm) /\ Follows(vm', stack)
      <3> HIDE DEF known
      <3>1. vm' = SetLocalEvents(vm, K, es)
        BY <1>3, <2>1
      <3> QED BY <3>1, <1>4, VmTyped, SetLocalEventsDoes
    <2> QED BY <2>1, <2>2 DEF Localised
  <1>6. Follows(vm', stack')
    BY <1>1, <1>5
  <1>7. MonitoringTypeOK'
    BY <1>1, <1>5 DEF MonitoringInv, MonitoringTypeOK
  <1>8. Eased
    BY <1>1, <1>5, Easing
  <1>9. ReturnsOffered'
    BY <1>1, <1>5, <1>8, ReturnsKept
  <1>10. LinesOn'
    <2> SUFFICES ASSUME installed', mode' = "CONTINUE", NEW c \in registry',
                        breakpoints'[FileOf[c]] # {}
                 PROVE  "LINE" \in vm'.local[c]
      BY DEF LinesOn
    <2>1. c \in registry /\ c \in Codes /\ FileOf[c] \in Files
      BY <1>1, FileAssumption DEF MonitoringInv, MonitoringTypeOK
    <2>2. CASE FileOf[c] = f
      BY <2>1, <2>2, <1>5, <1>2 DEF es
    <2>3. CASE FileOf[c] # f
      BY <2>1, <2>3, <1>5, <1>2, <1>1 DEF MonitoringInv, LinesOn
    <2> QED BY <2>2, <2>3
  <1>11. NobodyThere' /\ EventsOfMode' /\ LinesOffered' /\ "PY_START" \in vm'.global
    BY <1>1, <1>5 DEF MonitoringInv, NobodyThere, EventsOfMode, LinesOffered
  <1> QED BY <1>6, <1>7, <1>9, <1>10, <1>11 DEF MonitoringInv

LEMMA RestartStep ==
    ASSUME MonitoringInv, restart_events
    PROVE  MonitoringInv'
  <1>1. /\ vm' = RestartEvents(vm) /\ callback' = Outdated /\ control = "restart" /\ control' = "idle"
        /\ UNCHANGED <<installed, breakpoints, registry, mode, stepCode, stack>>
    BY DEF restart_events, tables, program
  <1>2. /\ vm' \in Instrumentations /\ vm'.global = vm.global /\ vm'.local = vm.local
        /\ vm'.strayed = vm.strayed /\ Off(vm') = {} /\ Follows(vm', stack')
    <2>1. Follows(RestartEvents(vm), stack)
      BY VmTyped, RestartDoes
    <2> QED BY <1>1, <2>1, VmTyped, RestartDoes
  <1>3. /\ \A at : ~Stuck(at)'
        /\ callback' \in [Threads -> Callbacks]
        /\ \A t \in Threads : callback'[t].answer = callback[t].answer
    BY <1>1, <1>2, NothingStuck DEF MonitoringInv
  <1>4. MonitoringTypeOK'
    BY <1>1, <1>2, <1>3 DEF MonitoringInv, MonitoringTypeOK
  <1>5. LinesOffered' /\ ReturnsOffered'
    BY <1>3 DEF LinesOffered, ReturnsOffered
  <1>6. NobodyThere' /\ LinesOn' /\ EventsOfMode' /\ (installed' => "PY_START" \in vm'.global)
    BY <1>1, <1>2, <1>3 DEF MonitoringInv, NobodyThere, LinesOn, EventsOfMode
  <1> QED BY <1>2, <1>4, <1>5, <1>6 DEF MonitoringInv

\* Operations that change neither the events nor what they hang on.
LEMMA QuietStep ==
    ASSUME MonitoringInv,
           \/ \E f \in Files, l \in Lines, given \in BOOLEAN : set_conditions(f, l, given)
           \/ \E c \in Codes : capture_step_context(c)
    PROVE  MonitoringInv'
  <1>1. /\ UNCHANGED <<installed, breakpoints, registry, mode, vm, stack, callback, control>>
        /\ stepCode' \in Codes \cup {NoCode}
    BY DEF set_conditions, capture_step_context, tables, program, MonitoringInv, MonitoringTypeOK
  <1>2. MonitoringTypeOK' /\ Follows(vm', stack')
    BY <1>1 DEF MonitoringInv, MonitoringTypeOK
  <1>3. Eased
    BY <1>1 DEF Eased, Stuck, Silenced, OnItsWay
  <1> QED BY <1>1, <1>2, <1>3, Parts

LEMMA WatchStep ==
    ASSUME MonitoringInv,
           \/ \E ns \in SUBSET Names : sync_read_watchpoints(ns)
           \/ \E cs \in SUBSET Codes : update_function_breakpoints(cs)
    PROVE  MonitoringInv'
  <1>1. /\ installed /\ control = "idle" /\ control' \in {"restart", "idle"}
        /\ UNCHANGED <<installed, breakpoints, registry, mode, stepCode, stack, callback>>
    BY DEF sync_read_watchpoints, update_function_breakpoints, program, Operation
  <1>2. PICK es \in SUBSET Events :
               /\ vm' = SetEvents(vm, es) \/ vm' = vm
               /\ vm' = SetEvents(vm, es) => es \ {"CALL", "INSTRUCTION"} = vm.global \ {"CALL", "INSTRUCTION"}
    <2>0. /\ vm.global \cup {"INSTRUCTION"} \in SUBSET Events /\ vm.global \ {"INSTRUCTION"} \in SUBSET Events
          /\ vm.global \cup {"CALL"} \in SUBSET Events /\ vm.global \ {"CALL"} \in SUBSET Events
      BY VmTyped DEF Events
    <2>1. CASE \E ns \in SUBSET Names : sync_read_watchpoints(ns)
      <3>1. \/ vm' = SetEvents(vm, vm.global \cup {"INSTRUCTION"})
            \/ vm' = SetEvents(vm, vm.global \ {"INSTRUCTION"})
        BY <2>1 DEF sync_read_watchpoints
      <3> QED BY <2>0, <3>1
    <2>2. CASE \E cs \in SUBSET Codes : update_function_breakpoints(cs)
      <3>1. \/ vm' = SetEvents(vm, vm.global \cup {"CALL"})
            \/ vm' = SetEvents(vm, vm.global \ {"CALL"})
            \/ vm' = vm
        BY <2>2 DEF update_function_breakpoints
      <3>2. CASE vm' = vm /\ vm' # SetEvents(vm, vm.global)
        BY <3>2, VmTyped
      <3>3. CASE vm' = SetEvents(vm, vm.global)
        BY <3>3, VmTyped
      <3> QED BY <2>0, <3>1, <3>2, <3>3
    <2> QED BY <2>1, <2>2
  <1>3. /\ vm' \in Instrumentations /\ vm'.strayed = vm.strayed /\ vm'.local = vm.local
        /\ Off(vm') \subseteq Off(vm) /\ Follows(vm', stack)
        /\ vm'.global \ {"CALL", "INSTRUCTION"} = vm.global \ {"CALL", "INSTRUCTION"}
    <2>1. CASE vm' = SetEvents(vm, es)
      BY <2>1, <1>2, VmTyped, SetEventsDoes
    <2>2. CASE vm' = vm
      BY <2>2, VmTyped
    <2> QED BY <1>2, <2>1, <2>2
  <1>4. MonitoringTypeOK' /\ Follows(vm', stack')
    BY <1>1, <1>3 DEF MonitoringInv, MonitoringTypeOK
  <1>5. Eased
    BY <1>1, <1>3, Easing
  <1>6. LinesOffered' /\ ReturnsOffered'
    BY <1>1, <1>3, <1>5, LinesKept, ReturnsKept
  <1>7. NobodyThere' /\ LinesOn' /\ EventsOfMode' /\ (installed' => "PY_START" \in vm'.global)
    BY <1>1, <1>3 DEF MonitoringInv, NobodyThere, LinesOn, EventsOfMode
  <1> QED BY <1>4, <1>6, <1>7 DEF MonitoringInv

LEMMA SetSteppingStep ==
    ASSUME MonitoringInv, NEW m \in Modes, set_stepping(m)
    PROVE  MonitoringInv'
  <1>1. /\ installed /\ control = "idle" /\ control' = "events" /\ mode' = m
        /\ UNCHANGED <<installed, breakpoints, registry, stepCode, vm, stack, callback>>
    BY DEF set_stepping, tables, program, Operation
  <1>2. MonitoringTypeOK' /\ Follows(vm', stack')
    BY <1>1 DEF MonitoringInv, MonitoringTypeOK
  <1>3. Eased
    BY <1>1 DEF Eased, Stuck, Silenced, OnItsWay
  <1>4. LinesOffered' /\ ReturnsOffered'
    BY <1>1, <1>3, LinesKept, ReturnsKept
  <1>5. NobodyThere' /\ LinesOn' /\ EventsOfMode' /\ (installed' => "PY_START" \in vm'.global)
    BY <1>1 DEF MonitoringInv, NobodyThere, LinesOn, EventsOfMode
  <1> QED BY <1>2, <1>4, <1>5 DEF MonitoringInv

LEMMA SteppingEventsStep ==
    ASSUME MonitoringInv, set_stepping_events
    PROVE  MonitoringInv'
  <1>1. /\ control = "events" /\ control' = "idle" /\ mode # "CONTINUE" /\ vm' = SteppingEvents(vm)
        /\ UNCHANGED <<installed, breakpoints, registry, mode, stepCode, stack, callback>>
    BY DEF set_stepping_events, tables, program
  <1> DEFINE base == SetEvents(vm, StepEvents)
  <1>2. /\ base \in Instrumentations /\ base.global = StepEvents /\ base.strayed = vm.strayed
        /\ Off(base) \subseteq Off(vm) /\ Follows(base, stack)
    BY VmTyped, SetEventsDoes
  <1>3. /\ vm' \in Instrumentations /\ vm'.strayed = vm.strayed
        /\ Off(vm') \subseteq Off(vm) /\ Follows(vm', stack)
        /\ StepEvents \subseteq vm'.global
        /\ mode = "STEP_IN" => "LINE" \in vm'.global
    <2>1. CASE mode = "STEP_IN"
      <3>1. vm' = SetEvents(vm, StepEvents \cup {"LINE"})
        BY <2>1, <1>1 DEF SteppingEvents
      <3> QED BY <3>1, VmTyped, SetEventsDoes
    <2>2. CASE mode # "STEP_IN" /\ stepCode = NoCode
      <3>1. vm' = base
        BY <2>2, <1>1 DEF SteppingEvents
      <3> QED BY <3>1, <1>2, <2>2
    <2>3. CASE mode # "STEP_IN" /\ stepCode # NoCode
      <3> DEFINE es == IF mode = "STEP_OVER" THEN {"LINE"} ELSE {}
      <3>1. vm' = SetLocalEvents(base, {stepCode}, es)
        BY <2>3, <1>1 DEF SteppingEvents
      <3>2. {stepCode} \in SUBSET Codes /\ es \in SUBSET {"LINE"}
        BY <2>3 DEF MonitoringInv, MonitoringTypeOK
      <3> HIDE DEF es, base
      <3> QED BY <3>1, <3>2, <1>2, <2>3, SetLocalEventsDoes
    <2> QED BY <2>1, <2>2, <2>3
  <1> HIDE DEF base
  <1>4. MonitoringTypeOK' /\ Follows(vm', stack')
    BY <1>1, <1>3 DEF MonitoringInv, MonitoringTypeOK
  <1>5. Eased
    BY <1>1, <1>3, Easing
  <1>6. LinesOffered' /\ ReturnsOffered'
    BY <1>1, <1>3, <1>5, LinesKept, ReturnsKept
  <1>7. NobodyThere' /\ LinesOn' /\ EventsOfMode' /\ (installed' => "PY_START" \in vm'.global)
    BY <1>1, <1>3 DEF MonitoringInv, NobodyThere, LinesOn, EventsOfMode, StepEvents
  <1> QED BY <1>4, <1>6, <1>7 DEF MonitoringInv

LEMMA SteppingContinueStep ==
    ASSUME MonitoringInv, set_stepping_continue
    PROVE  MonitoringInv'
  <1> DEFINE known == {c \in registry : breakpoints[FileOf[c]] # {}}
             base == SetEvents(vm, {"PY_START"})
             line == SetLocalEvents(base, known, {"LINE"})
             over == RestartEvents(line)
  <1>1. /\ control = "events" /\ control' = "idle" /\ mode = "CONTINUE"
        /\ vm' = [over EXCEPT !.strayed = FALSE]
        /\ stepCode' = NoCode /\ callback' = Outdated
        /\ UNCHANGED <<installed, breakpoints, registry, mode, stack>>
    BY DEF set_stepping_continue, ContinueEvents, tables, program
  <1>2. base \in Instrumentations /\ base.global = {"PY_START"} /\ Follows(base, stack)
    BY VmTyped, SetEventsDoes
  <1>3. known \in SUBSET Codes /\ {"LINE"} \in SUBSET {"LINE"}
    BY DEF MonitoringInv, MonitoringTypeOK
  <1> HIDE DEF base
  <1>4. /\ line \in Instrumentations /\ line.global = {"PY_START"}
        /\ \A c \in known : line.local[c] = {"LINE"}
    <2>1. PICK K \in SUBSET Codes : K = known
      BY <1>3
    <2>2. SetLocalEvents(base, K, {"LINE"}) \in Instrumentations
          /\ SetLocalEvents(base, K, {"LINE"}).global = base.global
          /\ Localised(SetLocalEvents(base, K, {"LINE"}), base, K, {"LINE"})
      BY <1>2, <1>3, SetLocalEventsDoes
    <2>3. SetLocalEvents(base, K, {"LINE"}) = line
      BY <2>1
    <2>4. known \subseteq Codes
      BY <1>3
    <2> HIDE DEF known, line
    <2> QED BY <1>2, <2>1, <2>2, <2>3, <2>4 DEF Localised
  <1> HIDE DEF line
  <1>5. /\ over \in Instrumentations /\ over.global = {"PY_START"} /\ over.local = line.local
        /\ Off(over) = {} /\ Follows(over, stack)
    BY <1>4, RestartDoes
  <1> HIDE DEF over
  <1>6. /\ vm' \in Instrumentations /\ vm'.global = {"PY_START"} /\ vm'.local = line.local
        /\ Off(vm') = {} /\ Follows(vm', stack')
    BY <1>1, <1>5 DEF Instrumentations, Off, Follows
  <1>7. /\ \A at : ~Stuck(at)'
        /\ callback' \in [Threads -> Callbacks]
        /\ \A t \in Threads : callback'[t].answer = callback[t].answer
    BY <1>1, <1>6, NothingStuck DEF MonitoringInv
  <1>8. MonitoringTypeOK'
    BY <1>1, <1>6, <1>7 DEF MonitoringInv, MonitoringTypeOK
  <1>9. LinesOffered' /\ ReturnsOffered'
    BY <1>7 DEF LinesOffered, ReturnsOffered
  <1>10. LinesOn'
    BY <1>1, <1>4, <1>6 DEF LinesOn
  <1>11. NobodyThere' /\ EventsOfMode' /\ (installed' => "PY_START" \in vm'.global)
    BY <1>1, <1>6, <1>7 DEF MonitoringInv, NobodyThere, EventsOfMode
  <1> QED BY <1>6, <1>8, <1>9, <1>10, <1>11 DEF MonitoringInv

-----------------------------------------------------------------------------
(* The program's threads.                                                  *)

\* The running code objects are those on the stacks.
LEMMA TopFrameRuns ==
    ASSUME MonitoringTypeOK, NEW t \in Threads, stack[t] # <<>>
    PROVE  Top(t) \in Running(stack)
  BY DEF MonitoringTypeOK, Top, Running

\* What a location tells when it fires: its event is on.
LEMMA FiringIsOn ==
    ASSUME MonitoringInv, NEW t \in Threads, NEW at \in Locations, At(t, at), Fires(at)
    PROVE  installed /\ at[2] \in Codes /\ at[1] \in vm.global \cup vm.local[at[2]]
  <1>1. at[2] \in Running(stack)
    BY TopFrameRuns DEF At, MonitoringInv
  <1>2. vm.active[at[2]] = vm.global \cup vm.local[at[2]]
    BY <1>1 DEF MonitoringInv, Follows
  <1> QED BY <1>2, LocationParts DEF Fires

\* A callback that has answered.
LEMMA Answered ==
    ASSUME MonitoringTypeOK, NEW t \in Threads, NEW at \in Locations, NEW a \in Answers,
           Answer(t, at, a)
    PROVE  /\ callback' \in [Threads -> Callbacks]
           /\ callback'[t].answer = a /\ callback'[t].at = at /\ callback'[t].old = FALSE
           /\ \A u \in Threads \ {t} : callback'[u] = callback[u]
  <1> DEFINE new == [at |-> at, answer |-> a, old |-> FALSE]
  <1>1. new \in Callbacks /\ new.answer = a /\ new.at = at /\ new.old = FALSE
    BY DEF Callbacks
  <1>2. callback' = [callback EXCEPT ![t] = new]
    BY DEF Answer
  <1> HIDE DEF new
  <1> QED BY <1>1, <1>2 DEF MonitoringTypeOK

\* Answers that disable nothing, and the one that sets the callback aside.
LEMMA HarmlessAnswer ==
    ASSUME MonitoringInv, NEW t \in Threads, NEW at \in Locations, NEW a \in Answers \ {"disable"},
           Answer(t, at, a), a = "switch" => installed,
           UNCHANGED <<installed, breakpoints, registry, mode, stepCode, vm, stack, control>>
    PROVE  MonitoringInv'
  <1>1. /\ callback' \in [Threads -> Callbacks]
        /\ callback'[t].answer = a /\ \A u \in Threads \ {t} : callback'[u] = callback[u]
    BY Answered DEF MonitoringInv
  <1>2. MonitoringTypeOK' /\ Follows(vm', stack')
    BY <1>1 DEF MonitoringInv, MonitoringTypeOK
  <1>3. Eased
    BY <1>1, Easing
  <1>4. LinesOffered' /\ ReturnsOffered'
    BY <1>3, LinesKept, ReturnsKept
  <1>5. NobodyThere' /\ LinesOn' /\ EventsOfMode' /\ (installed' => "PY_START" \in vm'.global)
    BY <1>1 DEF MonitoringInv, NobodyThere, LinesOn, EventsOfMode
  <1> QED BY <1>2, <1>4, <1>5 DEF MonitoringInv

\* An answer that disables its location: nothing else gets stuck.
LEMMA DisablingAnswer ==
    ASSUME MonitoringInv, NEW t \in Threads, NEW at \in Locations, Answer(t, at, "disable"),
           UNCHANGED <<breakpoints, mode, stepCode, stack, control>>,
           registry \subseteq registry', vm'.strayed = vm.strayed, Off(vm') \subseteq Off(vm),
           control # "restart" => \A c \in Codes : \A l \in breakpoints[FileOf[c]] :
                                     at # LineAt(c, l) /\ (at = StartOf(c) => c \in registry'),
           ~vm.strayed /\ ~(control = "events" /\ mode = "CONTINUE")
               => \A c \in Codes : at # ReturnOf(c)
    PROVE  /\ callback' \in [Threads -> Callbacks]
           /\ LinesOffered' /\ ReturnsOffered'
           /\ \A u \in Threads : callback'[u].answer = "switch" => callback[u].answer = "switch"
  <1>0. "disable" \in Answers
    BY DEF Answers
  <1>1. /\ callback' \in [Threads -> Callbacks]
        /\ callback'[t].answer = "disable" /\ callback'[t].at = at
        /\ \A u \in Threads \ {t} : callback'[u] = callback[u]
    BY <1>0, Answered DEF MonitoringInv
  <1>2. \A p : Stuck(p)' => Stuck(p) \/ p = at
    BY <1>1 DEF Stuck, Silenced, OnItsWay, Off
  <1>3. LinesOffered'
    <2>1. SUFFICES ASSUME control # "restart", NEW c \in Codes, NEW l \in breakpoints[FileOf[c]]
                   PROVE  ~Stuck(LineAt(c, l))' /\ (c \notin registry' => ~Stuck(StartOf(c))')
      BY DEF LinesOffered
    <2>2. ~Stuck(LineAt(c, l)) /\ (c \notin registry => ~Stuck(StartOf(c)))
      BY <2>1 DEF MonitoringInv, LinesOffered
    <2> QED BY <2>1, <2>2, <1>2
  <1>4. ReturnsOffered'
    BY <1>2 DEF MonitoringInv, ReturnsOffered
  <1> QED BY <1>1, <1>3, <1>4

LEMMA BackendLineStep ==
    ASSUME MonitoringInv, NEW t \in Threads, NEW at \in Locations, NEW a \in Answers, on_line(t, at, a)
    PROVE  MonitoringInv'
  <1>1. /\ At(t, at) /\ Fires(at) /\ at[1] = "LINE" /\ a \in LineAnswers(at[2], at[3])
        /\ Answer(t, at, a)
        /\ UNCHANGED <<installed, breakpoints, registry, mode, stepCode, vm, stack, control>>
    BY DEF on_line, tables, program
  <1>2. at[2] \in Codes /\ at = LineAt(at[2], at[3])
    BY <1>1, LocationParts
  <1>3. a \in {"told", "keep", "disable"}
        /\ (a = "disable" => at[3] \notin breakpoints[FileOf[at[2]]])
    BY <1>1 DEF LineAnswers
  <1>4. CASE a # "disable"
    BY <1>1, <1>3, <1>4, HarmlessAnswer
  <1>5. CASE a = "disable"
    <2>1. \A c, l : at = LineAt(c, l) => c = at[2] /\ l = at[3]
      BY <1>2 DEF LineAt
    <2>2. \A c : at # StartOf(c) /\ at # ReturnOf(c)
      BY <1>2, PlacesDiffer
    <2>3. /\ callback' \in [Threads -> Callbacks] /\ LinesOffered' /\ ReturnsOffered'
          /\ \A u \in Threads : callback'[u].answer = "switch" => callback[u].answer = "switch"
      BY <1>1, <1>3, <1>5, <2>1, <2>2, DisablingAnswer
    <2>4. MonitoringTypeOK' /\ Follows(vm', stack')
      BY <1>1, <2>3 DEF MonitoringInv, MonitoringTypeOK
    <2>5. NobodyThere' /\ LinesOn' /\ EventsOfMode' /\ (installed' => "PY_START" \in vm'.global)
      BY <1>1, <2>3 DEF MonitoringInv, NobodyThere, LinesOn, EventsOfMode
    <2> QED BY <2>3, <2>4, <2>5 DEF MonitoringInv
  <1> QED BY <1>4, <1>5

LEMMA CallOrReadStep ==
    ASSUME MonitoringInv, NEW t \in Threads, NEW at \in Locations,
           on_call(t, at) \/ on_instruction(t, at)
    PROVE  MonitoringInv'
  <1>1. PICK a \in {"told", "disable"} :
           /\ at[1] \in {"CALL", "INSTRUCTION"} /\ Answer(t, at, a)
           /\ UNCHANGED <<installed, breakpoints, registry, mode, stepCode, vm, stack, control>>
    BY DEF on_call, on_instruction, CallAnswer, ReadAnswer, tables, program
  <1>2. CASE a # "disable"
    BY <1>1, <1>2, HarmlessAnswer DEF Answers
  <1>3. CASE a = "disable"
    <2>1. \A c, l : at # LineAt(c, l) /\ at # StartOf(c) /\ at # ReturnOf(c)
      BY <1>1 DEF LineAt, StartOf, ReturnOf
    <2>2. /\ callback' \in [Threads -> Callbacks] /\ LinesOffered' /\ ReturnsOffered'
          /\ \A u \in Threads : callback'[u].answer = "switch" => callback[u].answer = "switch"
      BY <1>1, <1>3, <2>1, DisablingAnswer
    <2>3. MonitoringTypeOK' /\ Follows(vm', stack')
      BY <1>1, <2>2 DEF MonitoringInv, MonitoringTypeOK
    <2>4. NobodyThere' /\ LinesOn' /\ EventsOfMode' /\ (installed' => "PY_START" \in vm'.global)
      BY <1>1, <2>2 DEF MonitoringInv, NobodyThere, LinesOn, EventsOfMode
    <2> QED BY <2>2, <2>3, <2>4 DEF MonitoringInv
  <1> QED BY <1>2, <1>3

LEMMA StartStep ==
    ASSUME MonitoringInv, NEW t \in Threads, NEW at \in Locations, on_py_start(t, at)
    PROVE  MonitoringInv'
  <1> DEFINE c0 == at[2]
  <1>1. /\ At(t, at) /\ Fires(at) /\ at[1] = "PY_START" /\ control # "events" /\ installed
        /\ registry' = registry \cup {c0}
        /\ vm' = IF breakpoints[FileOf[c0]] # {} THEN SetLocalEvents(vm, {c0}, {"LINE"}) ELSE vm
        /\ Answer(t, at, "disable")
        /\ UNCHANGED <<installed, breakpoints, mode, stepCode, stack, control>>
    BY DEF on_py_start, tables, program, Fires
  <1>2. c0 \in Codes /\ at = StartOf(c0)
    BY <1>1, LocationParts
  <1> HIDE DEF c0
  <1>3. /\ vm' \in Instrumentations /\ vm'.global = vm.global /\ vm'.strayed = vm.strayed
        /\ Off(vm') \subseteq Off(vm) /\ Follows(vm', stack)
        /\ breakpoints[FileOf[c0]] # {} => Localised(vm', vm, {c0}, {"LINE"})
        /\ breakpoints[FileOf[c0]] = {} => vm' = vm
    <2>1. CASE breakpoints[FileOf[c0]] # {}
      <3>1. {c0} \in SUBSET Codes /\ vm' = SetLocalEvents(vm, {c0}, {"LINE"})
        BY <1>1, <1>2, <2>1
      <3> QED BY <3>1, <2>1, VmTyped, SetLocalEventsDoes
    <2>2. CASE breakpoints[FileOf[c0]] = {}
      BY <1>1, <2>2, VmTyped
    <2> QED BY <2>1, <2>2
  <1>4. /\ callback' \in [Threads -> Callbacks] /\ LinesOffered' /\ ReturnsOffered'
        /\ \A u \in Threads : callback'[u].answer = "switch" => callback[u].answer = "switch"
    <2>1. \A c, l : at # LineAt(c, l) /\ at # ReturnOf(c)
      BY <1>2, PlacesDiffer
    <2>2. \A c : at = StartOf(c) => c \in registry'
      BY <1>1, <1>2, PlacesDiffer
    <2> QED BY <1>1, <1>3, <2>1, <2>2, DisablingAnswer
  <1>5. MonitoringTypeOK' /\ Follows(vm', stack')
    BY <1>1, <1>2, <1>3, <1>4 DEF MonitoringInv, MonitoringTypeOK
  <1>6. LinesOn'
    <2> SUFFICES ASSUME mode = "CONTINUE", control # "events", NEW c \in registry \cup {c0},
                        breakpoints[FileOf[c]] # {}
                 PROVE  "LINE" \in vm'.local[c]
      BY <1>1 DEF LinesOn
    <2>1. c \in registry => "LINE" \in vm.local[c]
      BY <1>1 DEF MonitoringInv, LinesOn
    <2>2. c \in Codes
      BY <1>2 DEF MonitoringInv, MonitoringTypeOK
    <2> QED BY <2>1, <2>2, <1>3 DEF Localised
  <1>7. NobodyThere' /\ EventsOfMode' /\ (installed' => "PY_START" \in vm'.global)
    BY <1>1, <1>3 DEF MonitoringInv, NobodyThere, EventsOfMode
  <1> QED BY <1>4, <1>5, <1>6, <1>7 DEF MonitoringInv

LEMMA ReturnStep ==
    ASSUME MonitoringInv, NEW t \in Threads, NEW at \in Locations, on_py_return(t, at)
    PROVE  MonitoringInv'
  <1>1. /\ At(t, at) /\ Fires(at) /\ at[1] = "PY_RETURN" /\ installed
        /\ Answer(t, at, ReturnAnswer)
        /\ UNCHANGED <<installed, breakpoints, registry, mode, stepCode, vm, stack, control>>
    BY DEF on_py_return, tables, program, Fires
  <1>2. at[2] \in Codes /\ at = ReturnOf(at[2])
    BY <1>1, LocationParts
  <1>3. CASE mode # "CONTINUE"
    <2>1. ReturnAnswer \in {"keep", "switch"}
      BY <1>3 DEF ReturnAnswer
    <2> QED BY <1>1, <2>1, HarmlessAnswer DEF Answers
  <1>4. CASE mode = "CONTINUE"
    <2>1. ReturnAnswer = "disable"
      BY <1>4 DEF ReturnAnswer
    <2>2. "PY_RETURN" \in vm.global
      <3>1. at[1] \in vm.global \cup vm.local[at[2]]
        BY <1>1, FiringIsOn
      <3>2. vm.local[at[2]] \subseteq {"LINE"}
        BY <1>2, VmTyped
      <3> QED BY <3>1, <3>2, <1>1
    <2>3. vm.strayed \/ control = "events"
      BY <1>1, <1>4, <2>2 DEF MonitoringInv, EventsOfMode
    <2>4. \A c, l : at # LineAt(c, l) /\ at # StartOf(c)
      BY <1>2, PlacesDiffer
    <2>5. /\ callback' \in [Threads -> Callbacks] /\ LinesOffered' /\ ReturnsOffered'
          /\ \A u \in Threads : callback'[u].answer = "switch" => callback[u].answer = "switch"
      BY <1>1, <1>4, <2>1, <2>3, <2>4, DisablingAnswer
    <2>6. MonitoringTypeOK' /\ Follows(vm', stack')
      BY <1>1, <2>5 DEF MonitoringInv, MonitoringTypeOK
    <2>7. NobodyThere' /\ LinesOn' /\ EventsOfMode' /\ (installed' => "PY_START" \in vm'.global)
      BY <1>1, <2>5 DEF MonitoringInv, NobodyThere, LinesOn, EventsOfMode
    <2> QED BY <2>5, <2>6, <2>7 DEF MonitoringInv
  <1> QED BY <1>3, <1>4

\* A callback whose answer becomes "keep".
LEMMA KeptCallback ==
    ASSUME MonitoringTypeOK, NEW t \in Threads, callback[t].answer # "none",
           callback' = [callback EXCEPT ![t].answer = "keep"]
    PROVE  /\ callback' \in [Threads -> Callbacks]
           /\ \A u \in Threads : callback'[u].answer \in {"disable", "switch"} => callback'[u] = callback[u]
  <1>1. callback[t] \in [at : Locations, answer : Answers, old : BOOLEAN]
    BY DEF MonitoringTypeOK, Callbacks, Idle
  <1> DEFINE new == [callback[t] EXCEPT !.answer = "keep"]
  <1>2. new \in Callbacks /\ new.answer = "keep"
    BY <1>1 DEF Callbacks, Answers
  <1>3. callback' = [callback EXCEPT ![t] = new]
    OBVIOUS
  <1> HIDE DEF new
  <1> QED BY <1>2, <1>3 DEF MonitoringTypeOK

LEMMA SwitchStep ==
    ASSUME MonitoringInv, NEW t \in Threads, on_py_return_switch(t)
    PROVE  MonitoringInv'
  <1>1. /\ callback[t].answer = "switch" /\ control # "events"
        /\ mode' = "STEP_IN" /\ stepCode' = NoCode
        /\ vm' = SetEvents(vm, StepEvents \cup {"LINE"})
        /\ callback' = [callback EXCEPT ![t].answer = "keep"]
        /\ UNCHANGED <<installed, breakpoints, registry, stack, control>>
    BY DEF on_py_return_switch, tables, program
  <1>2. installed
    BY <1>1 DEF MonitoringInv, NobodyThere
  <1>3. /\ vm' \in Instrumentations /\ vm'.global = StepEvents \cup {"LINE"}
        /\ vm'.strayed = vm.strayed /\ Off(vm') \subseteq Off(vm) /\ Follows(vm', stack)
    BY <1>1, VmTyped, SetEventsDoes
  <1>4. /\ callback' \in [Threads -> Callbacks]
        /\ \A u \in Threads : callback'[u].answer \in {"disable", "switch"} => callback'[u] = callback[u]
    BY <1>1, KeptCallback DEF MonitoringInv
  <1>5. MonitoringTypeOK' /\ Follows(vm', stack')
    BY <1>1, <1>3, <1>4 DEF MonitoringInv, MonitoringTypeOK, Modes
  <1>6. Eased
    BY <1>3, <1>4, Easing
  <1>7. LinesOffered' /\ ReturnsOffered'
    BY <1>1, <1>3, <1>6, LinesKept, ReturnsKept
  <1>8. NobodyThere' /\ LinesOn' /\ EventsOfMode' /\ (installed' => "PY_START" \in vm'.global)
    BY <1>1, <1>2, <1>3 DEF NobodyThere, LinesOn, EventsOfMode, StepEvents
  <1> QED BY <1>5, <1>7, <1>8 DEF MonitoringInv

LEMMA OrphanStep ==
    ASSUME MonitoringInv, NEW t \in Threads, on_py_return_orphan(t)
    PROVE  MonitoringInv'
  <1> DEFINE more == SetEvents(vm, StepEvents \cup {"LINE"})
  <1>1. /\ callback[t].answer = "orphan"
        /\ vm' = IF installed THEN [more EXCEPT !.strayed = TRUE] ELSE vm
        /\ callback' = [callback EXCEPT ![t].answer = "keep"]
        /\ UNCHANGED <<installed, breakpoints, registry, mode, stepCode, stack, control>>
    BY DEF on_py_return_orphan, tables, program
  <1>2. /\ more \in Instrumentations /\ more.global = StepEvents \cup {"LINE"} /\ more.local = vm.local
        /\ Off(more) \subseteq Off(vm) /\ Follows(more, stack)
    BY VmTyped, SetEventsDoes
  <1> HIDE DEF more
  <1>3. /\ vm' \in Instrumentations /\ Off(vm') \subseteq Off(vm) /\ Follows(vm', stack)
        /\ vm'.local = vm.local
        /\ installed => vm'.global = StepEvents \cup {"LINE"} /\ vm'.strayed
        /\ ~installed => vm' = vm
    <2>1. CASE installed
      BY <1>1, <1>2, <2>1 DEF Instrumentations, Off, Follows
    <2>2. CASE ~installed
      BY <1>1, <2>2, VmTyped
    <2> QED BY <2>1, <2>2
  <1>4. /\ callback' \in [Threads -> Callbacks]
        /\ \A u \in Threads : callback'[u].answer \in {"disable", "switch"} => callback'[u] = callback[u]
    BY <1>1, KeptCallback DEF MonitoringInv
  <1>5. MonitoringTypeOK' /\ Follows(vm', stack')
    BY <1>1, <1>3, <1>4 DEF MonitoringInv, MonitoringTypeOK
  <1>6. Eased
    BY <1>3, <1>4, Easing
  <1>7. LinesOffered' /\ ReturnsOffered'
    BY <1>1, <1>3, <1>6, LinesKept, ReturnsKept
  <1>8. NobodyThere' /\ LinesOn' /\ EventsOfMode' /\ (installed' => "PY_START" \in vm'.global)
    BY <1>1, <1>3, <1>4 DEF MonitoringInv, NobodyThere, LinesOn, EventsOfMode, StepEvents
  <1> QED BY <1>5, <1>7, <1>8 DEF MonitoringInv

LEMMA ResumeStep ==
    ASSUME MonitoringInv, NEW t \in Threads, Resume(t)
    PROVE  MonitoringInv'
  <1>1. /\ callback[t].answer = "told" /\ callback' = [callback EXCEPT ![t].answer = "keep"]
        /\ UNCHANGED <<installed, breakpoints, registry, mode, stepCode, vm, stack, control>>
    BY DEF Resume, tables, program
  <1>2. /\ callback' \in [Threads -> Callbacks]
        /\ \A u \in Threads : callback'[u].answer \in {"disable", "switch"} => callback'[u] = callback[u]
    BY <1>1, KeptCallback DEF MonitoringInv
  <1>3. MonitoringTypeOK' /\ Follows(vm', stack')
    BY <1>1, <1>2 DEF MonitoringInv, MonitoringTypeOK
  <1>4. Eased
    BY <1>1, <1>2, Easing
  <1> QED BY <1>1, <1>2, <1>3, <1>4, Parts

LEMMA BeginOrPassStep ==
    ASSUME MonitoringInv, NEW t \in Threads,
           (\E c \in Codes : Begin(t, c)) \/ (\E at \in Locations : Pass(t, at))
    PROVE  MonitoringInv'
  <1>1. UNCHANGED <<installed, breakpoints, registry, mode, stepCode, callback, control>>
    BY DEF Begin, Pass, tables
  <1>2. /\ vm' \in Instrumentations /\ vm'.global = vm.global /\ vm'.local = vm.local
        /\ vm'.strayed = vm.strayed /\ Off(vm') \subseteq Off(vm)
        /\ stack' \in [Threads -> Seq(Codes)] /\ Follows(vm', stack')
    <2>1. CASE \E c \in Codes : Begin(t, c)
      BY <2>1, VmTyped, EnterDoes DEF Begin, MonitoringInv
    <2>2. CASE \E at \in Locations : Pass(t, at)
      BY <2>2, VmTyped, ProceedDoes DEF Pass, MonitoringInv
    <2> QED BY <2>1, <2>2
  <1>3. MonitoringTypeOK'
    BY <1>1, <1>2 DEF MonitoringInv, MonitoringTypeOK
  <1>4. Eased
    BY <1>1, <1>2, Easing
  <1> QED BY <1>1, <1>2, <1>3, <1>4, Parts

LEMMA LandStep ==
    ASSUME MonitoringInv, NEW t \in Threads, Land(t)
    PROVE  MonitoringInv'
  <1> DEFINE at == callback[t].at
             old == callback[t].old
             v == IF callback[t].answer = "disable" THEN Disable(vm, at, old) ELSE vm
  <1>1. /\ callback[t].answer \in {"disable", "keep"} /\ Proceed(t, at, v)
        /\ callback' = [callback EXCEPT ![t] = Idle]
        /\ UNCHANGED <<installed, breakpoints, registry, mode, stepCode, control>>
    BY DEF Land, tables
  <1>2. at \in Locations /\ old \in BOOLEAN
    BY <1>1 DEF MonitoringInv, MonitoringTypeOK, Callbacks, Idle
  <1>3. /\ v \in Instrumentations /\ v.global = vm.global /\ v.local = vm.local
        /\ v.strayed = vm.strayed /\ v.active = vm.active
        /\ Off(v) \subseteq Off(vm) \cup {p \in {at} : callback[t].answer = "disable" /\ ~old}
    <2>1. CASE callback[t].answer = "disable"
      <3>1. v = Disable(vm, at, old)
        BY <2>1
      <3> HIDE DEF v, at, old
      <3> QED BY <3>1, <2>1, <1>2, VmTyped, DisableDoes
    <2>2. CASE callback[t].answer # "disable"
      BY <2>2, VmTyped
    <2> QED BY <2>1, <2>2
  <1>4. Follows(v, stack)
    BY <1>3, VmTyped DEF Follows
  <1>5. \A u \in Threads : callback'[u] = IF u = t THEN Idle ELSE callback[u]
    BY <1>1 DEF MonitoringInv, MonitoringTypeOK
  <1>6. OnItsWay(at) \/ ~(callback[t].answer = "disable" /\ ~old)
    BY DEF OnItsWay
  <1> HIDE DEF v, at, old
  <1>7. /\ vm' \in Instrumentations /\ vm'.global = vm.global /\ vm'.local = vm.local
        /\ vm'.strayed = vm.strayed /\ Off(vm') \subseteq Off(v)
        /\ stack' \in [Threads -> Seq(Codes)] /\ Follows(vm', stack')
    BY <1>1, <1>2, <1>3, <1>4, ProceedDoes DEF MonitoringInv
  <1>8. callback' \in [Threads -> Callbacks] /\ Idle.answer = "none"
    BY <1>1 DEF MonitoringInv, MonitoringTypeOK, Callbacks, Idle
  <1>9. MonitoringTypeOK'
    BY <1>1, <1>7, <1>8 DEF MonitoringInv, MonitoringTypeOK
  <1>10. Eased
    <2> SUFFICES ASSUME NEW p \in Locations, Stuck(p)' PROVE Stuck(p)
      BY DEF Eased
    <2>1. CASE Silenced(p)'
      <3>1. p \in Off(v)
        BY <2>1, <1>7 DEF Silenced, Off
      <3>2. CASE p \in Off(vm)
        BY <3>2 DEF Stuck, Silenced, Off
      <3>3. CASE p = at /\ callback[t].answer = "disable" /\ ~old
        BY <3>3, <1>6 DEF Stuck
      <3> QED BY <3>1, <3>2, <3>3, <1>3
    <2>2. CASE OnItsWay(p)'
      BY <2>2, <1>5, <1>8 DEF Stuck, OnItsWay
    <2> QED BY <2>1, <2>2 DEF Stuck
  <1>11. \A u \in Threads : callback'[u].answer = "switch" => callback[u].answer = "switch"
    BY <1>5, <1>8
  <1> QED BY <1>1, <1>7, <1>9, <1>10, <1>11, Parts

-----------------------------------------------------------------------------
LEMMA MonitoringInvAlways == Spec => []MonitoringInv
<1>1. Init => MonitoringInv
  <2> SUFFICES ASSUME Init PROVE MonitoringInv
    OBVIOUS
  <2> DEFINE none == [c \in Codes |-> {}]
  <2>1. none \in [Codes -> SUBSET {"LINE"}] /\ none \in [Codes -> SUBSET Events]
    OBVIOUS
  <2>2. vm = [global |-> {}, local |-> none, active |-> none,
              disabled |-> {}, late |-> {}, strayed |-> FALSE]
    BY DEF Init
  <2> HIDE DEF none
  <2>3. vm \in Instrumentations /\ Off(vm) = {} /\ vm.disabled = {}
    BY <2>1, <2>2 DEF Instrumentations, Off
  <2>4. stack = [t \in Threads |-> <<>>] /\ callback = [t \in Threads |-> Idle] /\ Idle \in Callbacks
        /\ Idle.answer = "none"
    BY DEF Init, Callbacks, Idle
  <2>5. Running(stack) = {}
    BY <2>4 DEF Running
  <2>6. MonitoringTypeOK
    <3>1. stack \in [Threads -> Seq(Codes)] /\ callback \in [Threads -> Callbacks]
      BY <2>4
    <3> QED BY <2>3, <3>1 DEF Init, MonitoringTypeOK, Modes
  <2>7. \A at : ~Stuck(at)
    BY <2>3, <2>4 DEF Stuck, Silenced, OnItsWay
  <2>8. NobodyThere /\ LinesOffered /\ LinesOn /\ EventsOfMode /\ ReturnsOffered /\ ~installed
    BY <2>4, <2>7 DEF Init, NobodyThere, LinesOffered, LinesOn, EventsOfMode, ReturnsOffered
  <2> QED BY <2>5, <2>6, <2>8 DEF MonitoringInv, Follows
<1>2. MonitoringInv /\ [Next]_vars => MonitoringInv'
  <2> SUFFICES ASSUME MonitoringInv, [Next]_vars PROVE MonitoringInv'
    OBVIOUS
  <2>1. CASE ControlStep
    BY <2>1, BackendInstallStep, ShutdownStep, UpdateStep, RestartStep, QuietStep, WatchStep,
       SetSteppingStep, SteppingEventsStep, SteppingContinueStep DEF ControlStep
  <2>2. ASSUME NEW t \in Threads, ThreadStep(t) PROVE MonitoringInv'
    BY <2>2, BackendLineStep, CallOrReadStep, StartStep, ReturnStep, SwitchStep, OrphanStep,
       ResumeStep, BeginOrPassStep, LandStep DEF ThreadStep
  <2>3. CASE UNCHANGED vars
    <3>1. UNCHANGED <<installed, breakpoints, registry, mode, stepCode, vm, stack, callback, control>>
      BY <2>3 DEF vars, tables, program
    <3>2. MonitoringTypeOK' /\ Follows(vm', stack')
      BY <3>1 DEF MonitoringInv, MonitoringTypeOK
    <3>3. Eased
      BY <3>1 DEF Eased, Stuck, Silenced, OnItsWay
    <3> QED BY <3>1, <3>2, <3>3, Parts
  <2> QED BY <2>1, <2>2, <2>3 DEF Next
<1> QED BY <1>1, <1>2, PTL DEF Spec

\* While the program runs free no breakpoint is lost to an answer given before
\* it was set, for any threads, code objects and operations
\* (update_breakpoints, restart_events, _on_line, _on_py_start).
THEOREM BreakpointsArmedAlways == Spec => []BreakpointsArmed
<1>1. MonitoringInv => BreakpointsArmed
  <2> SUFFICES ASSUME MonitoringInv, installed, control = "idle", mode = "CONTINUE",
                      NEW c \in Codes, NEW l \in breakpoints[FileOf[c]]
               PROVE  IF c \in registry
                      THEN "LINE" \in vm.local[c] /\ ~Silenced(LineAt(c, l))
                      ELSE "PY_START" \in vm.global /\ ~Silenced(StartOf(c))
    BY DEF BreakpointsArmed
  <2> QED BY DEF MonitoringInv, LinesOn, LinesOffered, Stuck
<1> QED BY <1>1, MonitoringInvAlways, PTL

\* A step can see where it ends, whatever the program's threads and the
\* controlling one do (set_stepping, _on_py_return).
THEOREM SteppingArmedAlways == Spec => []SteppingArmed
<1>1. MonitoringInv => SteppingArmed
  <2> SUFFICES ASSUME MonitoringInv, installed, control = "idle", ~vm.strayed,
                      NEW c \in Running(stack)
               PROVE  /\ mode \in {"STEP_OVER", "STEP_OUT"} =>
                           "PY_RETURN" \in vm.active[c] /\ ~Silenced(ReturnOf(c))
                      /\ mode = "STEP_IN" => "LINE" \in vm.active[c]
    BY DEF SteppingArmed
  <2>1. c \in Codes
    BY DEF Running
  <2> QED BY <2>1 DEF MonitoringInv, Follows, EventsOfMode, ReturnsOffered, Stuck
<1> QED BY <1>1, MonitoringInvAlways, PTL

\* No event that a breakpoint or a step waits for is ever missing, however the program's
\* threads, their callbacks and the controlling thread take turns (MonitoringBackend).
THEOREM EventsAreAlwaysOn == Spec => []EventsAreOn
<1>1. BreakpointsArmed /\ SteppingArmed => EventsAreOn
  BY DEF EventsAreOn
<1> QED BY <1>1, BreakpointsArmedAlways, SteppingArmedAlways, PTL

-----------------------------------------------------------------------------
(***************************************************************************)
(* BytecodeInjection: what is invalidated is gone.                         *)
(***************************************************************************)

KeptEntries == [key : Routines, path : {HomeOf[c] : c \in Routines}, lines : SUBSET BreakLines]

\* What the program's thread is doing.
RunnerTyped ==
    \/ runner = InProgram
    \/ /\ runner.at \in {"inject", "cache", "extra"}
       /\ runner.code \in Routines /\ runner.lines \in SUBSET BreakLines
       /\ runner = [at |-> runner.at, code |-> runner.code, lines |-> runner.lines,
                    new |-> runner.new, again |-> runner.again]

InjectionTypeOK ==
    /\ RunnerTyped
    /\ kept \in [Contents -> KeptEntries \cup {Nothing}]
    /\ \A k \in Contents : kept[k] # Nothing =>
           /\ ContentOf[kept[k].key] = k
           /\ \E c \in Routines : ContentOf[c] = k /\ kept[k].path = HomeOf[c]
    /\ instrumented \in [Contents -> [key : Routines \cup {Nothing},
                                      fingerprints : SUBSET SUBSET BreakLines]]
    /\ \A k \in Contents : instrumented[k].key # Nothing => ContentOf[instrumented[k].key] = k
    /\ extra = [c \in Routines |-> extra[c]]
    /\ removing = [at |-> removing.at, file |-> removing.file, codes |-> removing.codes]
    /\ removing = NotRemoving \/ removing.at \in {"table", "extra"}
    /\ gone \subseteq Routines

Storing_(c) == runner.at \in {"cache", "extra"} /\ runner.code = c

\* The code of one function, which no store has crossed and which Python takes
\* for equal to no other.  Its metadata goes with its entry in the cache, or is
\* still going to be removed; a store and a removal exclude one another.
Tracked(c) ==
    LET entry == kept[ContentOf[c]]
    IN  /\ c \in gone => entry = Nothing /\ extra[c] = Nothing /\ ~Storing_(c)
        /\ extra[c] # Nothing => entry # Nothing \/ (removing # NotRemoving /\ c \in removing.codes)
        /\ Storing_(c) => removing = NotRemoving
        /\ Storing_(c) /\ runner.at = "extra" => entry # Nothing
        /\ removing # NotRemoving /\ HomeOf[c] = removing.file => entry = Nothing

InjectionInv ==
    /\ InjectionTypeOK
    /\ \A c \in Routines \ crossed : Alone(c) => Tracked(c)

-----------------------------------------------------------------------------
LEMMA ContentsAre == \A c \in Routines : ContentOf[c] \in Contents
  BY DEF Contents

LEMMA NothingIs == Nothing \notin Routines /\ Nothing \notin KeptEntries
  BY NothingAssumption DEF KeptEntries

\* The cached code of a function that is like no other is its own.
LEMMA OwnEntry ==
    ASSUME InjectionTypeOK, NEW c \in Routines, Alone(c), kept[ContentOf[c]] # Nothing
    PROVE  kept[ContentOf[c]].key = c /\ kept[ContentOf[c]].path = HomeOf[c]
  <1>1. kept[ContentOf[c]] \in KeptEntries
    BY ContentsAre DEF InjectionTypeOK
  <1>2. kept[ContentOf[c]].key \in Routines
    BY <1>1 DEF KeptEntries
  <1> QED BY <1>2, ContentsAre DEF InjectionTypeOK, Alone

LEMMA OwnKey ==
    ASSUME InjectionTypeOK, NEW c \in Routines, Alone(c), instrumented[ContentOf[c]].key # Nothing
    PROVE  instrumented[ContentOf[c]].key = c
  <1>1. instrumented[ContentOf[c]].key \in Routines
    BY ContentsAre DEF InjectionTypeOK
  <1> QED BY <1>1, ContentsAre DEF InjectionTypeOK, Alone

LEMMA AtProgram == InProgram.at = "program" /\ (runner = InProgram => runner.at = "program")
  BY DEF InProgram

LEMMA EvaluateStep ==
    ASSUME InjectionInv, NEW c \in Routines, NEW ls \in SUBSET BreakLines, Evaluate(c, ls)
    PROVE  InjectionInv'
  <1>1. /\ runner' = [at |-> "inject", code |-> c, lines |-> ls, new |-> Nothing, again |-> TRUE]
        /\ UNCHANGED <<kept, instrumented, extra, removing, gone, crossed>>
    BY DEF Evaluate
  <1>2. RunnerTyped'
    BY <1>1 DEF RunnerTyped
  <1>3. InjectionTypeOK'
    BY <1>1, <1>2 DEF InjectionInv, InjectionTypeOK
  <1> QED BY <1>1, <1>3 DEF InjectionInv, Tracked, Storing_

LEMMA InjectStep ==
    ASSUME InjectionInv, _apply_injection
    PROVE  InjectionInv'
  <1> DEFINE k == ContentOf[runner.code]
             new == InjectInto(body[k], runner.lines)
  <1>1. /\ runner.at = "inject" /\ runner' = [runner EXCEPT !.at = "cache", !.new = new]
        /\ instrumented' = [instrumented EXCEPT
              ![k].key = IF @ = Nothing THEN runner.code ELSE @,
              ![k].fingerprints = @ \cup {runner.lines}]
        /\ gone' = {d \in gone : ContentOf[d] # k}
        /\ crossed' = IF removing = NotRemoving THEN crossed ELSE crossed \cup {runner.code}
        /\ UNCHANGED <<kept, extra, removing>>
    BY DEF _apply_injection
  <1> HIDE DEF new
  <1>2. /\ runner.code \in Routines /\ runner.lines \in SUBSET BreakLines
        /\ runner = [at |-> runner.at, code |-> runner.code, lines |-> runner.lines,
                     new |-> runner.new, again |-> runner.again]
    BY <1>1, AtProgram DEF InjectionInv, InjectionTypeOK, RunnerTyped
  <1>3. runner' = [at |-> "cache", code |-> runner.code, lines |-> runner.lines, new |-> new,
                   again |-> runner.again]
    BY <1>1, <1>2
  <1>4. RunnerTyped'
    BY <1>2, <1>3 DEF RunnerTyped
  <1>5. /\ instrumented' \in [Contents -> [key : Routines \cup {Nothing},
                                           fingerprints : SUBSET SUBSET BreakLines]]
        /\ \A j \in Contents : instrumented'[j].key # Nothing => ContentOf[instrumented'[j].key] = j
    <2> DEFINE old == instrumented[k]
               now == [old EXCEPT !.key = IF @ = Nothing THEN runner.code ELSE @,
                                  !.fingerprints = @ \cup {runner.lines}]
    <2>1. k \in Contents /\ old \in [key : Routines \cup {Nothing}, fingerprints : SUBSET SUBSET BreakLines]
      BY <1>2, ContentsAre DEF InjectionInv, InjectionTypeOK
    <2>2. now \in [key : Routines \cup {Nothing}, fingerprints : SUBSET SUBSET BreakLines]
          /\ now.key = IF old.key = Nothing THEN runner.code ELSE old.key
      <3> HIDE DEF old
      <3> QED BY <2>1, <1>2
    <2>3. instrumented' = [instrumented EXCEPT ![k] = now]
      BY <1>1, <2>1 DEF InjectionInv, InjectionTypeOK
    <2> HIDE DEF now
    <2> QED BY <2>1, <2>2, <2>3 DEF InjectionInv, InjectionTypeOK
  <1>6. InjectionTypeOK'
    <2>1. InjectionTypeOK /\ gone' \subseteq Routines
      BY <1>1 DEF InjectionInv, InjectionTypeOK
    <2>2. kept' = kept /\ extra' = extra /\ removing' = removing
      BY <1>1
    <2> HIDE DEF k
    <2> QED BY <2>1, <2>2, <1>4, <1>5 DEF InjectionTypeOK
  <1>7. ASSUME NEW c \in Routines \ crossed', Alone(c) PROVE Tracked(c)'
    <2>1. c \notin crossed /\ Tracked(c)
      BY <1>1, <1>7 DEF InjectionInv
    <2>2. CASE c = runner.code
      <3>1. removing = NotRemoving
        BY <1>1, <1>7, <2>2
      <3>2. c \notin gone' /\ runner'.at = "cache"
        BY <1>1, <1>3, <2>2
      <3> QED BY <2>1, <3>1, <3>2, <1>1 DEF Tracked, Storing_
    <2>3. CASE c # runner.code
      BY <2>1, <2>3, <1>1, <1>3 DEF Tracked, Storing_
    <2> QED BY <2>2, <2>3
  <1> QED BY <1>6, <1>7 DEF InjectionInv

LEMMA CacheStep ==
    ASSUME InjectionInv, _set_cached_code
    PROVE  InjectionInv'
  <1> DEFINE k == ContentOf[runner.code]
             entry == [key |-> IF kept[k] = Nothing THEN runner.code ELSE kept[k].key,
                       path |-> HomeOf[runner.code], lines |-> runner.lines]
  <1>1. /\ runner.at = "cache" /\ runner' = [runner EXCEPT !.at = "extra"]
        /\ UNCHANGED <<instrumented, extra, removing, gone, crossed>>
    BY DEF _set_cached_code
  <1>2. /\ runner.code \in Routines /\ runner.lines \in SUBSET BreakLines /\ k \in Contents
        /\ runner = [at |-> runner.at, code |-> runner.code, lines |-> runner.lines,
                     new |-> runner.new, again |-> runner.again]
    BY <1>1, AtProgram, ContentsAre DEF InjectionInv, InjectionTypeOK, RunnerTyped
  <1>3. kept' = [kept EXCEPT ![k] = entry]
    BY <1>2 DEF _set_cached_code, InjectionInv, InjectionTypeOK
  <1>4. runner' = [at |-> "extra", code |-> runner.code, lines |-> runner.lines, new |-> runner.new,
                   again |-> runner.again]
    BY <1>1, <1>2
  <1>5. RunnerTyped'
    BY <1>2, <1>4 DEF RunnerTyped
  <1>6. entry \in KeptEntries /\ ContentOf[entry.key] = k /\ entry.path = HomeOf[runner.code]
    <2>1. kept[k] # Nothing => kept[k].key \in Routines /\ ContentOf[kept[k].key] = k
      BY <1>2 DEF InjectionInv, InjectionTypeOK, KeptEntries
    <2> QED BY <2>1, <1>2 DEF KeptEntries
  <1>7. entry # Nothing
    BY <1>6, NothingIs
  <1> HIDE DEF entry
  <1>8. InjectionTypeOK'
    BY <1>1, <1>2, <1>3, <1>5, <1>6 DEF InjectionInv, InjectionTypeOK
  <1>9. ASSUME NEW c \in Routines \ crossed', Alone(c) PROVE Tracked(c)'
    <2>1. c \notin crossed /\ Tracked(c) /\ ContentOf[c] \in Contents
      BY <1>1, <1>9, ContentsAre DEF InjectionInv
    <2>2. CASE c = runner.code
      <3>1. Storing_(c) /\ removing = NotRemoving /\ c \notin gone
        BY <1>1, <2>1, <2>2 DEF Tracked, Storing_
      <3>2. kept'[ContentOf[c]] # Nothing
        BY <1>3, <1>7, <2>1, <2>2 DEF InjectionInv, InjectionTypeOK
      <3> QED BY <3>1, <3>2, <1>1 DEF Tracked
    <2>3. CASE c # runner.code
      <3>1. ContentOf[c] # k
        BY <1>9, <1>2, <2>3 DEF Alone
      <3>2. kept'[ContentOf[c]] = kept[ContentOf[c]]
        BY <1>3, <3>1, <2>1 DEF InjectionInv, InjectionTypeOK
      <3> QED BY <3>2, <2>1, <2>3, <1>1, <1>4 DEF Tracked, Storing_
    <2> QED BY <2>2, <2>3
  <1> QED BY <1>8, <1>9 DEF InjectionInv

LEMMA ExtraStep ==
    ASSUME InjectionInv, _store_code_extra_metadata
    PROVE  InjectionInv'
  <1>1. /\ runner.at = "extra" /\ extra' = [extra EXCEPT ![runner.code] = runner.lines]
        /\ runner' = IF runner.again THEN [runner EXCEPT !.at = "cache", !.again = FALSE] ELSE InProgram
        /\ UNCHANGED <<kept, instrumented, removing, gone, crossed>>
    BY DEF _store_code_extra_metadata
  <1>2. /\ runner.code \in Routines /\ runner.lines \in SUBSET BreakLines
        /\ runner = [at |-> runner.at, code |-> runner.code, lines |-> runner.lines,
                     new |-> runner.new, again |-> runner.again]
    BY <1>1, AtProgram DEF InjectionInv, InjectionTypeOK, RunnerTyped
  <1>3. \/ runner' = InProgram
        \/ runner' = [at |-> "cache", code |-> runner.code, lines |-> runner.lines,
                      new |-> runner.new, again |-> FALSE]
    BY <1>1, <1>2
  <1>4. RunnerTyped'
    BY <1>2, <1>3 DEF RunnerTyped
  <1>5. InjectionTypeOK'
    BY <1>1, <1>4 DEF InjectionInv, InjectionTypeOK
  <1>6. ASSUME NEW c \in Routines \ crossed', Alone(c) PROVE Tracked(c)'
    <2>1. c \notin crossed /\ Tracked(c)
      BY <1>1, <1>6 DEF InjectionInv
    <2>2. Storing_(c)' => Storing_(c) /\ runner'.at = "cache"
      BY <1>1, <1>3, AtProgram DEF Storing_
    <2>3. CASE c = runner.code
      <3>1. Storing_(c) /\ kept[ContentOf[c]] # Nothing /\ c \notin gone
        BY <1>1, <2>1, <2>3 DEF Tracked, Storing_
      <3> QED BY <2>1, <2>2, <3>1, <1>1 DEF Tracked
    <2>4. CASE c # runner.code
      <3>1. extra'[c] = extra[c]
        BY <1>1, <2>4, <1>6 DEF InjectionInv, InjectionTypeOK
      <3> QED BY <2>1, <2>2, <3>1, <1>1 DEF Tracked
    <2> QED BY <2>3, <2>4
  <1> QED BY <1>5, <1>6 DEF InjectionInv

LEMMA UpdateBreakpointsStep ==
    ASSUME InjectionInv, NEW f, NEW ls, UpdateBreakpoints(f, ls)
    PROVE  InjectionInv'
  BY DEF UpdateBreakpoints, InjectionInv, InjectionTypeOK, RunnerTyped, Tracked, Storing_

LEMMA InvalidateStep ==
    ASSUME InjectionInv, NEW f, InvalidateBreakpoints(f)
    PROVE  InjectionInv'
  <1> DEFINE ks == {k \in Contents : kept[k] # Nothing /\ kept[k].path = f}
             codes == {kept[k].key : k \in ks}
  <1>1. /\ removing = NotRemoving /\ removing' = [at |-> "table", file |-> f, codes |-> codes]
        /\ kept' = [k \in Contents |-> IF k \in ks THEN Nothing ELSE kept[k]]
        /\ crossed' = crossed \cup Storing
        /\ UNCHANGED <<instrumented, extra, runner, gone>>
    BY DEF InvalidateBreakpoints, Change
  <1>2. InjectionTypeOK'
    BY <1>1 DEF InjectionInv, InjectionTypeOK, RunnerTyped
  <1>3. ASSUME NEW c \in Routines \ crossed', Alone(c) PROVE Tracked(c)'
    <2>1. c \notin crossed /\ Tracked(c) /\ ContentOf[c] \in Contents
      BY <1>1, <1>3, ContentsAre DEF InjectionInv
    <2>2. ~Storing_(c) /\ ~Storing_(c)'
      BY <1>1, <1>3, AtProgram DEF Storing, Storing_
    <2>3. kept[ContentOf[c]] # Nothing => kept[ContentOf[c]].key = c /\ kept[ContentOf[c]].path = HomeOf[c]
      BY <1>3, OwnEntry DEF InjectionInv
    <2>4. kept'[ContentOf[c]] = IF ContentOf[c] \in ks THEN Nothing ELSE kept[ContentOf[c]]
      BY <1>1, <2>1
    <2>5. ContentOf[c] \in ks => c \in codes
      BY <2>3
    <2>6. ContentOf[c] \in ks <=> kept[ContentOf[c]] # Nothing /\ HomeOf[c] = f
      BY <2>1, <2>3
    <2>7. removing' # NotRemoving /\ removing'.codes = codes /\ removing'.file = f
      BY <1>1 DEF NotRemoving
    <2> HIDE DEF ks, codes
    <2> QED BY <2>1, <2>2, <2>4, <2>5, <2>6, <2>7, <1>1 DEF Tracked
  <1> QED BY <1>2, <1>3 DEF InjectionInv

LEMMA TableStep ==
    ASSUME InjectionInv, invalidate_bytecode_cache_for_file
    PROVE  InjectionInv'
  <1> DEFINE ks == {k \in Contents : /\ instrumented[k].key # Nothing
                                     /\ HomeOf[instrumented[k].key] = removing.file}
  <1>1. removing.at = "table" /\ UNCHANGED <<runner, gone, crossed>>
    BY DEF invalidate_bytecode_cache_for_file
  <1>2. CASE ks = {}
    <2>1. removing' = [removing EXCEPT !.at = "extra"] /\ UNCHANGED <<instrumented, kept, extra>>
      BY <1>2 DEF invalidate_bytecode_cache_for_file
    <2>2. removing' = [at |-> "extra", file |-> removing.file, codes |-> removing.codes]
      BY <2>1 DEF InjectionInv, InjectionTypeOK
    <2>3. removing # NotRemoving /\ removing' # NotRemoving
      BY <1>1, <2>2 DEF NotRemoving
    <2> QED BY <1>1, <2>1, <2>2, <2>3 DEF InjectionInv, InjectionTypeOK, RunnerTyped, Tracked, Storing_
  <1>3. ASSUME NEW k \in ks,
               instrumented' = [instrumented EXCEPT ![k] = Untouched],
               extra' = Cleared({instrumented[k].key}), kept' = [kept EXCEPT ![k] = Nothing],
               UNCHANGED removing
        PROVE  InjectionInv'
    <2>1. k \in Contents /\ instrumented[k].key # Nothing
      OBVIOUS
    <2>2. removing # NotRemoving
      BY <1>1 DEF NotRemoving
    <2>3. InjectionTypeOK'
      BY <1>1, <1>3, <2>1 DEF InjectionInv, InjectionTypeOK, RunnerTyped, Untouched, Cleared
    <2>4. ASSUME NEW c \in Routines \ crossed', Alone(c) PROVE Tracked(c)'
      <3>1. Tracked(c) /\ ContentOf[c] \in Contents
        BY <1>1, <2>4, ContentsAre DEF InjectionInv
      <3>2. ContentOf[c] = k => instrumented[k].key = c
        BY <2>1, <2>4, OwnKey DEF InjectionInv
      <3>3. extra'[c] = IF c = instrumented[k].key THEN Nothing ELSE extra[c]
        BY <1>3 DEF Cleared
      <3>4. kept'[ContentOf[c]] = IF ContentOf[c] = k THEN Nothing ELSE kept[ContentOf[c]]
        BY <1>3, <3>1 DEF InjectionInv, InjectionTypeOK
      <3> QED BY <1>1, <1>3, <2>2, <3>1, <3>2, <3>3, <3>4 DEF Tracked, Storing_
    <2> QED BY <2>3, <2>4 DEF InjectionInv
  <1> QED BY <1>2, <1>3 DEF invalidate_bytecode_cache_for_file

LEMMA RemovedStep ==
    ASSUME InjectionInv, ClearRemoved
    PROVE  InjectionInv'
  <1>1. /\ removing.at = "extra" /\ extra' = Cleared(removing.codes)
        /\ gone' = gone \cup {c \in Routines : HomeOf[c] = removing.file}
        /\ removing' = NotRemoving /\ UNCHANGED <<kept, instrumented, runner, crossed>>
    BY DEF ClearRemoved
  <1>2. InjectionTypeOK'
    BY <1>1 DEF InjectionInv, InjectionTypeOK, RunnerTyped, Cleared, NotRemoving
  <1>3. ASSUME NEW c \in Routines \ crossed', Alone(c) PROVE Tracked(c)'
    <2>1. Tracked(c)
      BY <1>1, <1>3 DEF InjectionInv
    <2>2. removing # NotRemoving
      BY <1>1 DEF NotRemoving
    <2>3. extra'[c] = IF c \in removing.codes THEN Nothing ELSE extra[c]
      BY <1>1 DEF Cleared
    <2> QED BY <2>1, <2>2, <2>3, <1>1 DEF Tracked, Storing_
  <1> QED BY <1>2, <1>3 DEF InjectionInv

LEMMA ClearStep ==
    ASSUME InjectionInv, ClearAllCaches
    PROVE  InjectionInv'
  <1> DEFINE codes == {kept[k].key : k \in {k \in Contents : kept[k] # Nothing}}
  <1>1. /\ removing = NotRemoving /\ extra' = Cleared(codes) /\ gone' = Routines
        /\ instrumented' = [k \in Contents |-> Untouched] /\ kept' = [k \in Contents |-> Nothing]
        /\ crossed' = crossed \cup Storing /\ UNCHANGED <<runner, removing>>
    BY DEF ClearAllCaches, Change
  <1>2. InjectionTypeOK'
    BY <1>1 DEF InjectionInv, InjectionTypeOK, RunnerTyped, Cleared, Untouched
  <1>3. ASSUME NEW c \in Routines \ crossed', Alone(c) PROVE Tracked(c)'
    <2>1. Tracked(c) /\ ContentOf[c] \in Contents
      BY <1>1, <1>3, ContentsAre DEF InjectionInv
    <2>2. ~Storing_(c)'
      BY <1>1, <1>3, AtProgram DEF Storing, Storing_
    <2>3. kept[ContentOf[c]] # Nothing => c \in codes
      <3>1. kept[ContentOf[c]] # Nothing => kept[ContentOf[c]].key = c
        BY <1>3, OwnEntry DEF InjectionInv
      <3> QED BY <3>1, <2>1
    <2>4. extra'[c] = IF c \in codes THEN Nothing ELSE extra[c]
      BY <1>1 DEF Cleared
    <2>5. kept'[ContentOf[c]] = Nothing
      BY <1>1, <2>1
    <2> HIDE DEF codes
    <2> QED BY <2>1, <2>2, <2>3, <2>4, <2>5, <1>1 DEF Tracked
  <1> QED BY <1>2, <1>3 DEF InjectionInv

-----------------------------------------------------------------------------
\* What was invalidated or cleared is found instrumented nowhere until it is
\* instrumented again, for any functions, files and breakpoints
\* (CacheManager.invalidate_breakpoints, invalidate_bytecode_cache_for_file,
\* _store_modified_code_for_evaluation).
THEOREM InvalidatedIsGoneAlways == InjectionSpec => []InvalidatedIsGone
<1>1. InjectionInit => InjectionInv
  <2> SUFFICES ASSUME InjectionInit PROVE InjectionInv
    OBVIOUS
  <2>1. RunnerTyped /\ runner.at = "program"
    BY DEF InjectionInit, RunnerTyped, InProgram
  <2>2. InjectionTypeOK
    BY <2>1 DEF InjectionInit, InjectionTypeOK, Untouched, NotRemoving
  <2>3. ASSUME NEW c \in Routines PROVE Tracked(c)
    BY <2>1, ContentsAre DEF InjectionInit, Tracked, Storing_
  <2> QED BY <2>2, <2>3 DEF InjectionInv
<1>2. InjectionInv /\ [InjectionNext]_injectionVars => InjectionInv'
  <2> SUFFICES ASSUME InjectionInv, [InjectionNext]_injectionVars PROVE InjectionInv'
    OBVIOUS
  <2>1. CASE UNCHANGED injectionVars
    BY <2>1 DEF injectionVars, InjectionInv, InjectionTypeOK, RunnerTyped, Tracked, Storing_
  <2> QED BY <2>1, EvaluateStep, InjectStep, CacheStep, ExtraStep, UpdateBreakpointsStep,
             InvalidateStep, TableStep, RemovedStep, ClearStep DEF InjectionNext
<1>3. InjectionInv => InvalidatedIsGone
  BY DEF InjectionInv, InjectionTypeOK, Tracked, InvalidatedIsGone, Served
<1> QED BY <1>1, <1>2, <1>3, PTL DEF InjectionSpec

-----------------------------------------------------------------------------
(***************************************************************************)
(* AttachByPid: the process stays attachable.                              *)
(***************************************************************************)

USE NoneAssumption

-----------------------------------------------------------------------------
(* The inductive invariant.                                                *)

Stages == {"none", "starting", "missing", "ignored", "session", "connecting", "listening",
           "configuring", "installing", "failing", "active", "failed"}

AttachTypeOK ==
    /\ extension \in [Attaches -> {"idle", "waiting", "connected", "left", "gaveUp"}]
    /\ helper \in [Attaches -> {"idle", "written", "posted", "failed", "exited"}]
    /\ bootstrap \in [Attaches -> Stages]
    /\ streams \in [Attaches -> {"none", "open", "closed"}]
    /\ listener \in [Attaches -> {"none", "receiving", "cleanup", "ended"}]
    /\ cleanup_func \subseteq Attaches /\ debugger \subseteq Attaches
    /\ state \in Attaches \union {None} /\ hook \in Attaches \union {None}
    /\ active \in BOOLEAN

\* The target runs a script once.
OrderedOnce(a) ==
    /\ extension[a] = "idle" => helper[a] = "idle"
    /\ helper[a] \in {"idle", "written"} => a \notin ordered /\ bootstrap[a] = "none"
    /\ a \in ordered => bootstrap[a] = "none"

\* Before its listener starts a session has none, and it has its clean-up as long
\* as the listener may have to run it.
ListenerFollows(a) ==
    /\ bootstrap[a] \in {"none", "starting", "missing", "ignored", "session", "connecting",
                         "listening"} => listener[a] = "none"
    /\ bootstrap[a] \in {"connecting", "listening"} \/ listener[a] = "receiving"
          => a \in cleanup_func

\* A session that has the flag: nobody has run a clean-up since it took it.
HasFlag(a) ==
    \/ bootstrap[a] \in {"session", "connecting", "failing"}
    \/ bootstrap[a] = "listening" /\ streams[a] = "open"
    \/ /\ bootstrap[a] \in {"configuring", "installing", "active"}
       /\ streams[a] = "open" /\ listener[a] \in {"receiving", "cleanup"}

\* The current session's listener does not end before its streams are closed: it
\* closes them itself, whereas an older session closes those of the current one.
CurrentCloses(a) == a = state /\ listener[a] = "ended" => streams[a] # "open"

AttachInv ==
    /\ AttachTypeOK
    /\ \A a \in Attaches : OrderedOnce(a)
    /\ \A a \in Attaches : ListenerFollows(a)
    /\ \A a \in Attaches : CurrentCloses(a)
    /\ active => \E a \in Attaches : HasFlag(a)
    /\ HookGone

-----------------------------------------------------------------------------
\* The extension and the helper disturb nothing in the target.
LEMMA OutsideStep ==
    ASSUME AttachInv, NEW a \in Attaches, attach_by_pid(a) \/ remote_exec(a) \/ _classify_attach_failure(a)
              \/ HelperExits(a) \/ _waitForPythonIpcSocket(a) \/ Leave(a)
    PROVE  AttachInv'
  <1> USE DEF AttachInv, attach_by_pid, remote_exec, _classify_attach_failure, HelperExits,
                    _waitForPythonIpcSocket, Leave,
              session, target, asked, Set
  <1>1. AttachTypeOK'
    BY DEF AttachTypeOK
  <1>2. ASSUME NEW b \in Attaches
        PROVE  OrderedOnce(b)' /\ ListenerFollows(b)' /\ CurrentCloses(b)'
    BY DEF AttachTypeOK, OrderedOnce, ListenerFollows, CurrentCloses
  <1>4. active' => \E b \in Attaches : HasFlag(b)'
    BY DEF AttachTypeOK, HasFlag
  <1>5. HookGone'
    BY DEF AttachTypeOK, ListenerFollows, CurrentCloses, HookGone
  <1> QED BY <1>1, <1>2, <1>4, <1>5

\* The script's thread finds nothing of its own yet.
LEMMA ScriptStep ==
    ASSUME AttachInv, NEW a \in Attaches, bootstrap_from_remote_exec(a)
    PROVE  AttachInv'
  <1> USE DEF AttachInv, bootstrap_from_remote_exec,
              session, target, asked, Set
  <1>1. AttachTypeOK'
    BY DEF AttachTypeOK, Stages
  <1>2. ASSUME NEW b \in Attaches
        PROVE  OrderedOnce(b)' /\ ListenerFollows(b)' /\ CurrentCloses(b)'
    BY DEF AttachTypeOK, OrderedOnce, ListenerFollows, CurrentCloses
  <1>3. ASSUME active', NEW b \in Attaches, HasFlag(b)
        PROVE  HasFlag(b)'
    BY <1>3 DEF AttachTypeOK, OrderedOnce, ListenerFollows, HasFlag
  <1>4. active' => \E b \in Attaches : HasFlag(b)'
    BY <1>3
  <1>5. HookGone'
    BY DEF AttachTypeOK, ListenerFollows, CurrentCloses, HookGone
  <1> QED BY <1>1, <1>2, <1>4, <1>5

\* Who takes the flag has no session yet.
LEMMA FlagStep ==
    ASSUME AttachInv, NEW a \in Attaches, _bootstrap_attached_process(a)
    PROVE  AttachInv'
  <1> USE DEF AttachInv, _bootstrap_attached_process,
              session, target, asked, Set
  <1>1. AttachTypeOK'
    BY DEF AttachTypeOK, Stages
  <1>2. ASSUME NEW b \in Attaches
        PROVE  OrderedOnce(b)' /\ ListenerFollows(b)' /\ CurrentCloses(b)'
    BY DEF AttachTypeOK, OrderedOnce, ListenerFollows, CurrentCloses
  <1>3. active' => \E b \in Attaches : HasFlag(b)'
    <2>1. CASE active
      <3>1. PICK b \in Attaches : HasFlag(b)
        BY <2>1
      <3>2. HasFlag(b)'
        BY <3>1, <2>1 DEF AttachTypeOK, HasFlag
      <3> QED BY <3>2
    <2>2. CASE ~active
      <3>1. HasFlag(a)'
        BY <2>2 DEF AttachTypeOK, HasFlag
      <3> QED BY <3>1
    <2> QED BY <2>1, <2>2
  <1>4. active' => \E b \in Attaches : HasFlag(b)'
    BY <1>3
  <1>5. HookGone'
    BY DEF AttachTypeOK, ListenerFollows, CurrentCloses, HookGone
  <1> QED BY <1>1, <1>2, <1>4, <1>5

\* The new current session has no listener.
LEMMA SessionStep ==
    ASSUME AttachInv, NEW a \in Attaches, NewSession(a)
    PROVE  AttachInv'
  <1> USE DEF AttachInv, NewSession,
              session, target, asked, Set
  <1>1. AttachTypeOK'
    BY DEF AttachTypeOK, Stages
  <1>2. ASSUME NEW b \in Attaches
        PROVE  OrderedOnce(b)' /\ ListenerFollows(b)' /\ CurrentCloses(b)'
    BY DEF AttachTypeOK, OrderedOnce, ListenerFollows, CurrentCloses
  <1>3. ASSUME active', NEW b \in Attaches, HasFlag(b)
        PROVE  HasFlag(b)'
    BY <1>3 DEF AttachTypeOK, OrderedOnce, ListenerFollows, HasFlag
  <1>4. active' => \E b \in Attaches : HasFlag(b)'
    BY <1>3
  <1>5. HookGone'
    BY DEF AttachTypeOK, ListenerFollows, CurrentCloses, HookGone
  <1> QED BY <1>1, <1>2, <1>4, <1>5

\* Streams are opened before there is a listener that could have ended.
LEMMA ConnectStep ==
    ASSUME AttachInv, NEW a \in Attaches, setup_ipc_from_args(a)
    PROVE  AttachInv'
  <1> USE DEF AttachInv, setup_ipc_from_args,
              session, target, asked, Set
  <1>1. AttachTypeOK'
    BY DEF AttachTypeOK, Stages
  <1>2. ASSUME NEW b \in Attaches
        PROVE  OrderedOnce(b)' /\ ListenerFollows(b)' /\ CurrentCloses(b)'
    BY DEF AttachTypeOK, OrderedOnce, ListenerFollows, CurrentCloses
  <1>3. ASSUME active', NEW b \in Attaches, HasFlag(b)
        PROVE  HasFlag(b)'
    BY <1>3 DEF AttachTypeOK, OrderedOnce, ListenerFollows, HasFlag
  <1>4. active' => \E b \in Attaches : HasFlag(b)'
    BY <1>3
  <1>5. HookGone'
    BY DEF AttachTypeOK, ListenerFollows, CurrentCloses, HookGone
  <1> QED BY <1>1, <1>2, <1>4, <1>5

\* The listener starts with the clean-up at hand.
LEMMA ListenStep ==
    ASSUME AttachInv, NEW a \in Attaches, start_command_listener(a)
    PROVE  AttachInv'
  <1> USE DEF AttachInv, start_command_listener,
              session, target, asked, Set
  <1>1. AttachTypeOK'
    BY DEF AttachTypeOK, Stages
  <1>2. ASSUME NEW b \in Attaches
        PROVE  OrderedOnce(b)' /\ ListenerFollows(b)' /\ CurrentCloses(b)'
    BY DEF AttachTypeOK, OrderedOnce, ListenerFollows, CurrentCloses
  <1>3. ASSUME active', NEW b \in Attaches, HasFlag(b)
        PROVE  HasFlag(b)'
    BY <1>3 DEF AttachTypeOK, OrderedOnce, ListenerFollows, HasFlag
  <1>4. active' => \E b \in Attaches : HasFlag(b)'
    BY <1>3
  <1>5. HookGone'
    BY DEF AttachTypeOK, ListenerFollows, CurrentCloses, HookGone
  <1> QED BY <1>1, <1>2, <1>4, <1>5

\* The debugger comes with the session's streams as they are.
LEMMA DebuggerStep ==
    ASSUME AttachInv, NEW a \in Attaches, configure_debugger(a)
    PROVE  AttachInv'
  <1> USE DEF AttachInv, configure_debugger,
              session, target, asked, Set
  <1>1. AttachTypeOK'
    BY DEF AttachTypeOK, Stages
  <1>2. ASSUME NEW b \in Attaches
        PROVE  OrderedOnce(b)' /\ ListenerFollows(b)' /\ CurrentCloses(b)'
    BY DEF AttachTypeOK, OrderedOnce, ListenerFollows, CurrentCloses
  <1>3. ASSUME active', NEW b \in Attaches, HasFlag(b)
        PROVE  HasFlag(b)'
    BY <1>3 DEF AttachTypeOK, OrderedOnce, ListenerFollows, HasFlag
  <1>4. active' => \E b \in Attaches : HasFlag(b)'
    BY <1>3
  <1>5. HookGone'
    BY DEF AttachTypeOK, ListenerFollows, CurrentCloses, HookGone
  <1> QED BY <1>1, <1>2, <1>4, <1>5

\* The hook goes to the current session, whose listener ends after its streams.
LEMMA AttachInstallStep ==
    ASSUME AttachInv, NEW a \in Attaches, _install_live_tracing(a)
    PROVE  AttachInv'
  <1> USE DEF AttachInv, _install_live_tracing,
              session, target, asked, Set
  <1>1. AttachTypeOK'
    BY DEF AttachTypeOK, Stages
  <1>2. ASSUME NEW b \in Attaches
        PROVE  OrderedOnce(b)' /\ ListenerFollows(b)' /\ CurrentCloses(b)'
    BY DEF AttachTypeOK, OrderedOnce, ListenerFollows, CurrentCloses
  <1>3. ASSUME active', NEW b \in Attaches, HasFlag(b)
        PROVE  HasFlag(b)'
    BY <1>3 DEF AttachTypeOK, OrderedOnce, ListenerFollows, HasFlag
  <1>4. active' => \E b \in Attaches : HasFlag(b)'
    BY <1>3
  <1>5. HookGone'
    BY DEF AttachTypeOK, ListenerFollows, CurrentCloses, HookGone
  <1> QED BY <1>1, <1>2, <1>4, <1>5

\* A failed bootstrap gives the flag back.
LEMMA FailStep ==
    ASSUME AttachInv, NEW a \in Attaches, BootstrapFails(a)
    PROVE  AttachInv'
  <1> USE DEF AttachInv, BootstrapFails,
              session, target, asked, Set
  <1>1. AttachTypeOK'
    BY DEF AttachTypeOK, Stages
  <1>2. ASSUME NEW b \in Attaches
        PROVE  OrderedOnce(b)' /\ ListenerFollows(b)' /\ CurrentCloses(b)'
    BY DEF AttachTypeOK, OrderedOnce, ListenerFollows, CurrentCloses
  <1>4. active' => \E b \in Attaches : HasFlag(b)'
    BY DEF AttachTypeOK, HasFlag
  <1>5. HookGone'
    BY DEF AttachTypeOK, ListenerFollows, CurrentCloses, HookGone
  <1> QED BY <1>1, <1>2, <1>4, <1>5

\* A listener that ends its session has the clean-up before it.
LEMMA EndStep ==
    ASSUME AttachInv, NEW a \in Attaches, EndCommand(a) \/ _attached_exit(a)
    PROVE  AttachInv'
  <1> USE DEF AttachInv, EndCommand, _attached_exit, run_cleanup,
              session, target, asked, Set
  <1>1. AttachTypeOK'
    BY DEF AttachTypeOK, Stages
  <1>2. ASSUME NEW b \in Attaches
        PROVE  OrderedOnce(b)' /\ ListenerFollows(b)' /\ CurrentCloses(b)'
    BY DEF AttachTypeOK, OrderedOnce, ListenerFollows, CurrentCloses
  <1>3. ASSUME active', NEW b \in Attaches, HasFlag(b)
        PROVE  HasFlag(b)'
    BY <1>3 DEF AttachTypeOK, OrderedOnce, ListenerFollows, HasFlag
  <1>4. active' => \E b \in Attaches : HasFlag(b)'
    BY <1>3
  <1>5. HookGone'
    BY DEF AttachTypeOK, ListenerFollows, CurrentCloses, HookGone
  <1> QED BY <1>1, <1>2, <1>4, <1>5

\* A listener that raises has lost its streams.
LEMMA ReadClosedStep ==
    ASSUME AttachInv, NEW a \in Attaches, ReadClosed(a)
    PROVE  AttachInv'
  <1> USE DEF AttachInv, ReadClosed,
              session, target, asked, Set
  <1>1. AttachTypeOK'
    BY DEF AttachTypeOK, Stages
  <1>2. ASSUME NEW b \in Attaches
        PROVE  OrderedOnce(b)' /\ ListenerFollows(b)' /\ CurrentCloses(b)'
    BY DEF AttachTypeOK, OrderedOnce, ListenerFollows, CurrentCloses
  <1>3. ASSUME active', NEW b \in Attaches, HasFlag(b)
        PROVE  HasFlag(b)'
    BY <1>3 DEF AttachTypeOK, OrderedOnce, ListenerFollows, HasFlag
  <1>4. active' => \E b \in Attaches : HasFlag(b)'
    BY <1>3
  <1>5. HookGone'
    BY DEF AttachTypeOK, ListenerFollows, CurrentCloses, HookGone
  <1> QED BY <1>1, <1>2, <1>4, <1>5

\* The clean-up gives back the flag and the hook, whoever's they are.
LEMMA CleanupStep ==
    ASSUME AttachInv, NEW a \in Attaches, _cleanup_attached_session(a)
    PROVE  AttachInv'
  <1> USE DEF AttachInv, _cleanup_attached_session, ClearTracing,
              session, target, asked, Set
  <1>1. AttachTypeOK'
    BY DEF AttachTypeOK, Stages
  <1>2. ASSUME NEW b \in Attaches
        PROVE  OrderedOnce(b)' /\ ListenerFollows(b)' /\ CurrentCloses(b)'
    BY DEF AttachTypeOK, OrderedOnce, ListenerFollows, CurrentCloses
  <1>4. active' => \E b \in Attaches : HasFlag(b)'
    BY DEF AttachTypeOK, HasFlag
  <1>5. HookGone'
    BY DEF AttachTypeOK, ListenerFollows, CurrentCloses, HookGone
  <1> QED BY <1>1, <1>2, <1>4, <1>5

-----------------------------------------------------------------------------
(* The theorems.                                                           *)

LEMMA Invariant == AttachSpec => []AttachInv
<1>1. AttachInit => AttachInv
  <2> SUFFICES ASSUME AttachInit PROVE AttachInv
    OBVIOUS
  <2>1. AttachTypeOK
    BY DEF AttachInit, AttachTypeOK, Stages
  <2>2. \A a \in Attaches : OrderedOnce(a) /\ ListenerFollows(a) /\ CurrentCloses(a)
    BY DEF AttachInit, OrderedOnce, ListenerFollows, CurrentCloses
  <2>3. ~active /\ HookGone
    BY DEF AttachInit, HookGone
  <2> QED BY <2>1, <2>2, <2>3 DEF AttachInv
<1>2. AttachInv /\ [AttachNext]_attachVars => AttachInv'
  <2> SUFFICES ASSUME AttachInv, [AttachNext]_attachVars PROVE AttachInv'
    OBVIOUS
  <2>1. ASSUME NEW a \in Attaches, Bootstrap(a) PROVE AttachInv'
    BY <2>1, FlagStep, SessionStep, ConnectStep, ListenStep, DebuggerStep, AttachInstallStep,
       FailStep DEF Bootstrap
  <2>2. ASSUME NEW a \in Attaches, Listener(a) PROVE AttachInv'
    BY <2>2, EndStep, ReadClosedStep, CleanupStep DEF Listener
  <2>3. ASSUME NEW a \in Attaches,
               \/ attach_by_pid(a) \/ remote_exec(a) \/ _classify_attach_failure(a)
               \/ HelperExits(a) \/ _waitForPythonIpcSocket(a) \/ Leave(a)
               \/ bootstrap_from_remote_exec(a)
        PROVE  AttachInv'
    BY <2>3, OutsideStep, ScriptStep
  <2>4. CASE UNCHANGED attachVars
    BY <2>4 DEF attachVars, asked, session, target, AttachInv, AttachTypeOK, OrderedOnce,
                ListenerFollows, CurrentCloses, HasFlag, HookGone
  <2> QED BY <2>1, <2>2, <2>3, <2>4 DEF AttachNext
<1> QED BY <1>1, <1>2, PTL DEF AttachSpec

\* For any number of attaches, whatever fails and whichever clean-up runs, the flag
\* that turns attaches away stands for a bootstrap or for a session whose listener
\* will end it, and new threads start in the debugger of a session that is there, unless
\* its own end came first (_bootstrap_attached_process, _cleanup_attached_session).
THEOREM NothingIsLeftBehind == AttachSpec => []NothingLeftBehind
<1>1. AttachInv => StillAttachable
  BY DEF AttachInv, AttachTypeOK, HasFlag, StillAttachable, Bootstrapping
<1>2. AttachInv => HookGone
  BY DEF AttachInv
<1>3. AttachInv => NothingLeftBehind
  BY <1>1, <1>2 DEF NothingLeftBehind
<1> QED BY <1>3, Invariant, PTL

-----------------------------------------------------------------------------
(***************************************************************************)
(* EvalFrameHook: the hook is gone when it was taken away.                 *)
(***************************************************************************)

USE EvalFrameAssumption, TracerAssumption

Tracers == EvalCodes \cup {"none", "debugger"}
Frames == [code : EvalCodes, mode : {"plain", "hooked"}, info : Nat,
           phase : {"running", "returned", "raised", "left"}, local : BOOLEAN,
           saved : Tracers \cup {"-"}, before : Nat, returns : Nat]
Infos == [inside_frame_eval : Int, thread_trace_func : BOOLEAN]

Scoped(f) == f.saved # "-"

-----------------------------------------------------------------------------
(* The inductive invariant.                                                *)

EvalTypeOK ==
    /\ evalFrames \in Seq(Frames)
    /\ tracer \in Tracers
    /\ threadInfos \in Seq(Infos)
    /\ returnEvents \in Nat

\* While a frame runs under its scoped trace function the debugger's own is
\* not the thread's, and no inner frame will put it back.
ScopedHides ==
    /\ \A i \in DOMAIN evalFrames : Scoped(evalFrames[i]) => tracer # "debugger"
    /\ \A i, j \in DOMAIN evalFrames :
           i < j /\ Scoped(evalFrames[i]) => evalFrames[j].saved # "debugger"

\* A scoped frame whose return CPython has reported has been counted.
FrameCounted(f, n) ==
    /\ f.returns <= 1 /\ f.before <= n
    /\ f.phase = "running" => f.returns = 0
    /\ f.phase = "returned" /\ Scoped(f) /\ f.returns = 1 => f.before < n

Counted == \A i \in DOMAIN evalFrames : FrameCounted(evalFrames[i], returnEvents)

HookInv == EvalTypeOK /\ ScopedHides /\ Counted

-----------------------------------------------------------------------------
\* The innermost frame is one of the stack's.
LEMMA TopIsThere ==
    ASSUME EvalTypeOK, evalFrames # <<>>
    PROVE  /\ Len(evalFrames) \in DOMAIN evalFrames
           /\ TopFrame = evalFrames[Len(evalFrames)]
           /\ TopFrame \in Frames
  BY DEF EvalTypeOK, TopFrame

\* The depth of a ThreadInfo and its trace function change in place.
LEMMA InfosKept ==
    ASSUME threadInfos \in Seq(Infos), NEW k
    PROVE  /\ Len(threadInfos) \in Nat
           /\ [threadInfos EXCEPT ![k].inside_frame_eval = @ + 1] \in Seq(Infos)
           /\ [threadInfos EXCEPT ![k].inside_frame_eval = @ - 1] \in Seq(Infos)
           /\ \A b \in BOOLEAN :
                  [threadInfos EXCEPT ![k].thread_trace_func = @ \/ b] \in Seq(Infos)
  <1>1. ASSUME NEW v, k \in DOMAIN threadInfos => v \in Infos
        PROVE  [threadInfos EXCEPT ![k] = v] \in Seq(Infos)
    <2>1. CASE k \in DOMAIN threadInfos
      BY <1>1, <2>1
    <2>2. CASE k \notin DOMAIN threadInfos
      <3>1. [threadInfos EXCEPT ![k] = v] = threadInfos
        BY <2>2
      <3> QED BY <3>1
    <2> QED BY <2>1, <2>2
  <1>2. ASSUME k \in DOMAIN threadInfos
        PROVE  /\ [threadInfos[k] EXCEPT !.inside_frame_eval = @ + 1] \in Infos
               /\ [threadInfos[k] EXCEPT !.inside_frame_eval = @ - 1] \in Infos
    <2>1. threadInfos[k] \in Infos
      BY <1>2
    <2>2. ASSUME NEW i \in Infos
          PROVE  /\ [i EXCEPT !.inside_frame_eval = @ + 1] \in Infos
                 /\ [i EXCEPT !.inside_frame_eval = @ - 1] \in Infos
      <3>1. i.inside_frame_eval + 1 \in Int /\ i.inside_frame_eval - 1 \in Int
        BY DEF Infos
      <3>2. \A d \in Int : [i EXCEPT !.inside_frame_eval = d] \in Infos
        BY DEF Infos
      <3> QED BY <3>1, <3>2
    <2> QED BY <2>1, <2>2
  <1>3. ASSUME NEW b \in BOOLEAN, k \in DOMAIN threadInfos
        PROVE  [threadInfos[k] EXCEPT !.thread_trace_func = @ \/ b] \in Infos
    <2>1. threadInfos[k] \in Infos
      BY <1>3
    <2>2. threadInfos[k].thread_trace_func \in BOOLEAN
      BY <2>1 DEF Infos
    <2>3. (threadInfos[k].thread_trace_func \/ b) \in BOOLEAN
      BY <2>2, Zenon
    <2> QED BY <2>1, <2>3 DEF Infos
  <1>4. Len(threadInfos) \in Nat
    OBVIOUS
  <1> QED BY <1>1, <1>2, <1>3, <1>4

\* A step that changes the innermost frame only, leaves it under the same trace
\* function and does not bring the debugger's back keeps the invariant, if it
\* counts what it reports.
LEMMA TopChanges ==
    ASSUME HookInv, evalFrames # <<>>,
           \E f \in Frames : /\ f.saved = TopFrame.saved
                             /\ evalFrames' = WithTop(f)
                             /\ FrameCounted(f, returnEvents'),
           tracer' \in {tracer, "none"}, returnEvents' \in Nat, returnEvents' >= returnEvents,
           threadInfos' = threadInfos
    PROVE  HookInv'
  <1> PICK f \in Frames : /\ f.saved = TopFrame.saved
                          /\ evalFrames' = WithTop(f)
                          /\ FrameCounted(f, returnEvents')
    OBVIOUS
  <1> DEFINE n == Len(evalFrames)
  <1>1. n \in DOMAIN evalFrames /\ n \in Nat /\ TopFrame = evalFrames[n]
    BY TopIsThere DEF HookInv, EvalTypeOK
  <1>2. evalFrames' \in Seq(Frames) /\ DOMAIN evalFrames' = DOMAIN evalFrames
    BY DEF WithTop, HookInv, EvalTypeOK
  <1>3. \A i \in DOMAIN evalFrames : evalFrames'[i] = IF i = n THEN f ELSE evalFrames[i]
    BY DEF WithTop, HookInv, EvalTypeOK
  <1>4. EvalTypeOK'
    BY <1>2 DEF HookInv, EvalTypeOK, Tracers
  <1>5. \A i \in DOMAIN evalFrames : evalFrames'[i].saved = evalFrames[i].saved
    BY <1>1, <1>3
  <1>6. ScopedHides'
    BY <1>2, <1>5 DEF HookInv, ScopedHides, Scoped
  <1>7. ASSUME NEW i \in DOMAIN evalFrames PROVE FrameCounted(evalFrames'[i], returnEvents')
    <2>1. CASE i = n
      BY <2>1, <1>3 DEF FrameCounted, Scoped
    <2>2. CASE i # n
      <3>1. evalFrames'[i] = evalFrames[i] /\ FrameCounted(evalFrames[i], returnEvents)
            /\ evalFrames[i] \in Frames
        BY <2>2, <1>3 DEF HookInv, Counted, EvalTypeOK
      <3>2. returnEvents \in Nat
        BY DEF HookInv, EvalTypeOK
      <3>3. PICK g : g = evalFrames[i]
        OBVIOUS
      <3>4. g \in Frames /\ FrameCounted(g, returnEvents)
        BY <3>1, <3>3
      <3>5. FrameCounted(g, returnEvents')
        BY <3>2, <3>4 DEF FrameCounted, Scoped, Frames
      <3> QED BY <3>1, <3>3, <3>5
    <2> QED BY <2>1, <2>2
  <1>8. Counted'
    BY <1>2, <1>7 DEF Counted
  <1> QED BY <1>4, <1>6, <1>8 DEF HookInv

-----------------------------------------------------------------------------
\* EvalFrameBackend changes nothing but what the hook will do.
LEMMA HookInstallStep ==
    ASSUME HookInv, NEW here \in BOOLEAN, install_hook(here) \/ shutdown_hook(here)
    PROVE  HookInv'
  <1>1. UNCHANGED <<evalFrames, tracer, returnEvents>>
    BY DEF install_hook, shutdown_hook
  <1>2. threadInfos' \in Seq(Infos)
    <2>1. CASE install_hook(here)
      BY <2>1, InfosKept DEF install_hook, HookInv, EvalTypeOK
    <2>2. CASE shutdown_hook(here)
      <3>1. ThreadInfo \in Infos
        BY DEF ThreadInfo, Infos
      <3> QED BY <2>2, <3>1 DEF shutdown_hook, HookInv, EvalTypeOK
    <2> QED BY <2>1, <2>2
  <1> QED BY <1>1, <1>2 DEF HookInv, EvalTypeOK, ScopedHides, Counted, FrameCounted, Scoped

\* A new frame hides the debugger's trace function or leaves it as it was.
LEMMA CallStep ==
    ASSUME HookInv, NEW c \in EvalCodes, Call(c)
    PROVE  HookInv'
  <1> DEFINE f == Route(c)
             n == Len(evalFrames)
  <1>1. /\ f \in Frames
        /\ f.saved = "-" \/ f.saved = tracer
        /\ f.phase = "running" /\ f.returns = 0 /\ f.before \in {0, returnEvents}
    <2>1. Current \in Nat /\ tracer \in Tracers /\ returnEvents \in Nat
      BY InfosKept DEF HookInv, EvalTypeOK, Current
    <2>2. \A how \in {"plain", "hooked"} :
              /\ Frame(c, how) \in Frames
              /\ Frame(c, how).saved = "-" /\ Frame(c, how).phase = "running"
              /\ Frame(c, how).returns = 0 /\ Frame(c, how).before = 0
      BY <2>1 DEF Frame, Frames
    <2>3. f \in {Frame(c, "plain"), Frame(c, "hooked"),
                 [Frame(c, "hooked") EXCEPT !.saved = tracer, !.before = returnEvents]}
      BY DEF Route
    <2> HIDE DEF f
    <2> QED BY <2>1, <2>2, <2>3 DEF Frames
  <1>2. tracer' = IF f.saved # "-" THEN c ELSE tracer
    BY DEF Call
  <1>3. PICK local \in BOOLEAN : evalFrames' = Append(evalFrames, [f EXCEPT !.local = local])
    BY DEF Call
  <1> DEFINE g == [f EXCEPT !.local = local]
  <1>4. /\ g \in Frames
        /\ g.saved = f.saved /\ g.phase = f.phase /\ g.returns = f.returns
        /\ g.before = f.before
    BY <1>1 DEF Frames
  <1> HIDE DEF f, g
  <1>5. /\ evalFrames' \in Seq(Frames) /\ n \in Nat /\ DOMAIN evalFrames = 1 .. n
        /\ DOMAIN evalFrames' = 1 .. (n + 1)
        /\ evalFrames'[n + 1] = g
        /\ \A i \in 1 .. n : evalFrames'[i] = evalFrames[i]
    BY <1>3, <1>4 DEF HookInv, EvalTypeOK, g
  <1>6. returnEvents' = returnEvents /\ returnEvents \in Nat
    BY DEF Call, HookInv, EvalTypeOK
  <1>7. threadInfos' \in Seq(Infos)
    BY InfosKept DEF Call, HookInv, EvalTypeOK
  <1>8. EvalTypeOK'
    BY <1>2, <1>5, <1>6, <1>7 DEF HookInv, EvalTypeOK, Tracers
  <1>9. (\A i \in DOMAIN evalFrames' : Scoped(evalFrames'[i]) => tracer' # "debugger")
    BY <1>2, <1>4, <1>5 DEF HookInv, ScopedHides, Scoped
  <1>10. \A i, j \in DOMAIN evalFrames' :
             i < j /\ Scoped(evalFrames'[i]) => evalFrames'[j].saved # "debugger"
    BY <1>1, <1>4, <1>5 DEF HookInv, ScopedHides, Scoped
  <1>11. Counted'
    <2>1. ASSUME NEW i \in 1 .. n PROVE FrameCounted(evalFrames'[i], returnEvents')
      BY <1>5, <1>6 DEF HookInv, Counted, FrameCounted, Scoped
    <2>2. FrameCounted(g, returnEvents')
      BY <1>1, <1>4, <1>6 DEF FrameCounted
    <2> QED BY <1>5, <2>1, <2>2 DEF Counted, FrameCounted, Scoped
  <1> QED BY <1>8, <1>9, <1>10, <1>11 DEF HookInv, ScopedHides

\* A line may end the tracing or drop the frame's trace function.
LEMMA HookLineStep ==
    ASSUME HookInv, (\E off \in BOOLEAN : Line(off)) \/ LineRaises
    PROVE  HookInv'
  <1>1. PICK local \in BOOLEAN, phase \in {"running", "raised"} :
            evalFrames' = WithTop([TopFrame EXCEPT !.local = local, !.phase = phase])
    <2>1. CASE LineRaises
      BY <2>1 DEF LineRaises
    <2>2. ASSUME NEW off \in BOOLEAN, Line(off)
          PROVE  \E local \in BOOLEAN, phase \in {"running", "raised"} :
                    evalFrames' = WithTop([TopFrame EXCEPT !.local = local, !.phase = phase])
      <3>1. evalFrames # <<>> /\ TopFrame.phase = "running" /\ TopFrame \in Frames
        BY <2>2, TopIsThere DEF Line, HookInv
      <3>2. PICK local \in BOOLEAN : evalFrames' = WithTop([TopFrame EXCEPT !.local = local])
        BY <2>2 DEF Line
      <3>3. [TopFrame EXCEPT !.local = local]
                = [TopFrame EXCEPT !.local = local, !.phase = "running"]
        BY <3>1 DEF Frames
      <3> QED BY <3>2, <3>3
    <2> QED BY <2>1, <2>2
  <1>2. /\ evalFrames # <<>> /\ TopFrame.phase = "running"
        /\ tracer' \in {tracer, "none"}
        /\ UNCHANGED <<returnEvents, threadInfos>>
    BY DEF Line, LineRaises
  <1> DEFINE f == [TopFrame EXCEPT !.local = local, !.phase = phase]
  <1>3. TopFrame \in Frames /\ FrameCounted(TopFrame, returnEvents) /\ returnEvents \in Nat
    BY <1>2, TopIsThere DEF HookInv, Counted, EvalTypeOK
  <1>4. f \in Frames /\ f.saved = TopFrame.saved /\ FrameCounted(f, returnEvents')
    BY <1>2, <1>3 DEF Frames, FrameCounted, Scoped
  <1>5. evalFrames' = WithTop(f)
    BY <1>1
  <1> HIDE DEF f
  <1> QED BY <1>2, <1>3, <1>4, <1>5, TopChanges

\* CPython reports a return of a scoped frame to the scoped trace function, which
\* counts it: the thread's cannot be the debugger's own then.
LEMMA EvalStep ==
    ASSUME HookInv, NEW outcome \in {"returned", "raised"}, PyEval_EvalFrameDefault(outcome)
    PROVE  HookInv'
  <1> DEFINE f == [TopFrame EXCEPT !.phase = outcome, !.returns = IF Traced THEN 1 ELSE 0]
  <1>1. /\ evalFrames # <<>> /\ evalFrames' = WithTop(f) /\ UNCHANGED <<tracer, threadInfos>>
        /\ returnEvents' = IF Traced /\ Wrapped THEN returnEvents + 1 ELSE returnEvents
    BY DEF PyEval_EvalFrameDefault
  <1>2. TopFrame \in Frames /\ FrameCounted(TopFrame, returnEvents) /\ returnEvents \in Nat
    BY <1>1, TopIsThere DEF HookInv, Counted, EvalTypeOK
  <1>3. f \in Frames /\ f.saved = TopFrame.saved /\ f.before = TopFrame.before
        /\ f.returns = IF Traced THEN 1 ELSE 0
    BY <1>2 DEF Frames
  <1>4. Scoped(TopFrame) => Wrapped
    BY <1>1, TopIsThere DEF HookInv, ScopedHides, Wrapped
  <1>5. f.phase = outcome /\ TopFrame.before \in Nat
    BY <1>2 DEF Frames
  <1> HIDE DEF f
  <1>6. FrameCounted(f, returnEvents')
    BY <1>1, <1>2, <1>3, <1>4, <1>5 DEF FrameCounted, Scoped
  <1>7. returnEvents' \in Nat /\ returnEvents' >= returnEvents
    BY <1>1, <1>2
  <1> QED BY <1>1, <1>3, <1>6, <1>7, TopChanges

\* The hook reports a return only where none has been counted since the call.
LEMMA DispatchStep ==
    ASSUME HookInv, Dispatch
    PROVE  HookInv'
  <1>1. evalFrames # <<>> /\ tracer' \in {tracer, "none"} /\ threadInfos' = threadInfos
    BY DEF Dispatch
  <1>2. /\ TopFrame \in Frames /\ FrameCounted(TopFrame, returnEvents)
        /\ returnEvents \in Nat /\ TopFrame.before \in Nat /\ TopFrame.returns \in Nat
    BY <1>1, TopIsThere DEF HookInv, Counted, EvalTypeOK, Frames
  <1>3. CASE SyntheticReturn
    <2> DEFINE f == [TopFrame EXCEPT !.phase = "left", !.returns = @ + 1]
    <2>1. evalFrames' = WithTop(f) /\ returnEvents' = returnEvents + 1
      BY <1>3 DEF Dispatch
    <2>2. /\ f \in Frames /\ f.saved = TopFrame.saved /\ f.phase = "left"
          /\ f.returns = TopFrame.returns + 1 /\ f.before = TopFrame.before
      <3>1. \A g \in Frames, k \in Nat :
                LET h == [g EXCEPT !.phase = "left", !.returns = k]
                IN  /\ h \in Frames /\ h.saved = g.saved /\ h.phase = "left"
                    /\ h.returns = k /\ h.before = g.before
        BY DEF Frames
      <3>2. TopFrame.returns + 1 \in Nat
        BY <1>2
      <3> QED BY <1>2, <3>1, <3>2
    <2>3. TopFrame.returns = 0
      <3>1. Scoped(TopFrame) /\ TopFrame.phase = "returned" /\ returnEvents = TopFrame.before
        BY <1>3, Zenon DEF SyntheticReturn, Scoped
      <3> QED BY <1>2, <3>1 DEF FrameCounted
    <2> HIDE DEF f
    <2>4. FrameCounted(f, returnEvents')
      BY <1>2, <2>1, <2>2, <2>3 DEF FrameCounted
    <2> QED BY <1>1, <1>2, <2>1, <2>2, <2>4, TopChanges
  <1>4. CASE ~SyntheticReturn
    <2> DEFINE f == [TopFrame EXCEPT !.phase = "left"]
    <2>1. evalFrames' = WithTop(f) /\ returnEvents' = returnEvents
      BY <1>4 DEF Dispatch
    <2>2. /\ f \in Frames /\ f.saved = TopFrame.saved /\ f.phase = "left"
          /\ f.returns = TopFrame.returns /\ f.before = TopFrame.before
      BY <1>2 DEF Frames
    <2> HIDE DEF f
    <2>4. FrameCounted(f, returnEvents')
      BY <1>2, <2>1, <2>2 DEF FrameCounted
    <2> QED BY <1>1, <1>2, <2>1, <2>2, <2>4, TopChanges
  <1> QED BY <1>3, <1>4

\* A frame gives back the trace function it found: the debugger's only if no frame
\* around it is scoped.
LEMMA ExitStep ==
    ASSUME HookInv, exit_frame_eval
    PROVE  HookInv'
  <1> DEFINE n == Len(evalFrames)
  <1>1. evalFrames # <<>> /\ n \in DOMAIN evalFrames /\ TopFrame = evalFrames[n]
        /\ TopFrame \in Frames
    BY TopIsThere DEF exit_frame_eval, HookInv
  <1>2. /\ n \in Nat /\ n > 0 /\ DOMAIN evalFrames = 1 .. n
        /\ evalFrames' \in Seq(Frames) /\ DOMAIN evalFrames' = 1 .. (n - 1)
        /\ \A i \in 1 .. (n - 1) : evalFrames'[i] = evalFrames[i]
    BY <1>1 DEF exit_frame_eval, HookInv, EvalTypeOK
  <1>3. tracer' = IF Scoped(TopFrame) THEN TopFrame.saved ELSE tracer
    BY DEF exit_frame_eval, Scoped
  <1>4. tracer' \in Tracers
    BY <1>1, <1>3 DEF Scoped, Frames, HookInv, EvalTypeOK
  <1>5. threadInfos' \in Seq(Infos)
    BY InfosKept DEF exit_frame_eval, HookInv, EvalTypeOK
  <1>6. returnEvents' = returnEvents
    BY DEF exit_frame_eval
  <1>7. EvalTypeOK'
    BY <1>2, <1>4, <1>5, <1>6 DEF HookInv, EvalTypeOK
  <1>8. ScopedHides'
    <2>1. ASSUME NEW i \in 1 .. (n - 1), Scoped(evalFrames[i]) PROVE tracer' # "debugger"
      BY <1>1, <1>2, <1>3, <2>1 DEF HookInv, ScopedHides
    <2> QED BY <1>2, <2>1 DEF HookInv, ScopedHides, Scoped
  <1>9. Counted'
    BY <1>2, <1>6 DEF HookInv, Counted, FrameCounted, Scoped
  <1> QED BY <1>7, <1>8, <1>9 DEF HookInv

-----------------------------------------------------------------------------
\* No frame is reported as returned both by CPython and by the hook, for any
\* code objects, any depth and any number of installations
\* (get_bytecode_while_frame_eval, _dispatch_eval_frame_return_trace_impl).
THEOREM ReturnedOnceAlways == EvalFrameSpec => []ReturnedOnce
<1>1. EvalFrameInit => HookInv
  BY DEF EvalFrameInit, HookInv, EvalTypeOK, ScopedHides, Counted, Tracers, Infos, ThreadInfo
<1>2. HookInv /\ [EvalFrameNext]_evalFrameVars => HookInv'
  <2> SUFFICES ASSUME HookInv, [EvalFrameNext]_evalFrameVars PROVE HookInv'
    OBVIOUS
  <2>1. ASSUME NEW here \in BOOLEAN, install_hook(here) \/ shutdown_hook(here) PROVE HookInv'
    BY <2>1, HookInstallStep
  <2>2. ASSUME NEW c \in EvalCodes, Call(c) PROVE HookInv'
    BY <2>2, CallStep
  <2>3. CASE (\E off \in BOOLEAN : Line(off)) \/ LineRaises
    BY <2>3, HookLineStep
  <2>4. ASSUME NEW outcome \in {"returned", "raised"}, PyEval_EvalFrameDefault(outcome)
        PROVE  HookInv'
    BY <2>4, EvalStep
  <2>5. CASE Dispatch
    BY <2>5, DispatchStep
  <2>6. CASE exit_frame_eval
    BY <2>6, ExitStep
  <2>7. CASE UNCHANGED evalFrameVars
    BY <2>7 DEF evalFrameVars, HookInv, EvalTypeOK, ScopedHides, Counted, FrameCounted, Scoped
  <2> QED BY <2>1, <2>2, <2>3, <2>4, <2>5, <2>6, <2>7 DEF EvalFrameNext
<1>3. HookInv => ReturnedOnce
  BY DEF HookInv, Counted, FrameCounted, ReturnedOnce
<1> QED BY <1>1, <1>2, <1>3, PTL DEF EvalFrameSpec

=============================================================================
