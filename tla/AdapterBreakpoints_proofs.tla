--------------------- MODULE AdapterBreakpoints_proofs ----------------------
(***************************************************************************)
(* Proofs about AdapterBreakpoints, for every set of files and             *)
(* breakpoints, and about HotReload, for every set of frames and names;    *)
(* for every bound.                                                        *)
(***************************************************************************)
EXTENDS AdapterBreakpoints, HotReload, Integers, SequenceTheorems, WellFoundedInduction, TLAPS

-----------------------------------------------------------------------------
(***************************************************************************)
(* The adapter's table, the debuggee's, and what was answered.  A request  *)
(* for a key is under way in one task at a time, so the newest set is in   *)
(* the table, in the task that sends it, on the wire behind every older    *)
(* one, or with the debuggee.                                              *)
(***************************************************************************)
Commands == [cmd : {"set", "hotReload"}, key : Keys, set : SUBSET Breaks]

Acting == {"sending", "sent"}

\* What a task of the loop is doing, as a record of one of four shapes.
IsTask(r) ==
    \/ r = Idle
    \/ r = [at |-> "other"]
    \/ r = [at |-> "reloading", key |-> r.key, set |-> r.set] /\ r.key \in Keys
    \/ /\ r = [at |-> r.at, key |-> r.key, set |-> r.set, reload |-> r.reload]
       /\ r.at \in Acting /\ r.key \in Keys /\ r.set \in SUBSET Breaks /\ r.reload \in BOOLEAN

TypeOK ==
    /\ inprocess \in BOOLEAN /\ backend \in BOOLEAN
    /\ lifecycle \in {"ready", "busy", "error"}
    /\ link \in {"waiting", "up", "broken", "gone"}
    /\ unread \in Seq(Commands)
    /\ table \in Tables /\ debuggee \in Tables /\ told \in Tables
    /\ task = [t \in Tasks |-> task[t]]
    /\ \A t \in Tasks : IsTask(task[t])

\* The lifecycle of the back end is held by one operation at a time.
Exclusive ==
    /\ \A t \in Tasks : task[t].at \in Acting \union {"other"} =>
           lifecycle = "busy" /\ \A u \in Tasks : task[u].at \in Acting \union {"other"} => u = t
    /\ inprocess => unread = <<>> /\ \A t \in Tasks : task[t].at \notin Acting

\* The commands of w that set the key.
Sets(w, k) == {i \in DOMAIN w : w[i].cmd = "set" /\ w[i].key = k}

\* What a debuggee that has d for the key has once w has arrived: the last of the sets in w,
\* or what it has now.
Arrives(w, d, k, s) ==
    /\ Sets(w, k) = {} => d = s
    /\ \A i \in Sets(w, k) : (\A j \in Sets(w, k) : j <= i) => w[i].set = s

\* An operation on the key is under way.
Sent(k) == \E t \in Tasks : task[t].at \in Acting /\ task[t].key = k
Unsent(k) == \E t \in Tasks : task[t].at = "sending" /\ task[t].key = k

\* Of a key that is not excused: what is sent is what the table has, what was sent arrives,
\* and what was answered is what is sent, but for an operation under way.
InStep(k) ==
    /\ \A t \in Tasks : task[t].at \in Acting /\ task[t].key = k =>
           /\ task[t].set = table[k]
           /\ task[t].reload => told[k] = table[k]
    /\ ~Unsent(k) /\ link \in {"waiting", "up"} => Arrives(unread, debuggee[k], k, table[k])
    /\ ~Sent(k) => told[k] = table[k]

NewestInv ==
    /\ TypeOK /\ Exclusive
    /\ \A k \in Keys \ excused : InStep(k)

-----------------------------------------------------------------------------
LEMMA TaskIs ==
    ASSUME NEW r, IsTask(r)
    PROVE  /\ r.at \in {"idle", "other", "reloading", "sending", "sent"}
           /\ r.at \in Acting => /\ r.key \in Keys /\ r.set \in SUBSET Breaks /\ r.reload \in BOOLEAN
                                 /\ r = [at |-> r.at, key |-> r.key, set |-> r.set, reload |-> r.reload]
           /\ r.at = "reloading" => r.key \in Keys
  BY DEF IsTask, Acting, Idle

LEMMA KeysAre == "function" \in Keys /\ "exception" \in Keys /\ "data" \in Keys /\ Files \subseteq Keys
  BY DEF Keys

LEMMA TasksAre == "client" \in Tasks /\ "controller" \in Tasks
  BY DEF Tasks

\* Steps that change no table and no task, and lose nothing but the connection.
LEMMA ConnectionStep ==
    ASSUME NewestInv, UNCHANGED <<inprocess, lifecycle, table, debuggee, task, told, excused>>,
           backend' \in BOOLEAN,
           \/ unread' = unread /\ link' \in {"waiting", "up"} /\ link \in {"waiting", "up"}
           \/ unread' = <<>> /\ link' \in {"broken", "gone"}
    PROVE  NewestInv'
  <1>1. TypeOK'
    BY EmptySeq DEF NewestInv, TypeOK
  <1>2. Exclusive'
    BY DEF NewestInv, Exclusive
  <1>3. ASSUME NEW k \in Keys \ excused' PROVE InStep(k)'
    BY <1>3 DEF NewestInv, InStep, Sent, Unsent
  <1> QED BY <1>1, <1>2, <1>3 DEF NewestInv

-----------------------------------------------------------------------------
\* A command that sets another key, or none, does not change what arrives; one that sets the
\* key is the one that arrives last.
LEMMA AppendArrives ==
    ASSUME NEW w \in Seq(Commands), NEW c \in Commands, NEW d, NEW k, NEW s
    PROVE  /\ ~(c.cmd = "set" /\ c.key = k) /\ Arrives(w, d, k, s) => Arrives(Append(w, c), d, k, s)
           /\ c.cmd = "set" /\ c.key = k => Arrives(Append(w, c), d, k, c.set)
  <1> DEFINE v == Append(w, c)
  <1>1. /\ Len(w) \in Nat /\ Len(v) = Len(w) + 1 /\ DOMAIN w = 1..Len(w) /\ DOMAIN v = 1..(Len(w) + 1)
        /\ \A i \in 1..Len(w) : v[i] = w[i]
        /\ v[Len(w) + 1] = c
    BY AppendProperties, LenProperties
  <1> HIDE DEF v
  <1>2. ASSUME ~(c.cmd = "set" /\ c.key = k), Arrives(w, d, k, s) PROVE Arrives(v, d, k, s)
    <2>1. Sets(v, k) = Sets(w, k)
      BY <1>1, <1>2 DEF Sets
    <2>2. \A i \in Sets(w, k) : v[i] = w[i]
      BY <1>1 DEF Sets
    <2> QED BY <1>2, <2>1, <2>2 DEF Arrives
  <1>3. ASSUME c.cmd = "set", c.key = k PROVE Arrives(v, d, k, c.set)
    <2>1. Len(w) + 1 \in Sets(v, k)
      BY <1>1, <1>3 DEF Sets
    <2>2. ASSUME NEW i \in Sets(v, k), \A j \in Sets(v, k) : j <= i PROVE v[i].set = c.set
      <3>1. i \in 1..(Len(w) + 1) /\ Len(w) + 1 <= i
        BY <1>1, <2>1, <2>2 DEF Sets
      <3>2. i = Len(w) + 1
        BY <1>1, <3>1
      <3> QED BY <1>1, <3>2
    <2> QED BY <2>1, <2>2 DEF Arrives
  <1> QED BY <1>2, <1>3 DEF v

\* The debuggee reads the first command: a set becomes what it has.
LEMMA TailArrives ==
    ASSUME NEW w \in Seq(Commands), w # <<>>, NEW d, NEW k, NEW s, Arrives(w, d, k, s)
    PROVE  Arrives(Tail(w), IF Head(w).cmd = "set" /\ Head(w).key = k THEN Head(w).set ELSE d, k, s)
  <1> DEFINE v == Tail(w)
  <1>1. /\ Len(w) \in Nat /\ Len(w) > 0 /\ Len(v) = Len(w) - 1
        /\ DOMAIN w = 1..Len(w) /\ DOMAIN v = 1..(Len(w) - 1)
        /\ \A i \in 1..(Len(w) - 1) : v[i] = w[i + 1]
        /\ Head(w) = w[1]
    BY HeadTailProperties, LenProperties, EmptySeq
  <1> HIDE DEF v
  <1>2. \A i \in Sets(v, k) : i \in Nat /\ i + 1 \in Sets(w, k) /\ v[i] = w[i + 1]
    BY <1>1 DEF Sets
  <1>3. \A i \in Sets(w, k) : i \in Nat /\ (i = 1 \/ (i - 1 \in Sets(v, k) /\ i - 1 \in Nat))
    BY <1>1 DEF Sets
  <1>4. 1 \in Sets(w, k) <=> Head(w).cmd = "set" /\ Head(w).key = k
    BY <1>1 DEF Sets
  <1>5. ASSUME Sets(v, k) = {}
        PROVE  (IF Head(w).cmd = "set" /\ Head(w).key = k THEN Head(w).set ELSE d) = s
    <2>1. CASE 1 \in Sets(w, k)
      <3>1. \A j \in Sets(w, k) : j <= 1
        BY <1>3, <1>5
      <3>2. w[1].set = s
        BY <2>1, <3>1 DEF Arrives
      <3> QED BY <1>1, <1>4, <2>1, <3>2
    <2>2. CASE 1 \notin Sets(w, k)
      <3>1. Sets(w, k) = {}
        BY <1>3, <1>5, <2>2
      <3> QED BY <1>4, <2>2, <3>1 DEF Arrives
    <2> QED BY <2>1, <2>2
  <1>6. ASSUME NEW i \in Sets(v, k), \A j \in Sets(v, k) : j <= i PROVE v[i].set = s
    <2>1. i + 1 \in Sets(w, k) /\ v[i] = w[i + 1] /\ i \in Nat
      BY <1>2
    <2>2. ASSUME NEW j \in Sets(w, k) PROVE j <= i + 1
      <3>1. CASE j = 1
        BY <2>1, <3>1
      <3>2. CASE j - 1 \in Sets(v, k) /\ j - 1 \in Nat
        <4>1. j - 1 <= i
          BY <1>6, <3>2
        <4> QED BY <1>3, <2>1, <4>1
      <3> QED BY <1>3, <3>1, <3>2
    <2> QED BY <2>1, <2>2 DEF Arrives
  <1> QED BY <1>5, <1>6 DEF Arrives, v

-----------------------------------------------------------------------------
Busy == Acting \union {"other"}

\* What holds of the tasks after one of them has moved.
Moved(t, r) == /\ task' = [u \in Tasks |-> task'[u]]
               /\ \A u \in Tasks : IsTask(task'[u])
               /\ task'[t] = r
               /\ \A u \in Tasks \ {t} : task'[u] = task[u]

LEMMA TaskMoves ==
    ASSUME TypeOK, NEW t \in Tasks, NEW r, IsTask(r), Go(t, r)
    PROVE  Moved(t, r)
  <1>1. task = [u \in Tasks |-> task[u]] /\ task' = [task EXCEPT ![t] = r]
    BY DEF TypeOK, Go
  <1>2. task' = [u \in Tasks |-> IF u = t THEN r ELSE task[u]]
    BY <1>1
  <1> QED BY <1>2 DEF TypeOK, Moved

\* A task enters an operation on a back end that is ready, goes on within it, or leaves it.
LEMMA TaskExcludes ==
    ASSUME TypeOK, Exclusive, NEW t \in Tasks, NEW r, Moved(t, r),
           inprocess' = inprocess, inprocess => unread' = <<>> /\ r.at \notin Acting,
           \/ r.at \notin Busy /\ (lifecycle' = lifecycle \/ task[t].at \in Busy)
           \/ r.at \in Busy /\ lifecycle = "ready" /\ lifecycle' = "busy"
           \/ r.at \in Busy /\ task[t].at \in Busy /\ lifecycle' = lifecycle
    PROVE  Exclusive'
  <1>1. \A u \in Tasks \ {t} : task'[u] = task[u]
    BY DEF Moved
  <1>2. task'[t] = r
    BY DEF Moved
  <1>3. CASE r.at \notin Busy /\ (lifecycle' = lifecycle \/ task[t].at \in Busy)
    BY <1>1, <1>2, <1>3 DEF Exclusive, Busy
  <1>4. CASE r.at \in Busy /\ lifecycle = "ready" /\ lifecycle' = "busy"
    <2>1. \A u \in Tasks : task[u].at \notin Busy
      BY <1>4 DEF Exclusive, Busy
    <2> QED BY <1>1, <1>2, <1>4, <2>1 DEF Exclusive, Busy
  <1>5. CASE r.at \in Busy /\ task[t].at \in Busy /\ lifecycle' = lifecycle
    BY <1>1, <1>2, <1>5 DEF Exclusive, Busy
  <1> QED BY <1>3, <1>4, <1>5

\* A key that no moving task has to do with.
LEMMA KeyStays ==
    ASSUME NEW k \in Keys, InStep(k), table'[k] = table[k], told'[k] = told[k],
           NEW t \in Tasks, NEW r, Moved(t, r),
           ~(task[t].at \in Acting /\ task[t].key = k), ~(r.at \in Acting /\ r.key = k),
           link' = link,
           Arrives(unread, debuggee[k], k, table[k]) => Arrives(unread', debuggee'[k], k, table'[k])
    PROVE  InStep(k)'
  <1>1. \A u \in Tasks : /\ task[u].at \in Acting /\ task[u].key = k
                               => task'[u] = task[u]
                         /\ task'[u].at \in Acting /\ task'[u].key = k
                               => task'[u] = task[u]
    BY DEF Moved
  <1>2. Sent(k)' = Sent(k) /\ Unsent(k)' = Unsent(k)
    BY <1>1 DEF Sent, Unsent, Acting
  <1>3. \A u \in Tasks : task'[u].at \in Acting /\ task'[u].key = k =>
           /\ task'[u].set = table'[k]
           /\ task'[u].reload => told'[k] = table'[k]
    BY <1>1 DEF InStep
  <1> QED BY <1>2, <1>3 DEF InStep

LEMMA OperateKeeps ==
    ASSUME NewestInv, NEW t \in Tasks, NEW k \in Keys, NEW s \in SUBSET Breaks,
           NEW reloading \in BOOLEAN, reloading => s = table[k],
           task[t].at \in {"idle", "reloading"},
           Operate(t, k, s, reloading), UNCHANGED <<inprocess, backend, link, unread>>
    PROVE  NewestInv'
  <1>1. TypeOK /\ Exclusive /\ \A j \in Keys \ excused : InStep(j)
    BY DEF NewestInv
  <1>0. table \in [Keys -> SUBSET Breaks] /\ told \in [Keys -> SUBSET Breaks]
        /\ debuggee \in [Keys -> SUBSET Breaks]
    BY <1>1 DEF TypeOK, Tables
  <1>2. table' \in Tables /\ table'[k] = s /\ \A j \in Keys \ {k} : table'[j] = table[j]
    BY <1>0 DEF Operate, RecordSet, Tables
  <1>3. task[t].at \notin Busy
    BY DEF Busy, Acting
  <1>4. reloading => table'[k] = table[k]
    BY <1>2
  <1>5. ASSUME Go(t, Idle),
               OnlyRecord(k, s) \/ CallDebugger(k, s, reloading) \/ Refuse(k, reloading)
        PROVE  NewestInv'
    <2>1. Moved(t, Idle) /\ Idle.at \notin Busy
      BY <1>1, <1>5, TaskMoves DEF IsTask, Idle, Busy, Acting
    <2>2. lifecycle' = lifecycle
      BY <1>5 DEF OnlyRecord, CallDebugger, Refuse
    <2>3. Exclusive'
      BY <1>1, <2>1, <2>2, TaskExcludes DEF Exclusive, Busy
    <2>4. ASSUME NEW d, d = told \/ d = [told EXCEPT ![k] = s]
          PROVE  d \in Tables /\ \A j \in Keys \ {k} : d[j] = told[j]
      BY <1>0, <2>4 DEF Tables
    <2>5. told' \in Tables /\ \A j \in Keys \ {k} : told'[j] = told[j]
      <3>1. told' = told \/ told' = [told EXCEPT ![k] = s]
        BY <1>5 DEF OnlyRecord, CallDebugger, Refuse, Told
      <3> QED BY <2>4, <3>1
    <2>6. debuggee' \in Tables /\ \A j \in Keys \ {k} : debuggee'[j] = debuggee[j]
      <3>1. debuggee' = debuggee \/ debuggee' = [debuggee EXCEPT ![k] = s]
        BY <1>5 DEF OnlyRecord, CallDebugger, Refuse
      <3> QED BY <1>0, <3>1 DEF Tables
    <2>7. TypeOK'
      BY <1>1, <1>2, <2>1, <2>2, <2>5, <2>6 DEF TypeOK, Moved
    <2>8. ASSUME NEW j \in Keys \ excused', j # k PROVE InStep(j)'
      <3>1. j \in Keys \ excused
        BY <1>5, <2>8 DEF OnlyRecord, CallDebugger, Refuse
      <3> QED BY <1>1, <1>2, <1>3, <2>1, <2>5, <2>6, <2>8, <3>1, KeyStays DEF Busy
    <2>9. ASSUME k \notin excused' PROVE InStep(k)'
      <3>1. CASE CallDebugger(k, s, reloading)
        <4>1. inprocess /\ debuggee' = [debuggee EXCEPT ![k] = s]
          BY <3>1 DEF CallDebugger
        <4>2. debuggee'[k] = s
          BY <1>0, <4>1
        <4>3. unread' = <<>> /\ \A u \in Tasks : task[u].at \notin Acting
          BY <1>1, <4>1 DEF Exclusive
        <4>4. \A u \in Tasks : task'[u].at \notin Acting
          BY <2>1, <4>3 DEF Moved, Busy
        <4>5. told'[k] = s
          <5>1. CASE reloading
            <6>1. told' = told /\ k \notin excused
              BY <2>9, <3>1, <5>1 DEF CallDebugger, Told
            <6>2. told[k] = table[k]
              BY <1>1, <4>3, <6>1 DEF InStep, Sent
            <6> QED BY <5>1, <6>1, <6>2
          <5>2. CASE ~reloading
            BY <1>0, <3>1, <5>2 DEF CallDebugger, Told
          <5> QED BY <5>1, <5>2
        <4>6. Arrives(unread', debuggee'[k], k, s)
          BY <4>2, <4>3 DEF Arrives, Sets
        <4>7. ~Sent(k)' /\ ~Unsent(k)'
          BY <4>4 DEF Sent, Unsent, Acting
        <4> QED BY <1>2, <4>4, <4>5, <4>6, <4>7 DEF InStep
      <3>2. CASE Refuse(k, reloading)
        <4>1. reloading /\ k \notin excused /\ told' = told /\ debuggee' = debuggee
          BY <2>9, <3>2 DEF Refuse
        <4> QED BY <1>1, <1>3, <1>4, <2>1, <4>1, KeyStays DEF Busy
      <3>3. CASE OnlyRecord(k, s)
        BY <2>9, <3>3 DEF OnlyRecord
      <3> QED BY <1>5, <3>1, <3>2, <3>3
    <2> QED BY <2>3, <2>7, <2>8, <2>9 DEF NewestInv
  <1>6. ASSUME StartSending(k, reloading), Go(t, Sending(k, s, reloading))
        PROVE  NewestInv'
    <2> DEFINE r == Sending(k, s, reloading)
    <2>1. /\ r.at = "sending" /\ r.key = k /\ r.set = s /\ r.reload = reloading
          /\ IsTask(r) /\ r.at \in Acting /\ r.at \in Busy
      BY DEF Sending, IsTask, Acting, Busy
    <2>2. Moved(t, r)
      BY <1>1, <1>6, <2>1, TaskMoves
    <2> HIDE DEF r
    <2>3. /\ lifecycle = "ready" /\ lifecycle' = "busy" /\ ~inprocess
          /\ debuggee' = debuggee /\ told' = told
      BY <1>6 DEF StartSending
    <2>4. Exclusive'
      BY <1>1, <2>1, <2>2, <2>3, TaskExcludes
    <2>5. TypeOK'
      BY <1>1, <1>2, <2>2, <2>3 DEF TypeOK, Moved
    <2>6. ASSUME NEW j \in Keys \ excused', j # k PROVE InStep(j)'
      <3>1. j \in Keys \ excused
        BY <1>6, <2>6 DEF StartSending
      <3> QED BY <1>1, <1>2, <1>3, <2>1, <2>2, <2>3, <2>6, <3>1, KeyStays DEF Busy
    <2>7. ASSUME k \notin excused' PROVE InStep(k)'
      <3>1. \A u \in Tasks : task[u].at \notin Acting
        BY <1>1, <2>3 DEF Exclusive
      <3>2. reloading => told'[k] = s
        <4>1. reloading => k \notin excused
          BY <1>6, <2>7 DEF StartSending
        <4>2. k \notin excused => told[k] = table[k]
          BY <1>1, <3>1 DEF InStep, Sent
        <4> QED BY <2>3, <4>1, <4>2
      <3>3. Sent(k)' /\ Unsent(k)'
        BY <2>1, <2>2 DEF Sent, Unsent, Moved
      <3>4. \A u \in Tasks : task'[u].at \in Acting => u = t
        BY <2>2, <3>1 DEF Moved
      <3>5. \A u \in Tasks : task'[u].at \in Acting /\ task'[u].key = k =>
               /\ task'[u].set = table'[k]
               /\ task'[u].reload => told'[k] = table'[k]
        BY <1>2, <2>1, <2>2, <3>2, <3>4 DEF Moved
      <3> QED BY <3>3, <3>5 DEF InStep
    <2> QED BY <2>4, <2>5, <2>6, <2>7 DEF NewestInv
  <1> QED BY <1>5, <1>6 DEF Operate

LEMMA RecordOnlyKeeps ==
    ASSUME NewestInv, NEW k \in Keys, NEW s \in SUBSET Breaks, RecordOnly(k, s)
    PROVE  NewestInv'
  <1>1. TypeOK /\ Exclusive /\ \A j \in Keys \ excused : InStep(j)
    BY DEF NewestInv
  <1>0. table \in [Keys -> SUBSET Breaks] /\ told \in [Keys -> SUBSET Breaks]
    BY <1>1 DEF TypeOK, Tables
  <1>2. /\ table' \in Tables /\ \A j \in Keys \ {k} : table'[j] = table[j]
        /\ told' \in Tables /\ \A j \in Keys \ {k} : told'[j] = told[j]
    BY <1>0 DEF RecordOnly, RecordSet, Told, Tables
  <1>3. UNCHANGED <<inprocess, backend, lifecycle, link, unread, debuggee, task>>
    BY DEF RecordOnly, connection
  <1>4. TypeOK' /\ Exclusive'
    BY <1>1, <1>2, <1>3 DEF TypeOK, Exclusive
  <1>5. ASSUME NEW j \in Keys \ excused' PROVE InStep(j)'
    <2>1. j \in Keys \ excused /\ j # k
      BY <1>5 DEF RecordOnly
    <2> QED BY <1>1, <1>2, <1>3, <2>1 DEF InStep, Sent, Unsent
  <1> QED BY <1>4, <1>5 DEF NewestInv

-----------------------------------------------------------------------------
\* A task that is acting, seen as a record.
LEMMA ActingTask ==
    ASSUME TypeOK, Exclusive, NEW t \in Tasks, task[t].at \in Acting
    PROVE  /\ task[t].key \in Keys /\ task[t].set \in SUBSET Breaks /\ task[t].reload \in BOOLEAN
           /\ ~inprocess /\ lifecycle = "busy" /\ task[t].at \in Busy
           /\ \A u \in Tasks : task[u].at \in Acting => u = t
           /\ IsTask([task[t] EXCEPT !.at = "sent"])
           /\ [task[t] EXCEPT !.at = "sent"].at = "sent"
           /\ [task[t] EXCEPT !.at = "sent"].key = task[t].key
           /\ [task[t] EXCEPT !.at = "sent"].set = task[t].set
           /\ [task[t] EXCEPT !.at = "sent"].reload = task[t].reload
  <1>1. IsTask(task[t])
    BY DEF TypeOK
  <1>2. PICK p, key, set, reload :
            /\ task[t] = [at |-> p, key |-> key, set |-> set, reload |-> reload]
            /\ key \in Keys /\ set \in SUBSET Breaks /\ reload \in BOOLEAN
    <2>1. PICK r : r = task[t]
      OBVIOUS
    <2>2. /\ r = [at |-> r.at, key |-> r.key, set |-> r.set, reload |-> r.reload]
          /\ r.key \in Keys /\ r.set \in SUBSET Breaks /\ r.reload \in BOOLEAN
      BY <1>1, <2>1, TaskIs
    <2> QED BY <2>1, <2>2
  <1>3. [task[t] EXCEPT !.at = "sent"] = [at |-> "sent", key |-> key, set |-> set, reload |-> reload]
    BY <1>2
  <1>4. IsTask([at |-> "sent", key |-> key, set |-> set, reload |-> reload])
    BY <1>2 DEF IsTask, Acting
  <1> QED BY <1>2, <1>3, <1>4 DEF Exclusive, Busy

\* An operation goes on within its back end, and only its own key may change.
LEMMA GoesOn ==
    ASSUME NewestInv, NEW t \in Tasks, task[t].at = "sending",
           Go(t, [task[t] EXCEPT !.at = "sent"]),
           UNCHANGED <<inprocess, backend, lifecycle, table, link, debuggee, told>>,
           unread' \in Seq(Commands), excused \subseteq excused',
           \A k \in Keys \ {task[t].key} : Arrives(unread, debuggee[k], k, table[k])
                                             => Arrives(unread', debuggee[k], k, table[k]),
           task[t].key \in excused' \/ Arrives(unread', debuggee[task[t].key], task[t].key, task[t].set)
    PROVE  NewestInv'
  <1>1. TypeOK /\ Exclusive /\ \A j \in Keys \ excused : InStep(j)
    BY DEF NewestInv
  <1>2. PICK r, k, s : r = [task[t] EXCEPT !.at = "sent"] /\ k = task[t].key /\ s = task[t].set
    OBVIOUS
  <1>3. task[t].at \in Acting /\ task[t].at \in Busy
    BY DEF Acting, Busy
  <1>4. /\ k \in Keys /\ ~inprocess /\ IsTask(r) /\ r.at = "sent" /\ r.key = k /\ r.set = s
        /\ r.reload = task[t].reload /\ \A u \in Tasks : task[u].at \in Acting => u = t
    BY <1>1, <1>2, <1>3, ActingTask
  <1>5. Moved(t, r)
    BY <1>1, <1>2, <1>4, TaskMoves
  <1>6. Exclusive'
    BY <1>1, <1>3, <1>4, <1>5, TaskExcludes DEF Busy, Acting
  <1>7. TypeOK'
    BY <1>1, <1>5 DEF TypeOK, Moved
  <1>8. ASSUME NEW j \in Keys \ excused', j # k PROVE InStep(j)'
    <2>1. InStep(j)
      BY <1>1, <1>8
    <2> QED BY <1>2, <1>4, <1>5, <1>8, <2>1, KeyStays
  <1>9. ASSUME k \notin excused' PROVE InStep(k)'
    <2>1. InStep(k) /\ Arrives(unread', debuggee[k], k, s)
      BY <1>1, <1>2, <1>4, <1>9
    <2>2. s = table[k] /\ (r.reload => told[k] = table[k])
      BY <1>2, <1>3, <1>4, <2>1 DEF InStep
    <2>3. \A u \in Tasks : task'[u].at \in Acting => u = t
      BY <1>4, <1>5 DEF Moved
    <2>4. Sent(k)'
      BY <1>4, <1>5 DEF Sent, Moved, Acting
    <2>5. task'[t].set = s /\ task'[t].reload = r.reload
      BY <1>4, <1>5 DEF Moved
    <2> QED BY <2>1, <2>2, <2>3, <2>4, <2>5 DEF InStep
  <1> QED BY <1>6, <1>7, <1>8, <1>9 DEF NewestInv

LEMMA SendCommandKeeps ==
    ASSUME NewestInv, NEW t \in Tasks, SendCommand(t)
    PROVE  NewestInv'
  <1>1. TypeOK /\ Exclusive /\ task[t].at = "sending" /\ task[t].at \in Acting
    BY DEF NewestInv, SendCommand, At, Acting
  <1>2. PICK k, s : k = task[t].key /\ s = task[t].set
    OBVIOUS
  <1>3. PICK c : c = [cmd |-> "set", key |-> k, set |-> s]
    OBVIOUS
  <1>4. k \in Keys /\ s \in SUBSET Breaks
    BY <1>1, <1>2, ActingTask
  <1>5. c \in Commands /\ c.cmd = "set" /\ c.key = k /\ c.set = s
    BY <1>3, <1>4 DEF Commands
  <1>6. unread' = Append(unread, c) /\ unread \in Seq(Commands)
    BY <1>1, <1>2, <1>3 DEF SendCommand, Delivered, SetCommand, TypeOK
  <1>7. unread' \in Seq(Commands)
    BY <1>5, <1>6, AppendProperties
  <1>8. \A j \in Keys \ {k} : Arrives(unread, debuggee[j], j, table[j])
                               => Arrives(unread', debuggee[j], j, table[j])
    BY <1>5, <1>6, AppendArrives
  <1>9. Arrives(unread', debuggee[k], k, s)
    BY <1>5, <1>6, AppendArrives
  <1> QED BY <1>1, <1>2, <1>7, <1>8, <1>9, GoesOn DEF SendCommand, history

LEMMA SendSwallowedKeeps ==
    ASSUME NewestInv, NEW t \in Tasks, SendSwallowed(t)
    PROVE  NewestInv'
  <1>1. TypeOK /\ task[t].at = "sending"
    BY DEF NewestInv, SendSwallowed, At
  <1>2. unread' = unread /\ unread \in Seq(Commands) /\ task[t].key \in excused' /\ excused \subseteq excused'
    BY <1>1 DEF SendSwallowed, connection, TypeOK
  <1> QED BY <1>1, <1>2, GoesOn DEF SendSwallowed, connection

\* An operation ends: in error, excusing its key, or with success.
LEMMA EndKeeps ==
    ASSUME NewestInv, NEW t \in Tasks, task[t].at \in Acting, Fail(t) \/ Finish(t)
    PROVE  NewestInv'
  <1>1. TypeOK /\ Exclusive /\ \A j \in Keys \ excused : InStep(j)
    BY DEF NewestInv
  <1>2. PICK k, s, reload : k = task[t].key /\ s = task[t].set /\ reload = task[t].reload
    OBVIOUS
  <1>3. /\ k \in Keys /\ s \in SUBSET Breaks /\ reload \in BOOLEAN /\ ~inprocess /\ task[t].at \in Busy
        /\ \A u \in Tasks : task[u].at \in Acting => u = t
    BY <1>1, <1>2, ActingTask
  <1>4. IsTask(Idle) /\ Idle.at \notin Busy /\ Idle.at \notin Acting
    BY DEF IsTask, Idle, Busy, Acting
  <1>5. UNCHANGED <<inprocess, backend, table, link, unread, debuggee>> /\ Go(t, Idle)
    BY DEF Fail, Finish, connection
  <1>6. Moved(t, Idle)
    BY <1>1, <1>4, <1>5, TaskMoves
  <1>7. Exclusive'
    BY <1>1, <1>3, <1>4, <1>5, <1>6, TaskExcludes
  <1>8. told' \in Tables /\ \A j \in Keys \ {k} : told'[j] = told[j]
    <2>1. told \in [Keys -> SUBSET Breaks]
      BY <1>1 DEF TypeOK, Tables
    <2>2. told' = told \/ told' = [told EXCEPT ![k] = s]
      BY <1>2 DEF Fail, Finish, Told
    <2> QED BY <1>3, <2>1, <2>2 DEF Tables
  <1>9. lifecycle' \in {"ready", "busy", "error"}
    BY <1>1 DEF Fail, Finish, TypeOK
  <1>10. TypeOK'
    BY <1>1, <1>5, <1>6, <1>8, <1>9 DEF TypeOK, Moved
  <1>11. excused \subseteq excused' /\ (k \in excused' \/ Finish(t))
    BY <1>2 DEF Fail, Finish
  <1>12. ASSUME NEW j \in Keys \ excused', j # k PROVE InStep(j)'
    <2>1. InStep(j)
      BY <1>1, <1>11, <1>12
    <2> QED BY <1>2, <1>4, <1>5, <1>6, <1>8, <1>12, <2>1, KeyStays
  <1>13. ASSUME k \notin excused' PROVE InStep(k)'
    <2>1. InStep(k) /\ Finish(t) /\ task[t].at = "sent"
      BY <1>1, <1>3, <1>11, <1>13 DEF Finish, At
    <2>2. s = table[k] /\ (reload => told[k] = table[k])
      BY <1>2, <2>1 DEF InStep
    <2>3. told'[k] = table[k]
      <3>1. told \in [Keys -> SUBSET Breaks]
        BY <1>1 DEF TypeOK, Tables
      <3>2. told' = IF reload THEN told ELSE [told EXCEPT ![k] = s]
        BY <1>2, <2>1 DEF Finish, Told
      <3> QED BY <1>3, <2>2, <3>1, <3>2
    <2>4. \A u \in Tasks : task'[u].at \notin Acting
      BY <1>3, <1>4, <1>6 DEF Moved
    <2>5. ~Unsent(k)
      BY <1>3, <2>1 DEF Unsent, Acting
    <2>6. link' \in {"waiting", "up"} => Arrives(unread, debuggee[k], k, table[k])
      BY <1>5, <2>1, <2>5 DEF InStep
    <2> QED BY <1>5, <2>3, <2>4, <2>6 DEF InStep
  <1> QED BY <1>7, <1>10, <1>12, <1>13 DEF NewestInv

\* The client's task does something that has no key.
LEMMA ElsewhereKeeps ==
    ASSUME NewestInv, NEW r, Go("client", r), IsTask(r), r.at \notin Acting,
           task["client"].at \notin Acting,
           UNCHANGED <<inprocess, backend, table, link, debuggee, told, excused>>,
           lifecycle' \in {"ready", "busy", "error"},
           unread' \in Seq(Commands), inprocess => unread' = <<>>,
           \A k \in Keys : Arrives(unread, debuggee[k], k, table[k])
                             => Arrives(unread', debuggee[k], k, table[k]),
           \/ r.at \notin Busy /\ (lifecycle' = lifecycle \/ task["client"].at \in Busy)
           \/ r.at \in Busy /\ lifecycle = "ready" /\ lifecycle' = "busy"
    PROVE  NewestInv'
  <1>1. TypeOK /\ Exclusive /\ \A j \in Keys \ excused : InStep(j)
    BY DEF NewestInv
  <1>2. PICK t \in Tasks : t = "client"
    BY TasksAre
  <1>3. Moved(t, r)
    BY <1>1, <1>2, TaskMoves
  <1>4. Exclusive'
    BY <1>1, <1>2, <1>3, TaskExcludes
  <1>5. TypeOK'
    BY <1>1, <1>3 DEF TypeOK, Moved
  <1>6. ASSUME NEW j \in Keys \ excused' PROVE InStep(j)'
    <2>1. InStep(j)
      BY <1>1, <1>6
    <2> QED BY <1>2, <1>3, <1>6, <2>1, KeyStays
  <1> QED BY <1>4, <1>5, <1>6 DEF NewestInv

\* The debuggee reads a command.
LEMMA ReadKeeps ==
    ASSUME NewestInv, unread # <<>>, unread' = Tail(unread),
           debuggee' = IF Head(unread).cmd = "set"
                       THEN [debuggee EXCEPT ![Head(unread).key] = Head(unread).set] ELSE debuggee,
           UNCHANGED <<inprocess, backend, lifecycle, link, table, task, told, excused>>
    PROVE  NewestInv'
  <1>1. TypeOK /\ Exclusive /\ \A j \in Keys \ excused : InStep(j)
    BY DEF NewestInv
  <1>2. unread \in Seq(Commands) /\ debuggee \in [Keys -> SUBSET Breaks]
    BY <1>1 DEF TypeOK, Tables
  <1>3. PICK c : c = Head(unread)
    OBVIOUS
  <1>4. c \in Commands /\ unread' \in Seq(Commands)
    BY <1>2, <1>3, HeadTailProperties
  <1>5. c.key \in Keys /\ c.set \in SUBSET Breaks
    BY <1>4 DEF Commands
  <1>6. debuggee' \in Tables
        /\ \A k \in Keys : debuggee'[k] = IF c.cmd = "set" /\ c.key = k THEN c.set ELSE debuggee[k]
    BY <1>2, <1>3, <1>5 DEF Tables
  <1>7. TypeOK'
    BY <1>1, <1>4, <1>6 DEF TypeOK
  <1>8. ~inprocess
    BY <1>1 DEF Exclusive
  <1>9. Exclusive'
    BY <1>1, <1>8 DEF Exclusive
  <1>10. ASSUME NEW k \in Keys \ excused' PROVE InStep(k)'
    <2>1. InStep(k)
      BY <1>1, <1>10
    <2>2. Arrives(unread, debuggee[k], k, table[k]) => Arrives(unread', debuggee'[k], k, table[k])
      BY <1>2, <1>3, <1>6, TailArrives
    <2> QED BY <2>1, <2>2 DEF InStep, Sent, Unsent
  <1> QED BY <1>7, <1>9, <1>10 DEF NewestInv

LEMMA ReapplyKeeps ==
    ASSUME NewestInv, reapply_breakpoints
    PROVE  NewestInv'
  <1>1. task["client"].at = "reloading" /\ IsTask(task["client"]) /\ table \in [Keys -> SUBSET Breaks]
    BY TasksAre DEF NewestInv, TypeOK, Tables, reapply_breakpoints, At
  <1>2. PICK k, s : k = task["client"].key /\ s = table[k]
    OBVIOUS
  <1>3. k \in Keys /\ s \in SUBSET Breaks
    BY <1>1, <1>2, TaskIs
  <1>4. Operate("client", k, s, TRUE) /\ UNCHANGED <<inprocess, backend, link, unread>>
    BY <1>2 DEF reapply_breakpoints
  <1> QED BY <1>1, <1>2, <1>3, <1>4, TasksAre, OperateKeeps

LEMMA ReloadKeeps ==
    ASSUME NewestInv, NEW f \in Files, reload_inprocess(f) \/ reload_via_external_backend(f)
    PROVE  NewestInv'
  <1>1. TypeOK /\ f \in Keys /\ task["client"] = Idle /\ "client" \in Tasks
    <2>1. TypeOK /\ f \in Keys /\ task["client"].at = "idle" /\ "client" \in Tasks
      BY KeysAre, TasksAre DEF NewestInv, reload_inprocess, reload_via_external_backend, StartReload, At
    <2>2. IsTask(task["client"])
      BY <2>1 DEF TypeOK
    <2>3. PICK r : r = task["client"]
      OBVIOUS
    <2> QED BY <2>1, <2>2, <2>3 DEF IsTask, Acting
  <1>2. table[f] \in SUBSET Breaks /\ unread \in Seq(Commands) /\ Idle.at = "idle"
    BY <1>1 DEF TypeOK, Tables, Idle
  <1>3. CASE reload_inprocess(f)
    <2>1. UNCHANGED <<inprocess, backend, link, unread>>
      BY <1>3 DEF reload_inprocess, connection
    <2>2. CASE Operate("client", f, table[f], TRUE)
      BY <1>1, <1>2, <2>1, <2>2, OperateKeeps
    <2>3. CASE UNCHANGED <<table, lifecycle, task, debuggee, history>>
      <3>1. UNCHANGED <<inprocess, backend, link, unread, table, lifecycle, task, debuggee, told, excused>>
        BY <2>1, <2>3 DEF history
      <3>2. TypeOK' /\ Exclusive'
        BY <3>1 DEF NewestInv, TypeOK, Exclusive
      <3>3. \A k \in Keys \ excused' : InStep(k)'
        BY <3>1 DEF NewestInv, InStep, Sent, Unsent
      <3> QED BY <3>2, <3>3 DEF NewestInv
    <2> QED BY <1>3, <2>2, <2>3 DEF reload_inprocess
  <1>4. CASE reload_via_external_backend(f)
    <2>1. PICK c, r, s : /\ s = table[f]
                         /\ c = [cmd |-> "hotReload", key |-> f, set |-> {}]
                         /\ r = [at |-> "reloading", key |-> f, set |-> s]
      OBVIOUS
    <2>2. c \in Commands /\ c.cmd = "hotReload"
      BY <1>1, <2>1 DEF Commands
    <2>3. IsTask(r) /\ r.at = "reloading"
      BY <1>1, <2>1 DEF IsTask
    <2>4. unread' = Append(unread, c) \/ unread' = unread
      BY <1>4, <2>1 DEF reload_via_external_backend, Delivered
    <2>5. unread' \in Seq(Commands)
      BY <1>2, <2>2, <2>4, AppendProperties
    <2>6. \A k \in Keys : Arrives(unread, debuggee[k], k, table[k])
                            => Arrives(unread', debuggee[k], k, table[k])
      BY <1>2, <2>2, <2>4, AppendArrives
    <2>7. /\ UNCHANGED <<inprocess, backend, lifecycle, table, link, debuggee, told, excused>>
          /\ ~inprocess /\ Go("client", r)
      BY <1>4, <2>1 DEF reload_via_external_backend, history
    <2> QED BY <1>1, <1>2, <2>3, <2>5, <2>6, <2>7, ElsewhereKeeps DEF NewestInv, TypeOK, Busy, Acting
  <1> QED BY <1>3, <1>4

\* The other request of the client, and a reload that failed.
LEMMA ClientKeeps ==
    ASSUME NewestInv, OtherOperation \/ FinishOther \/ ReloadFails
    PROVE  NewestInv'
  <1>1. UNCHANGED <<inprocess, backend, table, link, unread, debuggee, told, excused>>
    BY DEF OtherOperation, FinishOther, ReloadFails, connection, history
  <1>2. /\ unread \in Seq(Commands) /\ lifecycle \in {"ready", "busy", "error"}
        /\ inprocess => unread = <<>>
    BY DEF NewestInv, TypeOK, Exclusive
  <1>3. CASE OtherOperation
    <2>1. PICK r : r = [at |-> "other"]
      OBVIOUS
    <2>2. IsTask(r) /\ r.at = "other" /\ r.at \in Busy /\ r.at \notin Acting
      BY <2>1 DEF IsTask, Busy, Acting
    <2>3. Go("client", r) /\ task["client"].at = "idle" /\ lifecycle = "ready" /\ lifecycle' = "busy"
      BY <1>3, <2>1 DEF OtherOperation, At
    <2> QED BY <1>1, <1>2, <2>2, <2>3, ElsewhereKeeps DEF Acting
  <1>4. CASE FinishOther \/ ReloadFails
    <2>1. IsTask(Idle) /\ Idle.at \notin Busy /\ Idle.at \notin Acting
      BY DEF IsTask, Idle, Busy, Acting
    <2>2. /\ Go("client", Idle) /\ task["client"].at \notin Acting
          /\ lifecycle' = lifecycle \/ task["client"].at \in Busy
          /\ lifecycle' \in {"ready", "busy", "error"}
      BY <1>2, <1>4 DEF FinishOther, ReloadFails, At, Busy, Acting
    <2> QED BY <1>1, <1>2, <2>1, <2>2, ElsewhereKeeps
  <1> QED BY <1>3, <1>4

\* What the debuggee does, and what happens to the connection.
LEMMA OtherSideKeeps ==
    ASSUME NewestInv, \/ handle_set_breakpoints \/ cmd_hot_reload
                      \/ StartBackend \/ Connect \/ LoseLink
    PROVE  NewestInv'
  <1>1. CASE handle_set_breakpoints
    BY <1>1, ReadKeeps DEF handle_set_breakpoints, adapterVars, history
  <1>2. CASE cmd_hot_reload
    BY <1>2, ReadKeeps DEF cmd_hot_reload, adapterVars, history
  <1>3. CASE StartBackend
    <2>1. backend' \in BOOLEAN
      BY <1>3 DEF StartBackend
    <2>2. /\ UNCHANGED <<inprocess, lifecycle, table, debuggee, task, told, excused, unread, link>>
          /\ TypeOK /\ Exclusive /\ \A k \in Keys \ excused : InStep(k)
      BY <1>3 DEF StartBackend, connection, history, NewestInv
    <2>3. TypeOK' /\ Exclusive'
      BY <2>1, <2>2 DEF TypeOK, Exclusive
    <2>4. \A k \in Keys \ excused' : InStep(k)'
      BY <2>2 DEF InStep, Sent, Unsent
    <2> QED BY <2>3, <2>4 DEF NewestInv
  <1>4. CASE Connect
    BY <1>4, ConnectionStep DEF Connect, adapterVars, history, NewestInv, TypeOK
  <1>5. CASE LoseLink
    BY <1>5, ConnectionStep DEF LoseLink, adapterVars, history, NewestInv, TypeOK
  <1> QED BY <1>1, <1>2, <1>3, <1>4, <1>5

\* Between the adapter's table, the debuggee's and what was answered: the invariant the
\* operations of the two tasks, the reload and the connection keep.
THEOREM NewestInvariant == TablesSpec => []NewestInv
  <1>1. TablesInit => NewestInv
    <2> SUFFICES ASSUME TablesInit PROVE NewestInv
      OBVIOUS
    <2>1. TypeOK
      <3>1. unread \in Seq(Commands)
        BY EmptySeq DEF TablesInit
      <3>2. IsTask(Idle)
        BY DEF IsTask
      <3>3. task = [t \in Tasks |-> task[t]] /\ \A t \in Tasks : task[t] = Idle
        BY DEF TablesInit
      <3>4. table \in Tables /\ debuggee \in Tables /\ told \in Tables
        BY DEF TablesInit, Tables
      <3> QED BY <3>1, <3>2, <3>3, <3>4 DEF TablesInit, TypeOK
    <2>2. \A t \in Tasks : task[t].at = "idle"
      BY DEF TablesInit, Idle
    <2>3. Exclusive
      BY <2>2 DEF TablesInit, Exclusive, Acting
    <2>4. ASSUME NEW k \in Keys PROVE InStep(k)
      BY <2>2 DEF TablesInit, InStep, Arrives, Sets, Sent, Unsent, Acting
    <2> QED BY <2>1, <2>3, <2>4 DEF NewestInv
  <1>2. NewestInv /\ [TablesNext]_adapterTableVars => NewestInv'
    <2> SUFFICES ASSUME NewestInv, [TablesNext]_adapterTableVars PROVE NewestInv'
      OBVIOUS
    <2>1. ASSUME NEW t \in Tasks, Begin(t) PROVE task[t].at = "idle"
      BY <2>1 DEF Begin, At
    <2>2. ASSUME NEW t \in Tasks, NEW s \in SUBSET Breaks, NEW f \in Files, set_breakpoints(t, f, s)
          PROVE  NewestInv'
      BY <2>1, <2>2, KeysAre, OperateKeeps DEF set_breakpoints, connection
    <2>3. ASSUME NEW t \in Tasks, NEW s \in SUBSET Breaks, set_function_breakpoints(t, s)
          PROVE  NewestInv'
      BY <2>1, <2>3, KeysAre, OperateKeeps DEF set_function_breakpoints, connection
    <2>4. ASSUME NEW s \in SUBSET Breaks, set_exception_breakpoints(s) PROVE NewestInv'
      BY <2>1, <2>4, KeysAre, TasksAre, OperateKeeps DEF set_exception_breakpoints, connection
    <2>5. ASSUME NEW t \in Tasks, NEW s \in SUBSET Breaks,
                 handle_set_exception_breakpoints(s) \/ set_data_breakpoints(t, s)
          PROVE  NewestInv'
      BY <2>5, KeysAre, RecordOnlyKeeps DEF handle_set_exception_breakpoints, set_data_breakpoints
    <2>6. ASSUME NEW t \in Tasks, Fail(t) \/ Finish(t) PROVE NewestInv'
      BY <2>6, EndKeeps DEF Fail, Finish, At, Acting
    <2>7. CASE UNCHANGED adapterTableVars
      <3>1. UNCHANGED <<inprocess, backend, link, unread, table, lifecycle, task, debuggee, told, excused>>
        BY <2>7 DEF adapterTableVars, adapterVars, connection, history
      <3>2. TypeOK' /\ Exclusive'
        BY <3>1 DEF NewestInv, TypeOK, Exclusive
      <3>3. \A k \in Keys \ excused' : InStep(k)'
        BY <3>1 DEF NewestInv, InStep, Sent, Unsent
      <3> QED BY <3>2, <3>3 DEF NewestInv
    <2> QED BY <2>2, <2>3, <2>4, <2>5, <2>6, <2>7, SendCommandKeeps, SendSwallowedKeeps, TasksAre,
               ReapplyKeeps, ReloadKeeps, ClientKeeps, OtherSideKeeps DEF TablesNext
  <1> QED BY <1>1, <1>2, PTL DEF TablesSpec

\* Once everything that was sent has arrived, the debuggee stops where the last request that
\* was answered with success said, and the adapter's table says the same.
THEOREM NewestStandsAlways == TablesSpec => []NewestStands
  <1>1. NewestInv => NewestStands
    <2> SUFFICES ASSUME NewestInv, NEW k \in Keys \ excused, Settled(k)
                 PROVE  debuggee[k] = told[k] /\ table[k] = told[k]
      BY DEF NewestStands
    <2>1. ~Sent(k) /\ ~Unsent(k)
      BY DEF Settled, Sent, Unsent, Acting
    <2>2. told[k] = table[k] /\ Arrives(unread, debuggee[k], k, table[k])
      BY <2>1 DEF NewestInv, InStep, Settled
    <2>3. Sets(unread, k) = {}
      BY DEF Settled, Sets
    <2> QED BY <2>2, <2>3 DEF Arrives
  <1> QED BY <1>1, NewestInvariant, PTL

-----------------------------------------------------------------------------
(***************************************************************************)
(* The locals of frames and the functions of the module.  While the module *)
(* runs and until the walk comes to a frame, its local holds one of the    *)
(* functions that were collected; from then on, one of the new ones.       *)
(***************************************************************************)
\* The walk is at the frame.
Reading(frame) == f_locals # NoFrame /\ f_locals.frame = frame

\* The local holds what the reload can follow, or is bound to warn of.
Known(frame) == Current(local[frame], old) \/ Skipped(local[frame])

\* It holds a function of the module, or a closure of which a report says so.
Follows(frame, names) ==
    Current(local[frame], dict) \/ (Skipped(local[frame]) /\ local[frame].name \in names)

FollowInv ==
    /\ stage \in {"idle", "running", "walking"}
    /\ local = [frame \in LiveFrames |-> local[frame]]
    /\ stage # "walking" => f_locals = NoFrame
    /\ f_locals # NoFrame => f_locals.frame \in LiveFrames
    /\ \A frame \in LiveFrames \ missed :
          /\ stage = "idle" => Follows(frame, reported)
          /\ stage = "running" => Known(frame)
          /\ stage = "walking" =>
                /\ frame \in ahead \/ Reading(frame) => Known(frame)
                /\ frame \notin ahead /\ ~Reading(frame) => Follows(frame, warned)
                /\ Reading(frame) => frame \notin ahead /\ f_locals.value = local[frame]

\* What a statement may put in a local is of the module as it is.
LEMMA CurrentAtOnce ==
    ASSUME NEW f \in Assignable
    PROVE  Current(f, dict)
  <1>1. CASE f \in {NoFunction, Foreign} \union {dict[n] : n \in Names}
    BY <1>1 DEF Current
  <1>2. ASSUME NEW n \in Names, dict[n].kind = "plain", f = Copy(dict[n]) PROVE Current(f, dict)
    <2>1. dict[n] # NoFunction
      BY <1>2 DEF NoFunction, Function
    <2>2. f.kind = "copy" /\ f.name = dict[n].name /\ f.version = dict[n].version
      BY <1>2 DEF Copy, Function
    <2>3. Code(f) = Code(dict[n])
      BY <1>2, <2>2 DEF Code
    <2> QED BY <2>1, <2>2, <2>3 DEF Current
  <1> QED BY <1>1, <1>2 DEF Assignable

LEMMA LastIsOne ==
    ASSUME NEW S \in SUBSET Names, S # {}
    PROVE  LastOf(S) \in S
  <1>1. LastName \in Nat /\ \A n \in S : n \in Nat /\ LastName - n \in Nat
    BY ReloadAssumption DEF Names
  <1> DEFINE D == {LastName - n : n \in S}
  <1>2. D \in SUBSET Nat /\ D # {}
    BY <1>1
  <1>3. \E d \in D : \A e \in D : d <= e
    <2>1. PICK d \in D : \A e \in D : ~(<<e, d>> \in OpToRel(<, Nat))
      BY <1>2, NatLessThanWellFounded, WFMin, Zenon
    <2>2. \A e \in D : <<e, d>> \in Nat \X Nat
      BY <1>2
    <2>3. \A e \in D : ~(e < d)
      BY <2>1, <2>2 DEF OpToRel
    <2> QED BY <1>2, <2>3
  <1>4. PICK n \in S : \A m \in S : LastName - n <= LastName - m
    BY <1>3
  <1>5. \A m \in S : m <= n
    BY <1>1, <1>4
  <1> QED BY <1>5 DEF LastOf

\* What replaces a function is one the module has; only what it has already, or has no more
\* under any of the names, is not replaced.
LEMMA ReplacedByCurrent ==
    ASSUME NEW f, ~Skipped(f)
    PROVE  /\ Replacement(f) # NoFunction => Current(Replacement(f), dict)
           /\ Replacement(f) = NoFunction /\ ~Unfollowed(f) => Current(f, dict)
  <1> DEFINE map == build_rebind_map(old, dict)
             keys == {k \in {old[n] : n \in Names} \union {Code(old[n]) : n \in Names} :
                         Keyed(k, old, dict) # {}}
  <1>1. \A k : Keyed(k, old, dict) # {} => k \in DOMAIN map
    <2>1. DOMAIN map = keys
      BY DEF build_rebind_map
    <2>2. ASSUME NEW k, Keyed(k, old, dict) # {} PROVE k \in keys
      BY <2>2 DEF Keyed
    <2> QED BY <2>1, <2>2
  <1>2. ASSUME NEW k \in DOMAIN map
        PROVE  map[k] # NoFunction /\ Current(map[k], dict)
    <2>1. Keyed(k, old, dict) # {} /\ map[k] = dict[LastOf(Keyed(k, old, dict))]
      BY <1>2 DEF build_rebind_map
    <2>2. Keyed(k, old, dict) \in SUBSET Names
      BY DEF Keyed
    <2>3. PICK n : n = LastOf(Keyed(k, old, dict)) /\ n \in Keyed(k, old, dict)
      BY <2>1, <2>2, LastIsOne
    <2>4. n \in Names /\ dict[n] # NoFunction /\ map[k] = dict[n]
      BY <2>1, <2>3 DEF Keyed
    <2> QED BY <2>4 DEF Current
  <1> HIDE DEF map
  <1>3. Replacement(f) = _replacement_for_value(f, map)
    BY DEF Replacement, map
  <1>4. CASE f \in DOMAIN map
    BY <1>2, <1>3, <1>4 DEF _replacement_for_value
  <1>5. CASE f \notin DOMAIN map /\ f # NoFunction /\ Code(f) \in DOMAIN map
    BY <1>2, <1>3, <1>5 DEF _replacement_for_value
  <1>6. CASE f \notin DOMAIN map /\ ~(f # NoFunction /\ Code(f) \in DOMAIN map)
    <2>1. Replacement(f) = NoFunction
      BY <1>3, <1>6 DEF _replacement_for_value
    <2>2. f = NoFunction => Current(f, dict)
      BY DEF Current
    <2>3. f # NoFunction /\ ~Unfollowed(f) => Current(f, dict)
      BY <1>1, <1>6 DEF Unfollowed
    <2> QED BY <2>1, <2>2, <2>3
  <1> QED BY <1>4, <1>5, <1>6

LEMMA RebindKeeps ==
    ASSUME FollowInv, rebind_stack_frames
    PROVE  FollowInv'
  <1>1. PICK at, f : at = f_locals.frame /\ f = f_locals.value
    OBVIOUS
  <1>2. /\ f_locals # NoFrame /\ f_locals' = NoFrame /\ at \in LiveFrames /\ stage = "walking"
        /\ UNCHANGED <<dict, stage, old, ahead, reported>>
    BY <1>1 DEF FollowInv, rebind_stack_frames
  <1>3. /\ local' = IF Replacement(f) = NoFunction THEN local
                    ELSE [local EXCEPT ![at] = Replacement(f)]
        /\ warned' = IF Skipped(f) THEN warned \union {f.name} ELSE warned
        /\ missed' = IF Unfollowed(f) THEN missed \union {at} ELSE missed
    BY <1>1 DEF rebind_stack_frames
  <1>4. /\ local' = [frame \in LiveFrames |-> local'[frame]]
        /\ \A frame \in LiveFrames \ {at} : local'[frame] = local[frame]
        /\ local'[at] = IF Replacement(f) = NoFunction THEN local[at] ELSE Replacement(f)
    <2>1. local = [frame \in LiveFrames |-> local[frame]]
      BY DEF FollowInv
    <2>2. CASE Replacement(f) = NoFunction
      BY <1>3, <2>1, <2>2
    <2>3. CASE Replacement(f) # NoFunction
      <3>1. PICK r : r = Replacement(f)
        OBVIOUS
      <3>2. local' = [frame \in LiveFrames |-> IF frame = at THEN r ELSE local[frame]]
        BY <1>3, <2>1, <2>3, <3>1
      <3> QED BY <1>2, <2>3, <3>1, <3>2
    <2> QED BY <2>2, <2>3
  <1>5. warned \subseteq warned' /\ missed \subseteq missed'
    BY <1>3
  <1>6. ASSUME NEW frame \in LiveFrames \ missed', frame # at
        PROVE  /\ frame \in ahead' => Known(frame)'
               /\ frame \notin ahead' => Follows(frame, warned)'
    <2>1. frame \in LiveFrames \ missed /\ ~Reading(frame) /\ local'[frame] = local[frame]
      BY <1>1, <1>4, <1>5, <1>6 DEF Reading
    <2> QED BY <1>2, <1>5, <2>1 DEF FollowInv, Known, Follows, Current
  <1>7. ASSUME at \notin missed' PROVE at \notin ahead' /\ Follows(at, warned)'
    <2>1. at \in LiveFrames \ missed /\ Reading(at)
      BY <1>1, <1>2, <1>5, <1>7 DEF Reading
    <2>2. at \notin ahead /\ f = local[at] /\ Known(at)
      BY <1>1, <1>2, <2>1 DEF FollowInv
    <2>3. CASE Skipped(f)
      <3>1. Replacement(f) = NoFunction
        BY <2>3 DEF Replacement
      <3>2. local'[at] = f /\ f.name \in warned'
        BY <1>3, <1>4, <2>2, <2>3, <3>1
      <3> QED BY <1>2, <2>2, <2>3, <3>2 DEF Follows
    <2>4. CASE ~Skipped(f)
      <3>1. ~Unfollowed(f)
        BY <1>3, <1>7
      <3>2. Current(local'[at], dict)
        BY <1>4, <2>2, <2>4, <3>1, ReplacedByCurrent
      <3> QED BY <1>2, <2>2, <3>2 DEF Follows, Current
    <2> QED BY <2>3, <2>4
  <1>8. \A frame : ~Reading(frame)'
    BY <1>2 DEF Reading
  <1> QED BY <1>2, <1>4, <1>6, <1>7, <1>8 DEF FollowInv

\* Frames that the walk lists hold what was collected; the others are current, or left behind.
LEMMA WalkKeeps ==
    ASSUME FollowInv, NEW listed \in SUBSET LiveFrames, StartWalk(listed)
    PROVE  FollowInv'
  <1>0. PICK walked : walked = Walked(listed)
    OBVIOUS
  <1>1. /\ stage = "running" /\ stage' = "walking" /\ ahead' = walked /\ f_locals = NoFrame
        /\ missed' = missed \union {frame \in LiveFrames \ walked : ~Current(local[frame], dict)}
        /\ UNCHANGED <<local, dict, old, f_locals>>
    BY <1>0 DEF StartWalk, FollowInv
  <1>2. \A frame : ~Reading(frame)'
    BY <1>1 DEF Reading
  <1>3. ASSUME NEW frame \in LiveFrames \ missed'
        PROVE  /\ Known(frame)'
               /\ frame \notin ahead' => Follows(frame, warned)'
    <2>1. Known(frame)'
      BY <1>1, <1>3 DEF FollowInv, Known, Current
    <2>2. frame \notin ahead' => Current(local[frame], dict)
      BY <1>1, <1>3
    <2> QED BY <1>1, <2>1, <2>2 DEF Follows, Current
  <1> QED BY <1>1, <1>2, <1>3 DEF FollowInv

LEMMA ReadKeepsFollow ==
    ASSUME FollowInv, NEW at \in LiveFrames, ReadLocals(at)
    PROVE  FollowInv'
  <1>1. /\ stage = "walking" /\ f_locals = NoFrame /\ at \in ahead /\ ahead' = ahead \ {at}
        /\ f_locals' = [frame |-> at, value |-> local[at]]
        /\ UNCHANGED <<local, dict, old, stage, warned, missed, reported>>
    BY DEF ReadLocals
  <1>2. f_locals' # NoFrame
    <2>1. "value" \in DOMAIN f_locals' /\ "value" \notin DOMAIN NoFrame
      BY <1>1 DEF NoFrame
    <2> QED BY <2>1
  <1>3. f_locals'.frame = at /\ f_locals'.value = local[at]
    BY <1>1
  <1>4. \A frame : ~Reading(frame) /\ (Reading(frame)' <=> frame = at)
    BY <1>1, <1>2, <1>3 DEF Reading
  <1>5. \A frame : /\ Known(frame)' <=> Known(frame)
                   /\ Follows(frame, warned)' <=> Follows(frame, warned)
    BY <1>1 DEF Known, Follows, Current
  <1> QED BY <1>1, <1>2, <1>3, <1>4, <1>5 DEF FollowInv

LEMMA AssignKeeps ==
    ASSUME FollowInv, NEW at \in LiveFrames, Assign(at)
    PROVE  FollowInv'
  <1>1. PICK f \in Assignable : local' = [local EXCEPT ![at] = f]
    BY DEF Assign
  <1>2. /\ local' = [frame \in LiveFrames |-> local'[frame]]
        /\ \A frame \in LiveFrames \ {at} : local'[frame] = local[frame]
        /\ local'[at] = f
    <2>1. local = [frame \in LiveFrames |-> local[frame]]
      BY DEF FollowInv
    <2>2. local' = [frame \in LiveFrames |-> IF frame = at THEN f ELSE local[frame]]
      BY <1>1, <2>1
    <2> QED BY <2>2
  <1>3. UNCHANGED <<dict, stage, old, ahead, f_locals, warned, reported>>
    BY DEF Assign, walk
  <1>4. missed' = IF stage = "idle" THEN missed \ {at} ELSE missed \union {at}
    BY DEF Assign
  <1>5. Current(f, dict)
    BY CurrentAtOnce
  <1>6. ASSUME NEW frame \in LiveFrames \ missed', frame # at
        PROVE  /\ frame \in LiveFrames \ missed /\ local'[frame] = local[frame]
               /\ Known(frame)' <=> Known(frame)
               /\ Reading(frame)' <=> Reading(frame)
               /\ Follows(frame, warned)' <=> Follows(frame, warned)
               /\ Follows(frame, reported)' <=> Follows(frame, reported)
    BY <1>2, <1>3, <1>4, <1>6 DEF Known, Follows, Current, Reading
  <1>7. ASSUME at \notin missed' PROVE stage = "idle" /\ Follows(at, reported)'
    BY <1>2, <1>3, <1>4, <1>5, <1>7 DEF Follows, Current
  <1> QED BY <1>2, <1>3, <1>6, <1>7 DEF FollowInv

THEOREM FollowInvariant == ReloadSpec => []FollowInv
  <1>1. ReloadInit => FollowInv
    <2> SUFFICES ASSUME ReloadInit PROVE FollowInv
      OBVIOUS
    <2>1. local \in [LiveFrames -> Assignable]
      BY DEF ReloadInit
    <2>2. \A f \in Assignable : Current(f, dict)
      BY CurrentAtOnce
    <2>3. \A frame \in LiveFrames : Follows(frame, reported)
      BY <2>1, <2>2 DEF Follows
    <2> QED BY <2>1, <2>3 DEF ReloadInit, FollowInv
  <1>2. FollowInv /\ [ReloadNext]_reloadVars => FollowInv'
    <2> SUFFICES ASSUME FollowInv, [ReloadNext]_reloadVars PROVE FollowInv'
      OBVIOUS
    <2>1. CASE StartReloading
      <3>1. /\ stage = "idle" /\ stage' = "running" /\ old' = dict
            /\ UNCHANGED <<local, dict, f_locals, missed>>
        BY <2>1 DEF StartReloading, collect_module_functions, walk
      <3>2. ASSUME NEW frame \in LiveFrames \ missed' PROVE Known(frame)'
        BY <3>1, <3>2 DEF FollowInv, Follows, Known, Current
      <3> QED BY <3>1, <3>2 DEF FollowInv
    <2>2. ASSUME NEW n \in Names, RunStatement(n) PROVE FollowInv'
      <3>1. stage = "running" /\ UNCHANGED <<local, stage, old, f_locals, missed>>
        BY <2>2 DEF RunStatement, walk
      <3> QED BY <3>1 DEF FollowInv, Known, Current
    <2>3. CASE ModuleRaises
      <3>1. /\ stage = "running" /\ stage' = "idle"
            /\ missed' = missed \union {frame \in LiveFrames : ~Current(local[frame], dict)}
            /\ UNCHANGED <<local, dict, f_locals, reported>>
        BY <2>3 DEF ModuleRaises, walk
      <3>2. ASSUME NEW frame \in LiveFrames \ missed' PROVE Follows(frame, reported)'
        BY <3>1, <3>2 DEF Follows, Current
      <3> QED BY <3>1, <3>2 DEF FollowInv
    <2>4. CASE _get_all_frames \/ _iter_live_frames
      BY <2>4, WalkKeeps DEF _get_all_frames, _iter_live_frames
    <2>5. CASE FinishReload
      <3>1. /\ stage = "walking" /\ stage' = "idle" /\ ahead = {} /\ f_locals = NoFrame
            /\ reported' = warned /\ UNCHANGED <<local, dict, f_locals, missed>>
        BY <2>5 DEF FinishReload
      <3>2. ASSUME NEW frame \in LiveFrames \ missed' PROVE Follows(frame, reported)'
        BY <3>1, <3>2 DEF FollowInv, Reading, Follows, Current
      <3> QED BY <3>1, <3>2 DEF FollowInv
    <2>6. CASE UNCHANGED reloadVars
      BY <2>6 DEF reloadVars, walk, FollowInv, Reading, Known, Follows, Current
    <2> QED BY <2>1, <2>2, <2>3, <2>4, <2>5, <2>6, RebindKeeps, ReadKeepsFollow, AssignKeeps
            DEF ReloadNext, perform_reload, _perform_reload
  <1> QED BY <1>1, <1>2, PTL DEF ReloadSpec

\* After any number of reloads a frame's local holds no function that the module has
\* replaced, but for a closure that the last report warned of and the locals that a reload
\* could not follow (perform_reload, HotReloadService).
THEOREM FramesFollowAlways == ReloadSpec => []FramesFollow
  <1>1. FollowInv => FramesFollow
    BY DEF FollowInv, FramesFollow, Follows, Skipped, _is_closure, OfModule
  <1> QED BY <1>1, FollowInvariant, PTL

=============================================================================
