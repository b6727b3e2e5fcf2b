-------------------------- MODULE ProviderAdminProofs --------------------------
(***************************************************************************)
(* Theorems about ProviderAdmin, for every set of tasks, platforms, native *)
(* providers and base_urls, every catalog and every life of the cache.     *)
(***************************************************************************)
EXTENDS ProviderAdminProperties, TLAPS

-----------------------------------------------------------------------------
(* Types *)

\* What a task's local variables hold where they are used.
JobShape ==
  \A t \in Tasks :
    /\ pc[t] \in {"read", "write", "clear"} /\ job[t].op # "sync" =>
         job[t].target \in Ids
    /\ pc[t] = "refresh" => job[t].target \in Ids
    /\ pc[t] = "write" /\ job[t].op \in {"update", "toggle"} =>
         job[t].seen[job[t].target] \in Rows

TInv == TypeOK /\ JobShape

\* The actions that commit.
Edit(t) == Create(t) \/ Update(t) \/ Delete(t) \/ Sync(t)

\* The local variables of a call that has not begun.
LEMMA NoJobType == NoJob \in Jobs /\ Nothing \in [Ids -> Rows \cup {NoRow}]
BY DEF NoJob, Jobs, Nothing

\* A query changes the rows the task has seen and nothing else.
LEMMA SeesType ==
  ASSUME TypeOK, NEW t \in Tasks, NEW rows \in [Ids -> Rows \cup {NoRow}], Sees(t, rows)
  PROVE  /\ job' \in [Tasks -> Jobs]
         /\ job'[t] = [job[t] EXCEPT !.seen = rows]
         /\ \A u \in Tasks \ {t} : job'[u] = job[u]
BY ZenonT(40) DEF TypeOK, Sees, Jobs

\* A call that ends leaves no local variables.
LEMMA EndType ==
  ASSUME TypeOK, NEW t \in Tasks, End(t)
  PROVE  /\ job' \in [Tasks -> Jobs]
         /\ job'[t] = NoJob
         /\ pc' = [pc EXCEPT ![t] = "done"]
BY NoJobType DEF TypeOK, End, Goto

\* Within a call the operation and the platform stay the same.
LEMMA JobMoves ==
  ASSUME TypeOK, NEW t \in Tasks,
         \/ UNCHANGED job
         \/ End(t)
         \/ \E rows \in [Ids -> Rows \cup {NoRow}] : Sees(t, rows)
  PROVE  /\ job' \in [Tasks -> Jobs]
         /\ \A u \in Tasks \ {t} : job'[u] = job[u]
         /\ \/ pc'[t] = "done" /\ job'[t] = NoJob
            \/ job'[t].op = job[t].op /\ job'[t].target = job[t].target
<1>1. CASE UNCHANGED job
  BY <1>1 DEF TypeOK
<1>2. CASE End(t)
  BY <1>2, NoJobType DEF TypeOK, End, Goto
<1>3. ASSUME NEW rows \in [Ids -> Rows \cup {NoRow}], Sees(t, rows)
      PROVE  /\ job' \in [Tasks -> Jobs]
             /\ \A u \in Tasks \ {t} : job'[u] = job[u]
             /\ job'[t].op = job[t].op /\ job'[t].target = job[t].target
  <2>1. job[t] \in Jobs
    BY DEF TypeOK
  <2> QED BY <1>3, <2>1, SeesType, ZenonT(40) DEF Jobs
<1> QED BY <1>1, <1>2, <1>3

\* The history of rows that were replaced.
LEMMA RewriteFacts ==
  ASSUME TypeOK, NEW rows \in [Ids -> Rows \cup {NoRow}], Rewrite(rows)
  PROVE  /\ table' = rows
         /\ left' \in [Ids -> [Rows -> Nat]]
         /\ \A p \in Ids, row \in Rows :
              /\ table[p] = row => table'[p] = row \/ left'[p][row] = now
              /\ table[p] # row => left'[p][row] = left[p][row]
BY DEF TypeOK, Rewrite

\* What an update or a toggle writes is a row.
LEMMA WrittenType ==
  ASSUME TInv, NEW t \in Tasks, pc[t] = "write", job[t].op \in {"update", "toggle"},
         table[job[t].target] # NoRow
  PROVE  Written(t) \subseteq Rows
<1> DEFINE p == job[t].target
           was == job[t].seen[p]
<1>1. p \in Ids /\ was \in Rows
  BY DEF TInv, JobShape
<1>2. table[p] \in Rows
  BY <1>1 DEF TInv, TypeOK
<1>3. was.enabled \in BOOLEAN /\ table[p].enabled \in BOOLEAN /\ table[p].url \in Urls \cup {NoUrl}
  BY <1>1, <1>2 DEF Rows
<1>4. CASE job[t].op = "toggle"
  <2>1. [table[p] EXCEPT !.enabled = ~was.enabled] \in Rows
    BY <1>2, <1>3 DEF Rows
  <2> QED BY <1>4, <2>1 DEF Written
<1>5. CASE job[t].op # "toggle"
  BY <1>3, <1>5 DEF Written, Rows
<1> QED BY <1>4, <1>5

\* The type invariant with the shape of the local variables is inductive.
THEOREM TypeInductive == Spec => []TInv
<1> USE AdminAssumption
<1>1. Init => TInv
  <2> SUFFICES ASSUME Init PROVE TInv
    OBVIOUS
  <2>1. providers \in [Ids -> Urls \cup {NoUrl}]
    BY DEF Init, Loadable, Rows
  <2> QED BY <2>1, NoJobType DEF Init, TInv, TypeOK, JobShape, Phases, Nothing
<1>2. TInv /\ [Next]_vars => TInv'
  <2> SUFFICES ASSUME TInv, [Next]_vars PROVE TInv'
    OBVIOUS
  <2> USE DEF TInv
  <2>1. CASE UNCHANGED vars
    BY <2>1 DEF vars, caches, loaded, time, TypeOK, JobShape
  <2>2. ASSUME NEW t \in Tasks, NEW p \in Ids \cup {NoId}, Ask(t, p) PROVE TInv'
    <3>1. [NoJob EXCEPT !.op = "get", !.target = p, !.asked = now] \in Jobs
      BY NoJobType DEF TypeOK, Jobs, Operations
    <3>2. job' \in [Tasks -> Jobs] /\ \A u \in Tasks \ {t} : job'[u] = job[u]
      BY <2>2, <3>1 DEF Ask, TypeOK
    <3>3. pc' \in [Tasks -> Phases] /\ pc'[t] \in {"done", "query"}
          /\ \A u \in Tasks \ {t} : pc'[u] = pc[u]
      BY <2>2 DEF Ask, TypeOK, Goto, Phases
    <3>4. TypeOK'
      BY <2>2, <3>2, <3>3 DEF Ask, TypeOK, caches, loaded, time
    <3>5. JobShape'
      BY <3>2, <3>3 DEF JobShape
    <3> QED BY <3>4, <3>5
  <2>3. ASSUME NEW t \in Tasks, BeginChange(t) PROVE TInv'
    <3>1. PICK o \in Operations \ {"get"}, p \in Ids \cup {NoId} :
            Begin(t, o, p) /\ (o # "sync" => p \in Ids)
      BY <2>3 DEF BeginChange, Operations
    <3>2. [NoJob EXCEPT !.op = o, !.target = p] \in Jobs
      BY NoJobType DEF Jobs, Operations
    <3>3. job' \in [Tasks -> Jobs] /\ \A u \in Tasks \ {t} : job'[u] = job[u]
      BY <3>1, <3>2 DEF Begin, TypeOK
    <3>4. job'[t].op = o /\ job'[t].target = p
      BY <3>1, NoJobType DEF Begin, TypeOK, Jobs
    <3>5. /\ pc' \in [Tasks -> Phases]
          /\ pc'[t] \in {"read", "write"} /\ (pc'[t] = "write" => o = "create")
          /\ \A u \in Tasks \ {t} : pc'[u] = pc[u]
      BY <3>1 DEF Begin, TypeOK, Goto, Phases
    <3>6. TypeOK'
      BY <3>1, <3>3, <3>5 DEF Begin, TypeOK, caches, loaded, time
    <3>7. JobShape'
      BY <3>1, <3>3, <3>4, <3>5 DEF JobShape
    <3> QED BY <3>6, <3>7
  <2>4. ASSUME NEW t \in Tasks,
               ReadRow(t) \/ CallFails(t) \/ ReadAll(t) \/ SyncFails(t)
        PROVE  TInv'
    <3>1. job' \in [Tasks -> Jobs] /\ \A u \in Tasks \ {t} : job'[u] = job[u]
      <4>1. [Nothing EXCEPT ![job[t].target] = table[job[t].target]] \in [Ids -> Rows \cup {NoRow}]
        BY NoJobType DEF TypeOK
      <4>2. table \in [Ids -> Rows \cup {NoRow}]
        BY DEF TypeOK
      <4>3. End(t) \/ \E rows \in [Ids -> Rows \cup {NoRow}] : Sees(t, rows)
        BY <2>4, <4>1, <4>2, NoJobType DEF ReadRow, CallFails, ReadAll, SyncFails
      <4> QED BY <4>3, JobMoves
    <3>2. pc' \in [Tasks -> Phases] /\ \A u \in Tasks \ {t} : pc'[u] = pc[u]
      BY <2>4 DEF ReadRow, CallFails, ReadAll, SyncFails, TypeOK, End, Goto, Phases
    <3>3. TypeOK'
      BY <2>4, <3>1, <3>2 DEF ReadRow, CallFails, ReadAll, SyncFails, TypeOK, caches, loaded, time
    <3>4. \/ pc'[t] = "done"
          \/ pc'[t] \in {"write", "clear"} /\ job'[t].op = "sync"
          \/ /\ pc'[t] = "write" /\ job'[t].op # "sync" /\ job'[t].target \in Ids
             /\ job'[t].seen[job'[t].target] \in Rows
      <4>1. CASE ReadRow(t)
        <5>1. job[t].target \in Ids
          BY <4>1 DEF ReadRow, JobShape
        <5>2. CASE table[job[t].target] = NoRow
          BY <4>1, <5>2 DEF ReadRow, End, Goto, TypeOK
        <5>3. CASE table[job[t].target] # NoRow
          <6>1. table[job[t].target] \in Rows
            BY <5>1, <5>3 DEF TypeOK
          <6>2. [Nothing EXCEPT ![job[t].target] = table[job[t].target]] \in [Ids -> Rows \cup {NoRow}]
            BY NoJobType, <6>1
          <6>3. job'[t] = [job[t] EXCEPT !.seen = [Nothing EXCEPT ![job[t].target] = table[job[t].target]]]
            BY <4>1, <5>3, <6>2, SeesType DEF ReadRow
          <6>4. job'[t].op = job[t].op /\ job'[t].target = job[t].target
                /\ job'[t].seen[job[t].target] = table[job[t].target]
            BY <6>3, <5>1, NoJobType DEF TypeOK, Jobs
          <6> QED BY <4>1, <5>1, <5>3, <6>1, <6>4 DEF ReadRow, Goto, TypeOK
        <5> QED BY <5>2, <5>3
      <4>2. CASE CallFails(t)
        BY <4>2 DEF CallFails, End, Goto, TypeOK
      <4>3. CASE ReadAll(t) \/ SyncFails(t)
        <5>1. /\ job[t].op = "sync" /\ pc'[t] \in {"write", "clear", "done"}
              /\ End(t) \/ Sees(t, Nothing) \/ Sees(t, table)
          BY <4>3 DEF ReadAll, SyncFails, End, Goto, TypeOK
        <5>2. table \in [Ids -> Rows \cup {NoRow}]
          BY DEF TypeOK
        <5>3. pc'[t] # "done" => job'[t].op = job[t].op
          BY <5>1, <5>2, NoJobType, JobMoves
        <5> QED BY <5>1, <5>3
      <4> QED BY <2>4, <4>1, <4>2, <4>3
    <3>5. JobShape'
      BY <3>1, <3>2, <3>4 DEF JobShape
    <3> QED BY <3>3, <3>5
  <2>5. ASSUME NEW t \in Tasks, Edit(t) PROVE TInv'
    <3>1. /\ job' \in [Tasks -> Jobs] /\ \A u \in Tasks \ {t} : job'[u] = job[u]
          /\ pc'[t] # "done" => job'[t].op = job[t].op /\ job'[t].target = job[t].target
      <4>1. UNCHANGED job \/ End(t) \/ Sees(t, Nothing)
        BY <2>5 DEF Edit, Create, Update, Delete, Sync
      <4> QED BY <4>1, NoJobType, JobMoves
    <3>2. pc' \in [Tasks -> Phases] /\ pc'[t] \in {"done", "refresh", "clear"}
          /\ \A u \in Tasks \ {t} : pc'[u] = pc[u]
      BY <2>5 DEF Edit, Create, Update, Delete, Sync, TypeOK, End, Goto, Phases
    <3>3. table' \in [Ids -> Rows \cup {NoRow}] /\ left' \in [Ids -> [Rows -> Nat]]
      <4>1. CASE UNCHANGED <<table, left>>
        BY <4>1 DEF TypeOK
      <4>2. CASE \E rows \in [Ids -> Rows \cup {NoRow}] : Rewrite(rows)
        BY <4>2, RewriteFacts
      <4>3. ASSUME ~UNCHANGED <<table, left>>
            PROVE  \E rows \in [Ids -> Rows \cup {NoRow}] : Rewrite(rows)
        <5>1. CASE Create(t)
          BY <4>3, <5>1 DEF Create, TypeOK
        <5>2. CASE Update(t)
          <6>1. /\ pc[t] = "write" /\ job[t].op \in {"update", "toggle"}
                /\ table[job[t].target] # NoRow
                /\ \E row \in Written(t) : Rewrite([table EXCEPT ![job[t].target] = row])
            BY <4>3, <5>2 DEF Update
          <6>2. Written(t) \subseteq Rows
            BY <6>1, WrittenType
          <6> QED BY <6>1, <6>2 DEF TypeOK
        <5>3. CASE Delete(t)
          BY <5>3 DEF Delete, TypeOK
        <5>4. CASE Sync(t)
          BY <5>4 DEF Sync
        <5> QED BY <2>5, <5>1, <5>2, <5>3, <5>4 DEF Edit
      <4> QED BY <4>1, <4>2, <4>3
    <3>4. TypeOK'
      <4>1. UNCHANGED <<caches, loaded, now>>
        BY <2>5 DEF Edit, Create, Update, Delete, Sync
      <4> QED BY <3>1, <3>2, <3>3, <4>1 DEF TypeOK, caches, loaded
    <3>5. job[t].op # "sync" => job[t].target \in Ids
      BY <2>5 DEF Edit, Create, Update, Delete, Sync, JobShape
    <3>6. pc'[t] = "refresh" => job[t].op # "sync"
      BY <2>5 DEF Edit, Create, Update, Delete, Sync, TypeOK, End, Goto
    <3>7. JobShape'
      BY <3>1, <3>2, <3>5, <3>6 DEF JobShape
    <3> QED BY <3>4, <3>7
  <2>6. ASSUME NEW t \in Tasks, Refresh(t) PROVE TInv'
    <3>1. /\ job' \in [Tasks -> Jobs] /\ \A u \in Tasks \ {t} : job'[u] = job[u]
          /\ pc'[t] # "done" => job'[t] = job[t]
      BY <2>6, EndType, NoJobType DEF Refresh, TypeOK, End
    <3>2. pc' \in [Tasks -> Phases] /\ pc'[t] \in {"done", "clear"}
          /\ \A u \in Tasks \ {t} : pc'[u] = pc[u]
      BY <2>6 DEF Refresh, TypeOK, End, Goto, Phases
    <3>3. missed' \subseteq Ids
      BY <2>6 DEF Refresh, JobShape, TypeOK
    <3>4. TypeOK'
      BY <2>6, <3>1, <3>2, <3>3 DEF Refresh, TypeOK, caches, time
    <3>5. JobShape'
      BY <2>6, <3>1, <3>2 DEF Refresh, JobShape
    <3> QED BY <3>4, <3>5
  <2>7. ASSUME NEW t \in Tasks, Clear(t) \/ Load(t) \/ LoadFails(t) \/ Fill(t) PROVE TInv'
    <3>1. job' \in [Tasks -> Jobs] /\ \A u \in Tasks \ {t} : job'[u] = job[u]
      <4>1. UNCHANGED job \/ End(t) \/ Sees(t, table)
        BY <2>7 DEF Clear, Load, LoadFails, Fill
      <4>2. table \in [Ids -> Rows \cup {NoRow}]
        BY DEF TypeOK
      <4> QED BY <4>1, <4>2, JobMoves
    <3>2. pc' \in [Tasks -> Phases] /\ pc'[t] \in {"load", "fill", "done"}
          /\ \A u \in Tasks \ {t} : pc'[u] = pc[u]
      BY <2>7 DEF Clear, Load, LoadFails, Fill, TypeOK, End, Goto, Phases
    <3>3. providers' \in [Ids -> Urls \cup {NoUrl}]
      <4>1. CASE Fill(t)
        <5>1. job[t].seen \in [Ids -> Rows \cup {NoRow}]
          BY DEF TypeOK, Jobs
        <5>2. \A p \in Ids : Loadable(job[t].seen[p]) => job[t].seen[p].url \in Urls \cup {NoUrl}
          BY <5>1 DEF Loadable, Rows
        <5> QED BY <4>1, <5>2 DEF Fill, Filled, TypeOK
      <4>2. CASE ~Fill(t)
        BY <2>7, <4>2 DEF Clear, Load, LoadFails, TypeOK, loaded
      <4> QED BY <4>1, <4>2
    <3>4. /\ clearer' \in Tasks \cup {NoTask} /\ loadLost' \in BOOLEAN
          /\ cache' \in [Ids -> Rows \cup {NoRow}] /\ expiry' \in Nat
      <4>1. CASE Clear(t)
        <5>1. cache' \in [Ids -> Rows \cup {NoRow}] /\ expiry' \in Nat
          BY <4>1, NoJobType DEF Clear, TypeOK, caches
        <5> QED BY <4>1, <5>1 DEF Clear
      <4>2. CASE Load(t)
        BY <4>2 DEF Load, TypeOK, loaded, caches
      <4>3. CASE LoadFails(t)
        <5>1. loadLost' \in BOOLEAN
          BY <4>3, ZenonT(30) DEF LoadFails
        <5> QED BY <4>3, <5>1 DEF LoadFails, TypeOK, NoLongerClearer, caches
      <4>4. CASE Fill(t)
        BY <4>4 DEF Fill, TypeOK, NoLongerClearer, caches
      <4> QED BY <2>7, <4>1, <4>2, <4>3, <4>4
    <3>5. missed' \subseteq Ids
      BY <2>7 DEF Clear, Load, LoadFails, Fill, TypeOK, loaded
    <3>6. TypeOK'
      BY <2>7, <3>1, <3>2, <3>3, <3>4, <3>5 DEF Clear, Load, LoadFails, Fill, TypeOK, time
    <3>7. JobShape'
      BY <3>1, <3>2 DEF JobShape
    <3> QED BY <3>6, <3>7
  <2>8. ASSUME NEW t \in Tasks, Query(t) \/ Store(t) \/ Answer(t) PROVE TInv'
    <3>1. job' \in [Tasks -> Jobs] /\ \A u \in Tasks \ {t} : job'[u] = job[u]
      <4>1. End(t) \/ Sees(t, Nothing) \/ Sees(t, table)
        BY <2>8 DEF Query, Store, Answer
      <4>2. table \in [Ids -> Rows \cup {NoRow}]
        BY DEF TypeOK
      <4> QED BY <4>1, <4>2, NoJobType, JobMoves
    <3>2. pc' \in [Tasks -> Phases] /\ pc'[t] \in {"store", "answer", "done"}
          /\ \A u \in Tasks \ {t} : pc'[u] = pc[u]
      BY <2>8 DEF Query, Store, Answer, TypeOK, End, Goto, Phases
    <3>3. cache' \in [Ids -> Rows \cup {NoRow}] /\ expiry' \in Nat
      <4>1. job[t].seen \in [Ids -> Rows \cup {NoRow}] /\ job[t].asked \in Nat
        BY DEF TypeOK, Jobs
      <4> QED BY <2>8, <4>1 DEF Query, Store, Answer, ExpiryOf, TypeOK, caches
    <3>4. TypeOK'
      BY <2>8, <3>1, <3>2, <3>3 DEF Query, Store, Answer, TypeOK, loaded, time
    <3>5. JobShape'
      BY <3>1, <3>2 DEF JobShape
    <3> QED BY <3>4, <3>5
  <2>9. ASSUME Tick PROVE TInv'
    BY <2>9 DEF Tick, TypeOK, JobShape, caches, loaded
  <2> QED BY <2>1, <2>2, <2>3, <2>4, <2>5, <2>6, <2>7, <2>8, <2>9 DEF Next, Edit
<1> QED BY <1>1, <1>2, PTL DEF Spec

\* Every variable of ProviderAdmin keeps its type.
THEOREM AdminTypeCorrect == Spec => []TypeOK
BY TypeInductive, PTL DEF TInv

-----------------------------------------------------------------------------
(* Frames of the actions *)

Watch(t) ==
  \/ \E p \in Ids \cup {NoId} : Ask(t, p)
  \/ BeginChange(t) \/ ReadRow(t) \/ CallFails(t) \/ ReadAll(t) \/ SyncFails(t)
  \/ Query(t) \/ Store(t) \/ Answer(t)

Reload(t) == Refresh(t) \/ Clear(t) \/ Load(t) \/ LoadFails(t) \/ Fill(t)

\* A step watches, commits, reloads, or is one of the clock.
LEMMA NextCases ==
  ASSUME [Next]_vars
  PROVE  (\E t \in Tasks : Watch(t) \/ Edit(t) \/ Reload(t)) \/ Tick \/ UNCHANGED vars
BY DEF Next, Watch, Edit, Reload

\* Reading and caching leave the table and the registry alone.
LEMMA WatchFrame ==
  ASSUME TypeOK, NEW t \in Tasks, Watch(t)
  PROVE  /\ UNCHANGED <<table, loaded, time>>
         /\ pc[t] \in {"idle", "read", "write", "query", "store", "answer"}
         /\ \A u \in Tasks \ {t} : pc'[u] = pc[u] /\ job'[u] = job[u]
<1>1. ASSUME NEW p \in Ids \cup {NoId}, Ask(t, p)
      PROVE  /\ UNCHANGED <<table, loaded, time>> /\ pc[t] = "idle"
             /\ \A u \in Tasks \ {t} : pc'[u] = pc[u] /\ job'[u] = job[u]
  BY <1>1 DEF Ask, Goto, TypeOK
<1>2. ASSUME NEW o, NEW p, Begin(t, o, p)
      PROVE  /\ UNCHANGED <<table, loaded, time>> /\ pc[t] = "idle"
             /\ \A u \in Tasks \ {t} : pc'[u] = pc[u] /\ job'[u] = job[u]
  BY <1>2 DEF Begin, Goto, TypeOK
<1>3. CASE BeginChange(t)
  BY <1>2, <1>3 DEF BeginChange
<1>4. CASE ReadRow(t) \/ CallFails(t) \/ ReadAll(t) \/ SyncFails(t) \/ Query(t) \/ Store(t) \/ Answer(t)
  <2>1. UNCHANGED <<table, loaded, time>>
    BY <1>4 DEF ReadRow, CallFails, ReadAll, SyncFails, Query, Store, Answer
  <2>2. pc[t] \in {"idle", "read", "write", "query", "store", "answer"}
    BY <1>4 DEF ReadRow, CallFails, ReadAll, SyncFails, Query, Store, Answer
  <2>3. /\ \E phase : pc' = [pc EXCEPT ![t] = phase]
        /\ \E j : job' = [job EXCEPT ![t] = j]
    <3>1. (\E phase : Goto(t, phase)) /\ ((\E rows : Sees(t, rows)) \/ End(t))
      BY <1>4 DEF ReadRow, CallFails, ReadAll, SyncFails, Query, Store, Answer, End
    <3> QED BY <3>1 DEF Goto, Sees, End
  <2> QED BY <2>1, <2>2, <2>3 DEF TypeOK
<1> QED BY <1>1, <1>3, <1>4 DEF Watch

\* A commit leaves the cache and the registry alone.
LEMMA EditFrame ==
  ASSUME TypeOK, NEW t \in Tasks, Edit(t)
  PROVE  /\ UNCHANGED <<caches, loaded, now>>
         /\ pc[t] = "write"
         /\ \A u \in Tasks \ {t} : pc'[u] = pc[u] /\ job'[u] = job[u]
<1>1. UNCHANGED <<caches, loaded, now>> /\ pc[t] = "write"
  BY DEF Edit, Create, Update, Delete, Sync
<1>2. /\ \E phase : Goto(t, phase)
      /\ UNCHANGED job \/ End(t) \/ Sees(t, Nothing)
  BY DEF Edit, Create, Update, Delete, Sync, End
<1> QED BY <1>1, <1>2, NoJobType, JobMoves DEF Goto, TypeOK

\* A reload leaves the table alone.
LEMMA ReloadFrame ==
  ASSUME TypeOK, NEW t \in Tasks, Reload(t)
  PROVE  /\ UNCHANGED <<table, time>>
         /\ pc[t] \in Reloading
         /\ \A u \in Tasks \ {t} : pc'[u] = pc[u] /\ job'[u] = job[u]
<1>1. UNCHANGED <<table, time>> /\ pc[t] \in Reloading
  BY DEF Reload, Refresh, Clear, Load, LoadFails, Fill, Reloading
<1>2. /\ \E phase : Goto(t, phase)
      /\ UNCHANGED job \/ End(t) \/ Sees(t, table)
  BY DEF Reload, Refresh, Clear, Load, LoadFails, Fill, End
<1>3. table \in [Ids -> Rows \cup {NoRow}]
  BY DEF TypeOK
<1> QED BY <1>1, <1>2, <1>3, JobMoves DEF Goto, TypeOK

\* What an edit makes of the rows, and where it goes.
LEMMA EditRows ==
  ASSUME TInv, NEW t \in Tasks, Edit(t)
  PROVE  /\ UNCHANGED <<table, left>>
              \/ \E rows \in [Ids -> Rows \cup {NoRow}] : Rewrite(rows)
         /\ \A p \in Ids :
              \/ table'[p] = table[p]
              \/ table'[p] = NoRow
              \/ pc'[t] = "refresh" /\ job'[t].target = p
              \/ pc'[t] = "clear" /\ job'[t].op = "sync"
<1> USE DEF TInv
<1>1. CASE Create(t)
  <2>1. CASE UNCHANGED <<table, left>>
    BY <2>1
  <2>2. CASE ~UNCHANGED <<table, left>>
    <3>1. PICK row \in Rows : Rewrite([table EXCEPT ![job[t].target] = row])
      BY <1>1, <2>2 DEF Create
    <3>2. pc'[t] = "refresh" /\ UNCHANGED job
      BY <1>1, <2>2 DEF Create, Goto, TypeOK
    <3> QED BY <3>1, <3>2 DEF Rewrite, TypeOK
  <2> QED BY <2>1, <2>2
<1>2. CASE Update(t)
  <2>1. CASE UNCHANGED <<table, left>>
    BY <2>1
  <2>2. CASE ~UNCHANGED <<table, left>>
    <3>1. /\ pc[t] = "write" /\ job[t].op \in {"update", "toggle"}
          /\ table[job[t].target] # NoRow
          /\ \E row \in Written(t) : Rewrite([table EXCEPT ![job[t].target] = row])
          /\ pc' = [pc EXCEPT ![t] = "refresh"] /\ Sees(t, Nothing)
      BY <1>2, <2>2 DEF Update, Goto
    <3>2. Written(t) \subseteq Rows
      BY <3>1, WrittenType
    <3>3. PICK row \in Rows : Rewrite([table EXCEPT ![job[t].target] = row])
      BY <3>1, <3>2
    <3>4. job'[t].target = job[t].target /\ pc'[t] = "refresh"
      BY <3>1, NoJobType, JobMoves DEF TypeOK
    <3> QED BY <3>3, <3>4, ZenonT(40) DEF Rewrite, TypeOK
  <2> QED BY <2>1, <2>2
<1>3. CASE Delete(t)
  BY <1>3 DEF Delete, Rewrite, TypeOK
<1>4. CASE Sync(t)
  <2>1. pc'[t] = "clear" /\ Sees(t, Nothing) /\ job[t].op = "sync"
    BY <1>4 DEF Sync, Goto, TypeOK
  <2>2. job'[t].op = "sync"
    BY <2>1, NoJobType, JobMoves
  <2> QED BY <1>4, <2>1, <2>2 DEF Sync
<1> QED BY <1>1, <1>2, <1>3, <1>4 DEF Edit

-----------------------------------------------------------------------------
(* EnabledRoutable *)

\* Task t will yet bring platform p into the registry: it has committed the row and
\* not yet reloaded, or it is the one that cleared the registry last and its load is
\* still to be made, or has returned the row.
Covers(t, p) ==
  \/ pc[t] = "refresh" /\ job[t].target = p
  \/ pc[t] = "clear" /\ (job[t].op = "sync" \/ job[t].target = p)
  \/ pc[t] = "load" /\ clearer = t
  \/ pc[t] = "fill" /\ clearer = t /\ Loadable(job[t].seen[p])

RoutableInv ==
  ~loadLost =>
    \A p \in Ids \ (Native \cup missed) :
      Loadable(table[p]) /\ providers[p] = NoUrl => \E t \in Tasks : Covers(t, p)

\* A task that covers a platform goes on covering it while it is not the one to step.
LEMMA CoverKept ==
  ASSUME NEW t \in Tasks, NEW u \in Tasks \ {t}, NEW p, Covers(u, p),
         pc'[u] = pc[u], job'[u] = job[u], clearer = u => clearer' = u
  PROVE  Covers(u, p)'
BY DEF Covers, Loadable

\* Overlapping reloads of the registry never leave an enabled platform without its
\* provider: some task that will still load it covers each one that is missing.
THEOREM EnabledRoutableAlways == Spec => []EnabledRoutable
<1> USE AdminAssumption
<1>1. Init => RoutableInv
  BY DEF Init, RoutableInv, Loadable
<1>2. TInv /\ RoutableInv /\ [Next]_vars => RoutableInv'
  <2> SUFFICES ASSUME TInv, RoutableInv, [Next]_vars,
                      ~loadLost', NEW p \in Ids \ Native, p \notin missed',
                      Loadable(table'[p]), providers'[p] = NoUrl
               PROVE  \E u \in Tasks : Covers(u, p)'
    BY DEF RoutableInv, Loadable
  <2> USE DEF TInv
  <2>1. ASSUME NEW t \in Tasks, Watch(t) PROVE \E u \in Tasks : Covers(u, p)'
    <3>1. PICK u \in Tasks : Covers(u, p)
      BY <2>1, WatchFrame DEF RoutableInv, loaded
    <3>2. u # t
      BY <2>1, <3>1, WatchFrame DEF Covers
    <3> QED BY <2>1, <3>1, <3>2, WatchFrame, CoverKept DEF loaded
  <2>2. ASSUME NEW t \in Tasks, Edit(t) PROVE \E u \in Tasks : Covers(u, p)'
    <3>1. CASE table'[p] = table[p]
      <4>1. PICK u \in Tasks : Covers(u, p)
        BY <2>2, <3>1, EditFrame DEF RoutableInv, loaded
      <4>2. u # t
        BY <2>2, <4>1, EditFrame DEF Covers
      <4> QED BY <2>2, <4>1, <4>2, EditFrame, CoverKept DEF loaded
    <3>2. CASE table'[p] # table[p]
      <4>1. \/ pc'[t] = "refresh" /\ job'[t].target = p
            \/ pc'[t] = "clear" /\ job'[t].op = "sync"
        BY <2>2, <3>2, EditRows DEF Loadable
      <4> QED BY <4>1 DEF Covers
    <3> QED BY <3>1, <3>2
  <2>3. ASSUME NEW t \in Tasks, Clear(t) PROVE \E u \in Tasks : Covers(u, p)'
    BY <2>3 DEF Clear, Goto, Covers, TypeOK
  <2>4. ASSUME NEW t \in Tasks, Reload(t), ~Clear(t) PROVE \E u \in Tasks : Covers(u, p)'
    <3>1. ~loadLost /\ providers[p] = NoUrl /\ p \notin missed
      <4>1. CASE Fill(t)
        BY <4>1 DEF Fill, Filled, Loadable, TypeOK
      <4>2. CASE Refresh(t) \/ Load(t)
        BY <4>2 DEF Refresh, Load, loaded
      <4>3. CASE LoadFails(t)
        <5>1. loadLost' = (loadLost \/ clearer = t) /\ UNCHANGED providers
          BY <4>3 DEF LoadFails
        <5>2. ~loadLost
          BY <5>1, Zenon
        <5> QED BY <4>3, <5>1, <5>2 DEF LoadFails
      <4> QED BY <2>4, <4>1, <4>2, <4>3 DEF Reload
    <3>2. PICK u \in Tasks : Covers(u, p)
      BY <2>4, <3>1, ReloadFrame DEF RoutableInv
    <3>3. clearer' = clearer \/ (clearer = t /\ clearer' = NoTask)
      BY <2>4 DEF Reload, Refresh, Load, LoadFails, Fill, NoLongerClearer, loaded
    <3>4. CASE u # t
      BY <2>4, <3>2, <3>3, <3>4, ReloadFrame, CoverKept
    <3>5. CASE u = t
      <4>1. CASE Refresh(t)
        <5>1. job[t].target = p
          BY <3>2, <3>5, <4>1 DEF Covers, Refresh
        <5>2. Goto(t, "clear") /\ UNCHANGED job
          BY <4>1, <5>1 DEF Refresh
        <5> QED BY <5>1, <5>2 DEF Covers, Goto, TypeOK
      <4>2. CASE Load(t)
        <5>1. clearer = t
          BY <3>2, <3>5, <4>2 DEF Covers, Load
        <5>2. job'[t].seen = table
          BY <4>2 DEF Load, Sees, TypeOK, Jobs
        <5> QED BY <2>4, <4>2, <5>1, <5>2, ReloadFrame DEF Covers, Load, Goto, TypeOK, loaded, Loadable
      <4>3. CASE LoadFails(t)
        BY <3>2, <3>5, <4>3 DEF Covers, LoadFails
      <4>4. CASE Fill(t)
        <5>1. Loadable(job[t].seen[p]) /\ job[t].seen[p].url # NoUrl
          BY <3>2, <3>5, <4>4 DEF Covers, Fill, Loadable
        <5> QED BY <3>1, <4>4, <5>1 DEF Fill, Filled
      <4> QED BY <2>4, <4>1, <4>2, <4>3, <4>4 DEF Reload
    <3> QED BY <3>4, <3>5
  <2>5. ASSUME Tick \/ UNCHANGED vars PROVE \E u \in Tasks : Covers(u, p)'
    BY <2>5 DEF Tick, vars, loaded, RoutableInv, Covers, Loadable
  <2> QED BY <2>1, <2>2, <2>3, <2>4, <2>5, NextCases DEF Reload
<1>3. RoutableInv => EnabledRoutable
  BY DEF RoutableInv, EnabledRoutable, Covers, Reloading
<1> QED BY <1>1, <1>2, <1>3, TypeInductive, PTL DEF Spec

-----------------------------------------------------------------------------
(* CacheRecent *)

\* The rows a get() holds before it stores them, and the rows of the cache, were the
\* table's at or after the time they will be dated by.
DatedRows ==
  \A t \in Tasks :
    /\ pc[t] = "store" =>
         \A p \in Ids :
           LET row == job[t].seen[p] IN
           row # NoRow => table[p] = row \/ job[t].asked <= left[p][row]

DatedCache ==
  \A p \in Ids :
    cache[p] # NoRow => table[p] = cache[p] \/ expiry <= left[p][cache[p]] + Ttl

Dates == expiry <= now + Ttl /\ \A t \in Tasks : job[t].asked <= now

CacheInv == DatedRows /\ DatedCache /\ Dates

\* get() never answers from the cache with a row that left the table a Ttl ago or
\* earlier, because it reads the clock before its query.
THEOREM CacheRecentAlways == Spec => []CacheRecent
<1> USE AdminAssumption
<1>1. Init => CacheInv
  BY DEF Init, CacheInv, DatedRows, DatedCache, Dates, NoJob, Nothing
<1>2. TInv /\ CacheInv /\ [Next]_vars => CacheInv'
  <2> SUFFICES ASSUME TInv, CacheInv, [Next]_vars PROVE CacheInv'
    OBVIOUS
  <2> USE DEF TInv, CacheInv
  <2>0. \A t \in Tasks : job[t] \in Jobs
    BY DEF TypeOK
  <2>1. ASSUME NEW t \in Tasks, Watch(t) PROVE CacheInv'
    <3>1. UNCHANGED <<table, loaded, time>>
          /\ \A u \in Tasks \ {t} : pc'[u] = pc[u] /\ job'[u] = job[u]
      BY <2>1, WatchFrame
    <3>2. job'[t].asked <= now
      <4>1. CASE job'[t].asked \in {0, now, job[t].asked}
        BY <2>0, <4>1 DEF Dates, TypeOK
      <4>2. job'[t].asked \in {0, now, job[t].asked}
        <5>1. ASSUME NEW q \in Ids \cup {NoId}, Ask(t, q) PROVE job'[t].asked \in {now, job[t].asked}
          <6>1. CASE UNCHANGED job
            BY <6>1
          <6>2. CASE job' = [job EXCEPT ![t] =
                               [NoJob EXCEPT !.op = "get", !.target = q, !.asked = now]]
            <7>1. job'[t] = [NoJob EXCEPT !.op = "get", !.target = q, !.asked = now]
              BY <6>2 DEF TypeOK
            <7> QED BY <7>1 DEF NoJob
          <6> QED BY <5>1, <6>1, <6>2 DEF Ask
        <5>2. ASSUME NEW o, NEW q, Begin(t, o, q) PROVE job'[t].asked = 0
          BY <5>2 DEF Begin, TypeOK, NoJob
        <5>3. ASSUME NEW rows, Sees(t, rows) PROVE job'[t].asked = job[t].asked
          BY <5>3, <2>0 DEF Sees, TypeOK, Jobs
        <5>4. ASSUME End(t) PROVE job'[t].asked = 0
          BY <5>4 DEF End, TypeOK, NoJob
        <5>5. \/ \E q \in Ids \cup {NoId} : Ask(t, q)
              \/ \E o, q : Begin(t, o, q)
              \/ \E rows : Sees(t, rows)
              \/ End(t)
          BY <2>1 DEF Watch, BeginChange, ReadRow, CallFails, ReadAll, SyncFails, Query, Store, Answer
        <5> QED BY <5>1, <5>2, <5>3, <5>4, <5>5
      <4> QED BY <4>1, <4>2
    <3>3. pc'[t] = "store" => Query(t)
      BY <2>1 DEF Watch, Ask, BeginChange, Begin, ReadRow, CallFails, ReadAll, SyncFails, Store,
                  Answer, End, Goto, TypeOK
    <3>4. Query(t) => job'[t].seen = table
      BY <2>0 DEF Query, Sees, TypeOK, Jobs
    <3>5. DatedRows'
      BY <3>1, <3>3, <3>4 DEF DatedRows, time
    <3>6. DatedCache' /\ expiry' <= now + Ttl
      <4>1. CASE UNCHANGED caches
        BY <3>1, <4>1 DEF DatedCache, Dates, caches, time
      <4>2. CASE Store(t)
        BY <2>0, <3>1, <4>2 DEF Store, ExpiryOf, DatedRows, DatedCache, Dates, TypeOK, Jobs, time
      <4>3. UNCHANGED caches \/ Store(t)
        BY <2>1 DEF Watch, Ask, BeginChange, Begin, ReadRow, CallFails, ReadAll, SyncFails, Query,
                    Answer
      <4> QED BY <4>1, <4>2, <4>3
    <3> QED BY <3>1, <3>2, <3>5, <3>6 DEF Dates, time
  <2>2. ASSUME NEW t \in Tasks, Edit(t) PROVE CacheInv'
    <3>1. /\ UNCHANGED <<caches, now>> /\ pc[t] = "write"
          /\ \A u \in Tasks \ {t} : pc'[u] = pc[u] /\ job'[u] = job[u]
      BY <2>2, EditFrame
    <3>2. pc'[t] # "store"
      BY <2>2 DEF Edit, Create, Update, Delete, Sync, End, Goto, TypeOK
    <3>3. job'[t].asked \in {0, job[t].asked}
      <4>1. UNCHANGED job \/ End(t) \/ Sees(t, Nothing)
        BY <2>2 DEF Edit, Create, Update, Delete, Sync
      <4> QED BY <2>0, <4>1 DEF End, Sees, TypeOK, Jobs, NoJob
    <3>4. \A p \in Ids, row \in Rows :
            /\ table[p] = row => table'[p] = row \/ left'[p][row] = now
            /\ table[p] # row => left'[p][row] = left[p][row]
      BY <2>2, EditRows, RewriteFacts
    <3>5. DatedRows'
      <4> SUFFICES ASSUME NEW u \in Tasks, pc'[u] = "store", NEW p \in Ids, job'[u].seen[p] # NoRow
                   PROVE  table'[p] = job'[u].seen[p] \/ job'[u].asked <= left'[p][job'[u].seen[p]]
        BY DEF DatedRows
      <4>1. u # t /\ pc[u] = "store" /\ job'[u] = job[u]
        BY <3>1, <3>2
      <4>2. job[u].seen[p] \in Rows
        BY <2>0, <4>1 DEF Jobs
      <4> QED BY <3>4, <4>1, <4>2 DEF DatedRows, Dates
    <3>6. DatedCache'
      <4> SUFFICES ASSUME NEW p \in Ids, cache'[p] # NoRow
                   PROVE  table'[p] = cache'[p] \/ expiry' <= left'[p][cache'[p]] + Ttl
        BY DEF DatedCache
      <4>1. cache'[p] = cache[p] /\ cache[p] \in Rows /\ UNCHANGED expiry
        BY <3>1 DEF TypeOK, caches
      <4>2. CASE table[p] = cache[p]
        BY <3>4, <4>1, <4>2 DEF Dates
      <4>3. CASE table[p] # cache[p]
        BY <3>4, <4>1, <4>3 DEF DatedCache
      <4> QED BY <4>2, <4>3
    <3>7. Dates'
      BY <2>0, <3>1, <3>3 DEF Dates, TypeOK, Jobs, caches
    <3> QED BY <3>5, <3>6, <3>7
  <2>3. ASSUME NEW t \in Tasks, Reload(t) PROVE CacheInv'
    <3>1. /\ UNCHANGED <<table, time>>
          /\ \A u \in Tasks \ {t} : pc'[u] = pc[u] /\ job'[u] = job[u]
      BY <2>3, ReloadFrame
    <3>2. pc'[t] # "store"
      <4>1. CASE Refresh(t)
        BY <4>1 DEF Refresh, End, Goto, TypeOK
      <4>2. CASE ~Refresh(t)
        BY <2>3, <4>2 DEF Reload, Clear, Load, LoadFails, Fill, End, Goto, TypeOK
      <4> QED BY <4>1, <4>2
    <3>3. job'[t].asked \in {0, job[t].asked}
      <4>1. UNCHANGED job \/ End(t) \/ Sees(t, table)
        BY <2>3 DEF Reload, Refresh, Clear, Load, LoadFails, Fill
      <4> QED BY <2>0, <4>1 DEF End, Sees, TypeOK, Jobs, NoJob
    <3>4. UNCHANGED caches \/ (cache' = Nothing /\ expiry' = 0)
      BY <2>3 DEF Reload, Refresh, Clear, Load, LoadFails, Fill
    <3>5. DatedRows'
      BY <3>1, <3>2 DEF DatedRows, time
    <3>6. DatedCache' /\ Dates'
      BY <2>0, <3>1, <3>3, <3>4 DEF DatedCache, Dates, TypeOK, Jobs, Nothing, caches, time
    <3> QED BY <3>5, <3>6
  <2>4. ASSUME Tick PROVE CacheInv'
    BY <2>0, <2>4 DEF Tick, DatedRows, DatedCache, Dates, TypeOK, Jobs, caches
  <2>5. ASSUME UNCHANGED vars PROVE CacheInv'
    BY <2>5 DEF vars, DatedRows, DatedCache, Dates, caches, time
  <2> QED BY <2>1, <2>2, <2>3, <2>4, <2>5, NextCases
<1>3. TInv /\ CacheInv => CacheRecent
  <2> SUFFICES ASSUME TInv, CacheInv, NEW p \in Ids, cache[p] # NoRow, now < expiry
               PROVE  table[p] = cache[p] \/ now < left[p][cache[p]] + Ttl
    BY DEF CacheRecent
  <2>1. cache[p] \in Rows /\ left[p][cache[p]] \in Nat
    BY DEF TInv, TypeOK
  <2> QED BY <2>1 DEF TInv, TypeOK, CacheInv, DatedCache
<1> QED BY <1>1, <1>2, <1>3, TypeInductive, PTL DEF Spec

-----------------------------------------------------------------------------
(* The registry as requests see it *)

Loading == {t \in Tasks : pc[t] \in {"load", "fill"}}
Loaded  == {p \in Ids : providers[p] # NoUrl}

\* Outside the reloads no task begins or ends to load.
LEMMA LoadingStays ==
  ASSUME TypeOK, NEW t \in Tasks, Watch(t) \/ Edit(t) \/ Refresh(t)
  PROVE  UNCHANGED <<Loading, Loaded>>
<1>1. UNCHANGED providers
  BY WatchFrame, EditFrame DEF loaded, Refresh
<1>2. pc[t] \notin {"load", "fill"} /\ \A u \in Tasks \ {t} : pc'[u] = pc[u]
  BY WatchFrame, EditFrame, ReloadFrame DEF Refresh, Reload
<1>3. \E phase \in Phases \ {"load", "fill"} : Goto(t, phase)
  <2>1. CASE \/ \E p \in Ids \cup {NoId} : Ask(t, p)
             \/ BeginChange(t) \/ ReadRow(t) \/ CallFails(t) \/ ReadAll(t)
    BY <2>1 DEF Ask, BeginChange, Begin, ReadRow, CallFails, ReadAll, End, Phases
  <2>2. CASE SyncFails(t) \/ Query(t) \/ Store(t) \/ Answer(t) \/ Refresh(t)
    BY <2>2 DEF SyncFails, Query, Store, Answer, Refresh, End, Phases
  <2>3. CASE Edit(t)
    BY <2>3 DEF Edit, Create, Update, Delete, Sync, End, Phases
  <2> QED BY <2>1, <2>2, <2>3 DEF Watch
<1>4. pc'[t] \notin {"load", "fill"}
  BY <1>3 DEF Goto, TypeOK
<1> QED BY <1>1, <1>2, <1>4 DEF Loading, Loaded

\* The task that empties the registry or has loaded is the one to step.
LEMMA LoadingMoves ==
  ASSUME TypeOK, NEW t \in Tasks, NEW phase, Goto(t, phase)
  PROVE  Loading' = IF phase \in {"load", "fill"} THEN Loading \cup {t} ELSE Loading \ {t}
BY DEF Goto, Loading, TypeOK

\* The calls of the API implement the registry that requests rely on: whatever
\* overlaps and fails, a platform is lost only when reload_from_db empties the
\* registry, and appears only when load_from_db has read it.
THEOREM AdminImplementsReloads == Spec => ImplementsReloads
<1> USE AdminAssumption
<1>1. Init => Registry!Init
  BY DEF Init, Registry!Init
<1>2. ASSUME TInv, NEW t \in Tasks, Clear(t) PROVE Registry!Empties(t)
  <2>1. t \notin Loading /\ Goto(t, "load")
    BY <1>2 DEF Clear, Loading
  <2>2. Loading' = Loading \cup {t}
    BY <1>2, <2>1, LoadingMoves DEF TInv
  <2>3. Loaded' = {}
    BY <1>2 DEF Clear, Loaded
  <2> QED BY <2>1, <2>2, <2>3 DEF Registry!Empties, Loading, Loaded
<1>3. ASSUME TInv, NEW t \in Tasks, LoadFails(t) \/ Fill(t) PROVE Registry!Loads(t)
  <2>1. t \in Loading /\ Goto(t, "done")
    BY <1>3 DEF LoadFails, Fill, End, Loading
  <2>2. Loading' = Loading \ {t}
    BY <1>3, <2>1, LoadingMoves DEF TInv
  <2>3. Loaded \subseteq Loaded'
    <3>1. CASE LoadFails(t)
      BY <3>1 DEF LoadFails, Loaded
    <3>2. CASE Fill(t)
      BY <3>2 DEF Fill, Filled, Loaded
    <3> QED BY <1>3, <3>1, <3>2
  <2>4. Loaded' \in SUBSET Ids /\ Native \cup Loaded' = (Native \cup Loaded) \cup Loaded'
    BY <2>3 DEF Loaded
  <2> QED BY <2>1, <2>2, <2>4 DEF Registry!Loads, Loading, Loaded
<1>4. ASSUME TInv, NEW t \in Tasks, Load(t) PROVE UNCHANGED <<Loading, Loaded>>
  <2>1. t \in Loading /\ Goto(t, "fill") /\ UNCHANGED providers
    BY <1>4 DEF Load, Loading, loaded
  <2> QED BY <1>4, <2>1, LoadingMoves DEF TInv, Loaded
<1>5. ASSUME Tick \/ UNCHANGED vars PROVE UNCHANGED <<Loading, Loaded>>
  BY <1>5 DEF Tick, vars, loaded, Loading, Loaded
<1>6. TInv /\ [Next]_vars => [Registry!Next]_Registry!reloadVars
  <2> SUFFICES ASSUME TInv, [Next]_vars PROVE [Registry!Next]_Registry!reloadVars
    OBVIOUS
  <2>1. CASE UNCHANGED <<Loading, Loaded>>
    BY <2>1 DEF Registry!reloadVars, Loading, Loaded
  <2>2. ASSUME NEW t \in Tasks, Watch(t) \/ Edit(t) \/ Reload(t)
        PROVE  [Registry!Next]_Registry!reloadVars
    BY <1>2, <1>3, <1>4, <2>1, <2>2, LoadingStays DEF TInv, Reload, Registry!Next
  <2> QED BY <1>5, <2>1, <2>2, NextCases
<1> QED BY <1>1, <1>6, TypeInductive, PTL DEF Spec, ImplementsReloads, Registry!Spec
=============================================================================
