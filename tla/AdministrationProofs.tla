------------------------ MODULE AdministrationProofs ------------------------
(***************************************************************************)
(* Theorems about the administration of the tables, for any number of      *)
(* concurrent calls, keys, settings, models, platforms and old rows.       *)
(***************************************************************************)
EXTENDS Administration, FiniteSetTheorems, FunctionTheorems, TLAPS

-----------------------------------------------------------------------------
(* Tasks *)

KeyOps == {"create", "validate", "set", "delete", "migrate-keys"}
ChainOps == {"seed", "migrate-models"}

\* Every task has an operation.
Shape ==
  /\ DOMAIN task = Tasks /\ task = [t \in Tasks |-> task[t]]
  /\ \A t \in Tasks : "op" \in DOMAIN task[t]
  /\ begun \in Nat

\* A step of a task whose operation is one of ops, or none.
Moves(t, ops) ==
  /\ task[t].op \in ops \cup {"idle"} /\ task'[t].op \in ops \cup {"idle"}
  /\ \A u \in Tasks \ {t} : task'[u] = task[u]

Steps(ops) ==
  /\ (\E t \in Tasks : Moves(t, ops)) \/ UNCHANGED task
  /\ begun <= begun'

LEMMA BeginMoves ==
  ASSUME Shape, NEW t \in Tasks, NEW job, Begin(t, job), "op" \in DOMAIN job
  PROVE  /\ Shape' /\ begun' = begun + 1 /\ task'[t] = job /\ task[t] = Idle /\ task[t].op = "idle"
         /\ \A u \in Tasks \ {t} : task'[u] = task[u]
BY DEF Shape, Begin, Idle

LEMMA ContinueMoves ==
  ASSUME Shape, NEW t \in Tasks, NEW job, Continue(t, job), "op" \in DOMAIN job
  PROVE  /\ Shape' /\ begun' = begun /\ task'[t] = job
         /\ \A u \in Tasks \ {t} : task'[u] = task[u]
BY DEF Shape, Continue

LEMMA EndMoves ==
  ASSUME Shape, NEW t \in Tasks, End(t)
  PROVE  /\ Shape' /\ begun' = begun /\ task'[t] = Idle /\ task'[t].op = "idle"
         /\ \A u \in Tasks \ {t} : task'[u] = task[u]
BY ContinueMoves DEF End, Idle

\* The three ways to step, for a task whose operation is one of ops.
LEMMA BeginSteps ==
  ASSUME Shape, NEW t \in Tasks, NEW ops, NEW job, Begin(t, job), "op" \in DOMAIN job,
         job.op \in ops \cup {"idle"}
  PROVE  Shape' /\ Steps(ops)
BY BeginMoves DEF Steps, Moves, Shape

LEMMA ContinueSteps ==
  ASSUME Shape, NEW t \in Tasks, NEW ops, NEW job, Continue(t, job), "op" \in DOMAIN job,
         job.op = task[t].op, task[t].op \in ops
  PROVE  Shape' /\ Steps(ops)
BY ContinueMoves DEF Steps, Moves, Shape

LEMMA EndSteps ==
  ASSUME Shape, NEW t \in Tasks, NEW ops, End(t), task[t].op \in ops
  PROVE  Shape' /\ Steps(ops)
BY EndMoves DEF Steps, Moves, Shape

LEMMA KeysMove == Shape /\ KeysNext => Shape' /\ Steps(KeyOps)
<1> SUFFICES ASSUME Shape, KeysNext PROVE Shape' /\ Steps(KeyOps)
  OBVIOUS
<1>1. ASSUME NEW t \in Tasks, CreateKey(t) PROVE Shape' /\ Steps(KeyOps)
  BY <1>1, BeginSteps DEF CreateKey, KeyOps
<1>2. ASSUME NEW t \in Tasks, NEW ids, Checks(t, ids) PROVE Shape' /\ Steps(KeyOps)
  BY <1>2, BeginSteps DEF Checks, KeyOps
<1>3. ASSUME NEW t \in Tasks, NEW ids, NEW b, Sets(t, ids, b) PROVE Shape' /\ Steps(KeyOps)
  BY <1>3, BeginSteps DEF Sets, KeyOps
<1>4. ASSUME NEW t \in Tasks, DeleteKey(t) PROVE Shape' /\ Steps(KeyOps)
  BY <1>4, BeginSteps DEF DeleteKey, KeyOps
<1>5. ASSUME NEW t \in Tasks, MigrateKeys(t) PROVE Shape' /\ Steps(KeyOps)
  BY <1>5, BeginSteps DEF MigrateKeys, KeyOps
<1>6. ASSUME NEW t \in Tasks, MigrateLooks(t) PROVE Shape' /\ Steps(KeyOps)
  <2>1. task[t].op \in KeyOps
    BY <1>6 DEF MigrateLooks, KeyOps
  <2>2. PICK o \in task[t].todo :
          Continue(t, [task[t] EXCEPT !.todo = @ \ {o},
                         !.add = IF Taken(t, OldRow[o].platform) THEN @ ELSE @ \cup {o},
                         !.met = IF Of(OldRow[o].platform) = {} THEN @ ELSE @ \cup {OldRow[o].platform}])
    BY <1>6 DEF MigrateLooks
  <2> DEFINE job == [task[t] EXCEPT !.todo = @ \ {o},
                       !.add = IF Taken(t, OldRow[o].platform) THEN @ ELSE @ \cup {o},
                       !.met = IF Of(OldRow[o].platform) = {} THEN @ ELSE @ \cup {OldRow[o].platform}]
  <2>3. job.op = task[t].op /\ "op" \in DOMAIN job
    BY DEF Shape
  <2> QED BY <2>1, <2>2, <2>3, ContinueSteps
<1>7. ASSUME NEW t \in Tasks, CreateCommits(t) \/ DeleteCommits(t) \/ MigrateCommits(t)
      PROVE  Shape' /\ Steps(KeyOps)
  BY <1>7, EndSteps DEF CreateCommits, DeleteCommits, MigrateCommits, KeyOps
<1>8. ASSUME NEW t \in Tasks, ValidateCommits(t) \/ SetCommits(t) PROVE Shape' /\ Steps(KeyOps)
  <2>1. End(t)
    BY <1>8 DEF ValidateCommits, SetCommits, Stored
  <2>2. task[t].op \in KeyOps
    BY <1>8 DEF ValidateCommits, SetCommits, KeyOps
  <2> QED BY <2>1, <2>2, EndSteps
<1> QED BY <1>1, <1>2, <1>3, <1>4, <1>5, <1>6, <1>7, <1>8
        DEF KeysNext, ValidateKey, ValidateAll, UpdateKey, TogglePlatform

LEMMA SettingsMove == Shape /\ SettingsNext => Shape' /\ Steps({"put"})
<1> SUFFICES ASSUME Shape, SettingsNext PROVE Shape' /\ Steps({"put"})
  OBVIOUS
<1>1. ASSUME NEW t \in Tasks, NEW wanted, NEW keep, Puts(t, wanted, keep)
      PROVE  Shape' /\ Steps({"put"})
  BY <1>1, BeginSteps DEF Puts
<1>2. ASSUME NEW t \in Tasks, Looks(t) PROVE Shape' /\ Steps({"put"})
  <2>1. task[t].op = "put"
    BY <1>2 DEF Looks
  <2>2. PICK n : Continue(t, [task[t] EXCEPT !.found =
                       [m \in DOMAIN @ \cup {n} |-> IF m = n THEN Find(n) ELSE @[m]]])
    BY <1>2 DEF Looks
  <2> DEFINE job == [task[t] EXCEPT !.found =
                       [m \in DOMAIN @ \cup {n} |-> IF m = n THEN Find(n) ELSE @[m]]]
  <2>3. job.op = task[t].op /\ "op" \in DOMAIN job
    BY DEF Shape
  <2> QED BY <2>1, <2>2, <2>3, ContinueSteps
<1>3. ASSUME NEW t \in Tasks, PutCommits(t) PROVE Shape' /\ Steps({"put"})
  BY <1>3, EndSteps DEF PutCommits
<1> QED BY <1>1, <1>2, <1>3 DEF SettingsNext, UpdateSettings, RegenerateApiKey, MigrateSettings

LEMMA CatalogMoves == Shape /\ CatalogNext => Shape' /\ Steps({"sync"})
<1> SUFFICES ASSUME Shape, CatalogNext PROVE Shape' /\ Steps({"sync"})
  OBVIOUS
<1>1. ASSUME NEW t \in Tasks, Sync(t) PROVE Shape' /\ Steps({"sync"})
  <2>1. PICK job, cached : job.op = "sync" /\ "op" \in DOMAIN job /\ Begin(t, Fetching(job, cached))
    <3>1. PICK dry \in BOOLEAN, refresh \in BOOLEAN :
            Begin(t, Fetching([op |-> "sync", at |-> "", stage |-> "platforms", dry |-> dry,
                          refresh |-> refresh, low |-> 0, data |-> 0, loaded |-> <<>>,
                          asked |-> IF refresh THEN online ELSE 0,
                          rival |-> refresh /\ \E u \in Tasks : Downloads(u)], cache'))
      BY <1>1 DEF Sync
    <3> DEFINE job == [op |-> "sync", at |-> "", stage |-> "platforms", dry |-> dry,
                       refresh |-> refresh, low |-> 0, data |-> 0, loaded |-> <<>>,
                       asked |-> IF refresh THEN online ELSE 0,
                       rival |-> refresh /\ \E u \in Tasks : Downloads(u)]
    <3>2. job.op = "sync" /\ "op" \in DOMAIN job
      OBVIOUS
    <3>3. Begin(t, Fetching(job, cache'))
      BY <3>1
    <3> HIDE DEF job
    <3> QED BY <3>2, <3>3
  <2>2. Fetching(job, cached).op = "sync" /\ "op" \in DOMAIN Fetching(job, cached)
    BY <2>1 DEF Fetching
  <2> QED BY <2>1, <2>2, BeginSteps
<1>2. ASSUME NEW t \in Tasks, DownloadEnds(t) PROVE Shape' /\ Steps({"sync"})
  <2>1. PICK v : Continue(t, [task[t] EXCEPT !.at = "read", !.low = 0, !.data = v])
    BY <1>2 DEF DownloadEnds
  <2>2. task[t].op = "sync"
    BY <1>2 DEF DownloadEnds, Downloads
  <2> DEFINE job == [task[t] EXCEPT !.at = "read", !.low = 0, !.data = v]
  <2>3. job.op = task[t].op /\ "op" \in DOMAIN job
    BY DEF Shape
  <2> QED BY <2>1, <2>2, <2>3, ContinueSteps
<1>3. ASSUME NEW t \in Tasks, ReadsRows(t) PROVE Shape' /\ Steps({"sync"})
  <2> DEFINE job == [task[t] EXCEPT !.at = "write",
                       !.loaded = IF task[t].stage = "platforms" THEN platforms ELSE models]
  <2>1. Continue(t, job) /\ task[t].op = "sync"
    BY <1>3 DEF ReadsRows
  <2>2. job.op = task[t].op /\ "op" \in DOMAIN job
    BY DEF Shape
  <2> QED BY <2>1, <2>2, ContinueSteps
<1>4. ASSUME NEW t \in Tasks, WritePlatforms(t) PROVE Shape' /\ Steps({"sync"})
  <2> DEFINE job == [task[t] EXCEPT !.at = "fetch", !.stage = "models", !.loaded = <<>>]
  <2>1. Continue(t, job) /\ task[t].op = "sync"
    BY <1>4 DEF WritePlatforms, Writes
  <2>2. job.op = task[t].op /\ "op" \in DOMAIN job
    BY DEF Shape
  <2> QED BY <2>1, <2>2, ContinueSteps
<1>5. ASSUME NEW t \in Tasks, FetchesAgain(t) PROVE Shape' /\ Steps({"sync"})
  <2> DEFINE job == Fetching(task[t], cache)
  <2>1. Continue(t, job) /\ task[t].op = "sync"
    BY <1>5 DEF FetchesAgain
  <2>2. job.op = task[t].op /\ "op" \in DOMAIN job
    BY DEF Shape, Fetching
  <2> QED BY <2>1, <2>2, ContinueSteps
<1>6. ASSUME NEW t \in Tasks, DownloadTorn(t) \/ WriteModels(t) PROVE Shape' /\ Steps({"sync"})
  <2>1. End(t) /\ task[t].op = "sync"
    BY <1>6 DEF DownloadTorn, WriteModels, Downloads, Writes
  <2> QED BY <2>1, EndSteps
<1>7. ASSUME NEW t \in Tasks, EditPlatform(t) \/ SeedPlatforms(t) \/ SeedWindows(t)
      PROVE  Shape' /\ Steps({"sync"})
  <2>1. Begin(t, Idle)
    BY <1>7 DEF EditPlatform, SeedPlatforms, SeedWindows
  <2> QED BY <2>1, BeginSteps DEF Idle
<1>8. CASE Publish \/ CacheExpires
  BY <1>8 DEF Publish, CacheExpires, taskVars, Shape, Steps
<1> QED BY <1>1, <1>2, <1>3, <1>4, <1>5, <1>6, <1>7, <1>8 DEF CatalogNext

LEMMA ChainMoves == Shape /\ FallbackNext => Shape' /\ Steps(ChainOps)
<1> SUFFICES ASSUME Shape, FallbackNext PROVE Shape' /\ Steps(ChainOps)
  OBVIOUS
<1>1. ASSUME NEW t \in Tasks, CreateFallback(t) \/ UpdateFallback(t) \/ DeleteFallback(t)
      PROVE  Shape' /\ Steps(ChainOps)
  <2>1. Begin(t, Idle)
    BY <1>1 DEF CreateFallback, UpdateFallback, DeleteFallback
  <2> QED BY <2>1, BeginSteps DEF Idle
<1>2. ASSUME NEW t \in Tasks, SeedCatalog(t) PROVE Shape' /\ Steps(ChainOps)
  BY <1>2, BeginSteps DEF SeedCatalog, ChainOps
<1>3. ASSUME NEW t \in Tasks, SeedSelects(t) PROVE Shape' /\ Steps(ChainOps)
  <2> DEFINE job == [task[t] EXCEPT !.at = "delete", !.listed = models]
  <2>1. Continue(t, job) /\ task[t].op \in ChainOps
    BY <1>3 DEF SeedSelects, ChainOps
  <2>2. job.op = task[t].op /\ "op" \in DOMAIN job
    BY DEF Shape
  <2> QED BY <2>1, <2>2, ContinueSteps
<1>4. ASSUME NEW t \in Tasks, SeedDeletes(t) PROVE Shape' /\ Steps(ChainOps)
  <2> DEFINE job == [task[t] EXCEPT !.at = "insert", !.doomed = chain]
  <2>1. Continue(t, job) /\ task[t].op \in ChainOps
    BY <1>4 DEF SeedDeletes, Deletes, ChainOps
  <2>2. job.op = task[t].op /\ "op" \in DOMAIN job
    BY DEF Shape
  <2> QED BY <2>1, <2>2, ContinueSteps
<1>5. ASSUME NEW t \in Tasks, SeedInserts(t) \/ MigrateModelsCommits(t) PROVE Shape' /\ Steps(ChainOps)
  <2>1. End(t) /\ task[t].op \in ChainOps
    BY <1>5 DEF SeedInserts, MigrateModelsCommits, ChainOps
  <2> QED BY <2>1, EndSteps
<1>6. ASSUME NEW t \in Tasks, MigrateModels(t) PROVE Shape' /\ Steps(ChainOps)
  BY <1>6, BeginSteps DEF MigrateModels, ChainOps
<1> QED BY <1>1, <1>2, <1>3, <1>4, <1>5, <1>6 DEF FallbackNext

LEMMA RequestsMove == Shape /\ RequestMigrationNext => Shape' /\ Steps({"migrate-requests"})
<1> SUFFICES ASSUME Shape, RequestMigrationNext PROVE Shape' /\ Steps({"migrate-requests"})
  OBVIOUS
<1>1. ASSUME NEW t \in Tasks, MigrateRequests(t) PROVE Shape' /\ Steps({"migrate-requests"})
  BY <1>1, BeginSteps DEF MigrateRequests
<1>2. ASSUME NEW t \in Tasks, ChunkCommits(t) PROVE Shape' /\ Steps({"migrate-requests"})
  <2> DEFINE job == [task[t] EXCEPT !.done = @ + Chunk]
  <2>1. Continue(t, job) /\ task[t].op = "migrate-requests"
    BY <1>2 DEF ChunkCommits
  <2>2. job.op = task[t].op /\ "op" \in DOMAIN job
    BY DEF Shape
  <2> QED BY <2>1, <2>2, ContinueSteps
<1>3. ASSUME NEW t \in Tasks, MigrationEnds(t) PROVE Shape' /\ Steps({"migrate-requests"})
  BY <1>3, EndSteps DEF MigrationEnds
<1> QED BY <1>1, <1>2, <1>3 DEF RequestMigrationNext

\* A task that fails is idle again.
LEMMA FailureMoves ==
  Shape /\ Failure => /\ Shape' /\ begun' = begun
                      /\ \E t \in Tasks : /\ task'[t] = Idle /\ task'[t].op = "idle"
                                          /\ \A u \in Tasks \ {t} : task'[u] = task[u]
BY EndMoves DEF Failure, Fail

\* The tasks of an operation are moved by the steps of its component, or they fail.
LEMMA OthersStay ==
  ASSUME Shape, NEW ops, NEW op, op \notin ops, op # "idle", Steps(ops), NEW u \in Tasks,
         task'[u].op = op
  PROVE  task'[u] = task[u]
BY DEF Steps, Moves

LEMMA FailuresStay ==
  ASSUME Shape, NEW op, op # "idle", Failure, NEW u \in Tasks, task'[u].op = op
  PROVE  task'[u] = task[u]
BY FailureMoves

LEMMA ShapeInit == Init => Shape
BY DEF Init, TasksInit, Shape, Idle

LEMMA ShapeNext == Shape /\ [Next]_vars => Shape' /\ begun <= begun'
<1> SUFFICES ASSUME Shape, [Next]_vars PROVE Shape' /\ begun <= begun'
  OBVIOUS
<1>1. CASE Failure
  BY <1>1, FailureMoves DEF Shape
<1>2. CASE UNCHANGED vars
  BY <1>2 DEF vars, taskVars, Shape
<1>3. CASE Next /\ ~Failure
  BY <1>3, KeysMove, SettingsMove, CatalogMoves, ChainMoves, RequestsMove
     DEF Next, OnKeys, OnSettings, OnCatalog, OnChain, OnRequests, Steps
<1> QED BY <1>1, <1>2, <1>3

-----------------------------------------------------------------------------
(* The migrated requests *)

Migrating(t) == task[t].op = "migrate-requests"

\* A running script has copied the rows behind it once more than the scripts before
\* it that ended.
MigrationInv ==
  /\ copies \in [1 .. OldRequests -> Nat] /\ finished \in Nat
  /\ \A i \in 1 .. OldRequests : finished <= copies[i]
  /\ \A t \in Tasks : Migrating(t) =>
       /\ task[t] = [op |-> "migrate-requests", done |-> task[t].done] /\ task[t].done \in 0 .. OldRequests
       /\ \A u \in Tasks : Migrating(u) => u = t
       /\ \A i \in 1 .. OldRequests : i <= task[t].done => finished + 1 <= copies[i]

\* Steps that leave the copies alone and begin no script keep it.
LEMMA MigrationStays ==
  ASSUME MigrationInv, UNCHANGED requestMigrationVars,
         \A u \in Tasks : task'[u].op = "migrate-requests" => task'[u] = task[u]
  PROVE  MigrationInv'
BY DEF MigrationInv, Migrating, requestMigrationVars

LEMMA MigrationSteps == Shape /\ MigrationInv /\ RequestMigrationNext => MigrationInv'
<1> SUFFICES ASSUME Shape, MigrationInv, NEW t \in Tasks,
                    MigrateRequests(t) \/ ChunkCommits(t) \/ MigrationEnds(t)
             PROVE  MigrationInv'
  BY DEF RequestMigrationNext
<1>1. CASE MigrateRequests(t)
  <2>1. /\ task'[t] = [op |-> "migrate-requests", done |-> 0]
        /\ \A u \in Tasks \ {t} : task'[u] = task[u] /\ task[u].op # "migrate-requests"
        /\ UNCHANGED <<copies, finished>>
    BY <1>1, BeginMoves DEF MigrateRequests, requestMigrationVars
  <2>2. /\ copies' \in [1 .. OldRequests -> Nat] /\ finished' \in Nat
        /\ \A i \in 1 .. OldRequests : finished' <= copies'[i]
    BY <2>1 DEF MigrationInv
  <2>3. \A u \in Tasks : Migrating(u)' => u = t
    BY <2>1 DEF Migrating
  <2> QED BY <2>1, <2>2, <2>3, RequestsAssumption DEF MigrationInv, Migrating
<1>2. CASE ChunkCommits(t)
  <2> DEFINE d == task[t].done
  <2>1. /\ Migrating(t) /\ task[t] = [op |-> "migrate-requests", done |-> d]
        /\ d \in 0 .. OldRequests /\ d + Chunk <= OldRequests
    BY <1>2 DEF ChunkCommits, MigrationInv, Migrating
  <2>2. /\ task'[t] = [task[t] EXCEPT !.done = @ + Chunk]
        /\ \A u \in Tasks \ {t} : task'[u] = task[u]
    <3> DEFINE job == [task[t] EXCEPT !.done = @ + Chunk]
    <3>1. Continue(t, job) /\ "op" \in DOMAIN job
      BY <1>2 DEF ChunkCommits, Shape
    <3> QED BY <3>1, ContinueMoves
  <2>3. task'[t] = [op |-> "migrate-requests", done |-> d + Chunk]
    BY <2>1, <2>2
  <2>4. /\ finished' = finished
        /\ copies' = [i \in DOMAIN copies |-> IF i \in (d + 1) .. (d + Chunk) THEN copies[i] + 1 ELSE copies[i]]
    BY <1>2 DEF ChunkCommits, Copied
  <2>5. \A u \in Tasks \ {t} : ~Migrating(u)
    BY <2>1 DEF MigrationInv
  <2> HIDE DEF d
  <2>6. d \in Nat /\ Chunk \in Nat /\ OldRequests \in Nat
    BY <2>1, RequestsAssumption
  <2>7. /\ copies \in [1 .. OldRequests -> Nat] /\ finished \in Nat
        /\ \A i \in 1 .. OldRequests :
             finished <= copies[i] /\ (i <= d => finished + 1 <= copies[i])
    BY <2>1 DEF MigrationInv, d
  <2>8. /\ copies' \in [1 .. OldRequests -> Nat]
        /\ \A i \in 1 .. OldRequests :
             finished <= copies'[i] /\ (i <= d + Chunk => finished + 1 <= copies'[i])
    BY <2>4, <2>6, <2>7
  <2>9. \A u \in Tasks : Migrating(u)' => u = t
    BY <2>2, <2>5 DEF Migrating
  <2> QED BY <2>1, <2>2, <2>3, <2>4, <2>6, <2>7, <2>8, <2>9 DEF MigrationInv
<1>3. CASE MigrationEnds(t)
  <2> DEFINE d == task[t].done
  <2>1. Migrating(t) /\ d \in 0 .. OldRequests
    BY <1>3 DEF MigrationEnds, MigrationInv, Migrating
  <2>2. task'[t].op = "idle" /\ \A u \in Tasks \ {t} : task'[u] = task[u]
    BY <1>3, EndMoves DEF MigrationEnds
  <2>3. /\ finished' = finished + 1
        /\ copies' = [i \in DOMAIN copies |-> IF i \in (d + 1) .. OldRequests THEN copies[i] + 1 ELSE copies[i]]
    BY <1>3 DEF MigrationEnds, RestCommits, Copied
  <2>4. \A u \in Tasks \ {t} : ~Migrating(u)
    BY <2>1 DEF MigrationInv
  <2>5. /\ copies \in [1 .. OldRequests -> Nat] /\ finished \in Nat
        /\ \A i \in 1 .. OldRequests :
             finished <= copies[i] /\ (i <= d => finished + 1 <= copies[i])
    BY <2>1 DEF MigrationInv
  <2> HIDE DEF d
  <2>6. OldRequests \in Nat /\ d \in Nat
    BY <2>1, RequestsAssumption
  <2>7. /\ copies' \in [1 .. OldRequests -> Nat]
        /\ \A i \in 1 .. OldRequests : finished + 1 <= copies'[i]
    BY <2>3, <2>5, <2>6
  <2>8. \A u \in Tasks : ~Migrating(u)'
    BY <2>2, <2>4 DEF Migrating
  <2> QED BY <2>2, <2>3, <2>5, <2>6, <2>7, <2>8 DEF MigrationInv
<1> QED BY <1>1, <1>2, <1>3

\* Every run of the script that ends has copied every old request, wherever the
\* runs before it died.
THEOREM RequestsCompleteAlways == Spec => []RequestsComplete
<1>1. Init => Shape /\ MigrationInv
  BY ShapeInit, RequestsAssumption
     DEF Init, TasksInit, RequestMigrationInit, MigrationInv, Migrating, Idle
<1>2. Shape /\ MigrationInv /\ [Next]_vars => (Shape /\ MigrationInv)'
  <2> SUFFICES ASSUME Shape, MigrationInv, [Next]_vars PROVE MigrationInv'
    BY ShapeNext
  <2>1. Shape'
    BY ShapeNext
  <2>2. ASSUME NEW ops, "migrate-requests" \notin ops, Steps(ops), UNCHANGED requestMigrationVars
        PROVE  MigrationInv'
    BY <2>1, <2>2, OthersStay, MigrationStays
  <2>3. CASE OnKeys
    BY <2>2, <2>3, KeysMove DEF OnKeys, KeyOps
  <2>4. CASE OnSettings
    BY <2>2, <2>4, SettingsMove DEF OnSettings
  <2>5. CASE OnCatalog
    BY <2>2, <2>5, CatalogMoves DEF OnCatalog
  <2>6. CASE OnChain
    BY <2>2, <2>6, ChainMoves DEF OnChain, ChainOps
  <2>7. CASE OnRequests
    BY <2>7, MigrationSteps DEF OnRequests
  <2>8. CASE Failure
    BY <2>8, FailuresStay, MigrationStays DEF Failure
  <2>9. CASE UNCHANGED vars
    BY <2>9, MigrationStays DEF vars, taskVars
  <2> QED BY <2>3, <2>4, <2>5, <2>6, <2>7, <2>8, <2>9 DEF Next
<1>3. MigrationInv => RequestsComplete
  BY DEF MigrationInv, RequestsComplete
<1> QED BY <1>1, <1>2, <1>3, PTL DEF Spec

-----------------------------------------------------------------------------
(* The seeded chain *)

Seeding(t) == task[t].op = "seed"

\* While two seeds have not overlapped, the rows of the last seed are those that
\* the running seed has selected for deletion.
SeedInv ==
  /\ reseeded \in BOOLEAN
  /\ \A r \in chain : "by" \in DOMAIN r /\ "seeded" \in DOMAIN r
  /\ \A t \in Tasks : Seeding(t) =>
       {"op", "at", "by", "listed", "doomed"} \subseteq DOMAIN task[t]
  /\ ~reseeded =>
       /\ \A r, q \in chain : r.seeded /\ q.seeded => r.by = q.by
       /\ \A t, u \in Tasks : Seeding(t) /\ Seeding(u) => t = u
       /\ \A t \in Tasks : Seeding(t) /\ task[t].at = "insert" =>
            \A r \in chain : r.seeded => r \in task[t].doomed

\* Steps that begin no seed keep it, if they neither add nor change a seeded row.
LEMMA SeedStays ==
  ASSUME SeedInv, reseeded' = reseeded,
         \A u \in Tasks : task'[u].op = "seed" => task'[u] = task[u],
         \A r \in chain' : "by" \in DOMAIN r /\ "seeded" \in DOMAIN r,
         ~reseeded => \A r \in chain' : r.seeded => r \in chain \/ \E q \in chain :
                         q.seeded /\ q.by = r.by /\ \A t \in Tasks : Seeding(t) => q \notin task[t].doomed
  PROVE  SeedInv'
BY DEF SeedInv, Seeding

LEMMA EditsKeepSeed ==
  ASSUME Shape, SeedInv, NEW t \in Tasks, CreateFallback(t) \/ UpdateFallback(t) \/ DeleteFallback(t)
  PROVE  SeedInv'
<1>1. Begin(t, Idle) /\ reseeded' = reseeded
  BY DEF CreateFallback, UpdateFallback, DeleteFallback
<1>2. \A u \in Tasks : task'[u].op = "seed" => task'[u] = task[u]
  BY <1>1, BeginMoves DEF Idle
<1>3. CASE CreateFallback(t)
  <2>1. PICK m, p, b : chain' = chain \cup {Inserted(begun', FALSE, m, p, b)}
    BY <1>3 DEF CreateFallback
  <2>2. \A r \in chain' : "by" \in DOMAIN r /\ "seeded" \in DOMAIN r
    BY <2>1 DEF SeedInv, Inserted
  <2>3. \A r \in chain' : r.seeded => r \in chain
    BY <2>1 DEF Inserted
  <2> QED BY <1>1, <1>2, <2>2, <2>3, SeedStays
<1>4. CASE UpdateFallback(t)
  <2>1. PICK r \in chain \ Doomed, p \in Pools, b \in BOOLEAN :
          chain' = (chain \ {r}) \cup {[r EXCEPT !.pool = p, !.enabled = b]}
    BY <1>4 DEF UpdateFallback
  <2> DEFINE q == [r EXCEPT !.pool = p, !.enabled = b]
  <2>2. "by" \in DOMAIN q /\ "seeded" \in DOMAIN q /\ q.by = r.by /\ q.seeded = r.seeded
    BY DEF SeedInv
  <2>3. \A u \in Tasks : Seeding(u) => r \notin task[u].doomed
    BY <2>1 DEF Doomed, Seeding
  <2>4. chain' = (chain \ {r}) \cup {q}
    BY <2>1
  <2> HIDE DEF q
  <2>5. \A x \in chain' : "by" \in DOMAIN x /\ "seeded" \in DOMAIN x
    BY <2>2, <2>4 DEF SeedInv
  <2>6. \A x \in chain' : x.seeded => x \in chain \/ \E y \in chain :
          y.seeded /\ y.by = x.by /\ \A u \in Tasks : Seeding(u) => y \notin task[u].doomed
    BY <2>2, <2>3, <2>4
  <2> QED BY <1>1, <1>2, <2>5, <2>6, SeedStays
<1>5. CASE DeleteFallback(t)
  <2>1. chain' \subseteq chain
    BY <1>5 DEF DeleteFallback
  <2> QED BY <1>1, <1>2, <2>1, SeedStays DEF SeedInv
<1> QED BY <1>3, <1>4, <1>5

LEMMA SeedSteps == Shape /\ SeedInv /\ FallbackNext => SeedInv'
<1> SUFFICES ASSUME Shape, SeedInv, NEW t \in Tasks,
               \/ CreateFallback(t) \/ UpdateFallback(t) \/ DeleteFallback(t)
               \/ SeedCatalog(t) \/ SeedSelects(t) \/ SeedDeletes(t) \/ SeedInserts(t)
               \/ MigrateModels(t) \/ MigrateModelsCommits(t)
             PROVE  SeedInv'
  BY DEF FallbackNext
<1>1. CASE CreateFallback(t) \/ UpdateFallback(t) \/ DeleteFallback(t)
  BY <1>1, EditsKeepSeed
<1>2. CASE SeedCatalog(t)
  <2>1. /\ Begin(t, [op |-> "seed", at |-> "select", by |-> begun + 1, listed |-> <<>>, doomed |-> {}])
        /\ reseeded' = (reseeded \/ \E u \in Tasks : task[u].op = "seed") /\ chain' = chain
    BY <1>2 DEF SeedCatalog
  <2>2. /\ task'[t] = [op |-> "seed", at |-> "select", by |-> begun + 1, listed |-> <<>>, doomed |-> {}]
        /\ \A u \in Tasks \ {t} : task'[u] = task[u]
    BY <2>1, BeginMoves
  <2>3. reseeded' \in BOOLEAN /\ (~reseeded' => ~reseeded /\ \A u \in Tasks : ~Seeding(u))
    BY <2>1 DEF Seeding
  <2> QED BY <2>1, <2>2, <2>3 DEF SeedInv, Seeding
<1>3. CASE SeedSelects(t)
  <2> DEFINE job == [task[t] EXCEPT !.at = "delete", !.listed = models]
  <2>1. Continue(t, job) /\ chain' = chain /\ reseeded' = reseeded /\ Seeding(t)
    BY <1>3 DEF SeedSelects, fallbackVars, Seeding
  <2>2. {"op", "at", "by", "listed", "doomed"} \subseteq DOMAIN task[t]
    BY <2>1 DEF SeedInv
  <2>3. DOMAIN job = DOMAIN task[t] /\ job.at = "delete" /\ job.op = task[t].op
    BY <2>2
  <2> HIDE DEF job
  <2>4. task'[t] = job /\ \A u \in Tasks \ {t} : task'[u] = task[u]
    BY <2>1, <2>2, <2>3, ContinueMoves
  <2> QED BY <2>1, <2>2, <2>3, <2>4 DEF SeedInv, Seeding
<1>4. CASE SeedDeletes(t)
  <2> DEFINE job == [task[t] EXCEPT !.at = "insert", !.doomed = chain]
  <2>1. Continue(t, job) /\ chain' = chain /\ reseeded' = reseeded /\ Seeding(t)
    BY <1>4 DEF SeedDeletes, Deletes, Seeding
  <2>2. {"op", "at", "by", "listed", "doomed"} \subseteq DOMAIN task[t]
    BY <2>1 DEF SeedInv
  <2>3. DOMAIN job = DOMAIN task[t] /\ job.doomed = chain /\ job.op = task[t].op
    BY <2>2
  <2> HIDE DEF job
  <2>4. task'[t] = job /\ \A u \in Tasks \ {t} : task'[u] = task[u]
    BY <2>1, <2>2, <2>3, ContinueMoves
  <2> QED BY <2>1, <2>2, <2>3, <2>4 DEF SeedInv, Seeding
<1>5. CASE SeedInserts(t)
  <2>1. Seeding(t) /\ task[t].at = "insert" /\ End(t) /\ reseeded' = reseeded
    BY <1>5 DEF SeedInserts, Seeding
  <2>2. task'[t].op = "idle" /\ \A u \in Tasks \ {t} : task'[u] = task[u]
    BY <2>1, EndMoves
  <2>3. PICK new : /\ chain' = (chain \ task[t].doomed) \cup new
                   /\ \A r \in new : "by" \in DOMAIN r /\ "seeded" \in DOMAIN r /\ r.by = task[t].by
    <3> DEFINE listed == task[t].listed
               new == {Inserted(task[t].by, TRUE, mp[1], mp[2], TRUE)
                       : mp \in {mp \in (DOMAIN listed) \X Pools :
                                   mp[2] \in PoolsOf[<<mp[1], listed[mp[1]].features>>]}}
    <3>1. chain' = (chain \ task[t].doomed) \cup new
      BY <1>5 DEF SeedInserts
    <3>2. ASSUME NEW r \in new
          PROVE  "by" \in DOMAIN r /\ "seeded" \in DOMAIN r /\ r.by = task[t].by
      <4>1. \E mp : r = Inserted(task[t].by, TRUE, mp[1], mp[2], TRUE)
        OBVIOUS
      <4> QED BY <4>1 DEF Inserted
    <3> QED BY <3>1, <3>2
  <2> QED BY <2>1, <2>2, <2>3 DEF SeedInv, Seeding
<1>6. CASE MigrateModels(t) \/ MigrateModelsCommits(t)
  <2>1. chain' = chain /\ reseeded' = reseeded
    BY <1>6 DEF MigrateModels, MigrateModelsCommits, fallbackVars
  <2>2. \A u \in Tasks : task'[u].op = "seed" => task'[u] = task[u]
    BY <1>6, BeginMoves, EndMoves DEF MigrateModels, MigrateModelsCommits
  <2> QED BY <2>1, <2>2, SeedStays DEF SeedInv
<1> QED BY <1>1, <1>2, <1>3, <1>4, <1>5, <1>6

\* The chain holds the rows of one seed at most, unless two seeds overlapped.
THEOREM SeededOnceAlways == Spec => []SeededOnce
<1>1. Init => Shape /\ SeedInv
  <2> SUFFICES ASSUME Init PROVE SeedInv
    BY ShapeInit
  <2>1. \A t \in Tasks : ~Seeding(t)
    BY DEF Init, TasksInit, Seeding, Idle
  <2>2. PICK m : chain = {Inserted(0, FALSE, i, "chat", m[i]) : i \in DOMAIN models}
    BY DEF Init, FallbackInit
  <2>3. reseeded = FALSE
    BY DEF Init, FallbackInit
  <2>4. ASSUME NEW r \in chain
        PROVE  "by" \in DOMAIN r /\ "seeded" \in DOMAIN r /\ ~r.seeded
    <3>1. \E i : r = Inserted(0, FALSE, i, "chat", m[i])
      BY <2>2
    <3> QED BY <3>1 DEF Inserted
  <2> QED BY <2>1, <2>3, <2>4 DEF SeedInv
<1>2. Shape /\ SeedInv /\ [Next]_vars => (Shape /\ SeedInv)'
  <2> SUFFICES ASSUME Shape, SeedInv, [Next]_vars PROVE SeedInv'
    BY ShapeNext
  <2>1. ASSUME UNCHANGED fallbackVars, \A u \in Tasks : task'[u].op = "seed" => task'[u] = task[u]
        PROVE  SeedInv'
    BY <2>1, SeedStays DEF SeedInv, fallbackVars
  <2>2. ASSUME NEW ops, "seed" \notin ops, Steps(ops), UNCHANGED fallbackVars
        PROVE  SeedInv'
    BY <2>1, <2>2, OthersStay
  <2>3. CASE OnKeys
    BY <2>2, <2>3, KeysMove DEF OnKeys, KeyOps
  <2>4. CASE OnSettings
    BY <2>2, <2>4, SettingsMove DEF OnSettings
  <2>5. CASE OnCatalog
    BY <2>2, <2>5, CatalogMoves DEF OnCatalog
  <2>6. CASE OnRequests
    BY <2>2, <2>6, RequestsMove DEF OnRequests
  <2>7. CASE OnChain
    BY <2>7, SeedSteps DEF OnChain
  <2>8. CASE Failure
    BY <2>1, <2>8, FailuresStay DEF Failure
  <2>9. CASE UNCHANGED vars
    BY <2>1, <2>9 DEF vars, taskVars
  <2> QED BY <2>3, <2>4, <2>5, <2>6, <2>7, <2>8, <2>9 DEF Next
<1>3. SeedInv => SeededOnce
  BY DEF SeedInv, SeededOnce
<1> QED BY <1>1, <1>2, <1>3, PTL DEF Spec

-----------------------------------------------------------------------------
(* The settings *)

\* While a name has not been found absent by two tasks at a time, it has one row at
\* most, and none as long as a task is about to insert one.
SettingInv ==
  /\ \A s \in settings : {"name", "value", "by"} \subseteq DOMAIN s
  /\ \A t \in Tasks : task[t].op = "put" =>
       {"op", "wanted", "keep", "by", "found"} \subseteq DOMAIN task[t]
  /\ \A n \in Names \ collided :
       /\ \A s, u \in settings : s.name = n /\ u.name = n => s = u
       /\ \A t \in Tasks : n \in Absent(t) =>
            /\ \A s \in settings : s.name # n
            /\ \A u \in Tasks : n \in Absent(u) => u = t

LEMMA AbsentIs ==
  ASSUME NEW t \in Tasks, NEW n
  PROVE  /\ n \in Absent(t) <=>
              task[t].op = "put" /\ n \in DOMAIN task[t].found /\ task[t].found[n] = {}
         /\ (n \in Absent(t))' <=>
              task'[t].op = "put" /\ n \in DOMAIN task'[t].found /\ task'[t].found[n] = {}
BY DEF Absent

LEMMA SettingsStay ==
  ASSUME SettingInv, UNCHANGED settingVars,
         \A u \in Tasks : task'[u].op = "put" =>
           \/ task'[u] = task[u]
           \/ {"op", "wanted", "keep", "by", "found"} \subseteq DOMAIN task'[u] /\ DOMAIN task'[u].found = {}
  PROVE  SettingInv'
<1>1. ASSUME NEW u \in Tasks, NEW n, (n \in Absent(u))' PROVE n \in Absent(u)
  BY <1>1, AbsentIs
<1> QED BY <1>1 DEF SettingInv, settingVars

LEMMA PutsKeep ==
  ASSUME Shape, SettingInv, NEW t \in Tasks, NEW wanted, NEW keep, Puts(t, wanted, keep)
  PROVE  SettingInv'
<1> DEFINE job == [op |-> "put", wanted |-> wanted, keep |-> keep, by |-> begun + 1,
                   found |-> [n \in {} |-> {}]]
<1>1. Begin(t, job) /\ UNCHANGED settingVars
  BY DEF Puts
<1>2. /\ {"op", "wanted", "keep", "by", "found"} \subseteq DOMAIN job /\ DOMAIN job.found = {}
      /\ "op" \in DOMAIN job
  OBVIOUS
<1> HIDE DEF job
<1>3. task'[t] = job /\ \A u \in Tasks \ {t} : task'[u] = task[u]
  BY <1>1, <1>2, BeginMoves
<1> QED BY <1>1, <1>2, <1>3, SettingsStay

LEMMA LooksKeep == ASSUME Shape, SettingInv, NEW t \in Tasks, Looks(t) PROVE SettingInv'
<1>1. PICK n : /\ Continue(t, [task[t] EXCEPT !.found =
                         [m \in DOMAIN @ \cup {n} |-> IF m = n THEN Find(n) ELSE @[m]]])
               /\ collided' = IF Rows(n) = {} /\ \E u \in Tasks \ {t} : n \in Absent(u)
                              THEN collided \cup {n} ELSE collided
  BY DEF Looks
<1>2. task[t].op = "put" /\ settings' = settings
  BY DEF Looks
<1>3. {"op", "wanted", "keep", "by", "found"} \subseteq DOMAIN task[t]
  BY <1>2 DEF SettingInv
<1> DEFINE found == [m \in DOMAIN task[t].found \cup {n} |-> IF m = n THEN Find(n) ELSE task[t].found[m]]
           job == [task[t] EXCEPT !.found = found]
<1>4. /\ DOMAIN job = DOMAIN task[t] /\ job.found = found /\ job.op = "put" /\ Continue(t, job)
  BY <1>1, <1>2, <1>3
<1> HIDE DEF job
<1>5. task'[t] = job /\ \A u \in Tasks \ {t} : task'[u] = task[u]
  BY <1>3, <1>4, ContinueMoves
<1>6. ASSUME NEW m PROVE (m \in Absent(t))' <=> (m = n /\ Rows(n) = {}) \/ (m # n /\ m \in Absent(t))
  BY <1>2, <1>4, <1>5, AbsentIs DEF Find
<1>7. ASSUME NEW m, NEW u \in Tasks \ {t} PROVE (m \in Absent(u))' <=> m \in Absent(u)
  BY <1>5, <1>7, AbsentIs
<1>8. Rows(n) = {} => \A s \in settings : s.name # n
  BY DEF Rows
<1>9. ASSUME NEW m \in Names \ collided'
      PROVE  /\ \A s, u \in settings : s.name = m /\ u.name = m => s = u
             /\ \A v \in Tasks : (m \in Absent(v))' =>
                  /\ \A s \in settings : s.name # m
                  /\ \A u \in Tasks : (m \in Absent(u))' => u = v
  <2>1. m \in Names \ collided
    BY <1>1
  <2>2. CASE m = n
    <3>1. Rows(n) = {} => \A u \in Tasks \ {t} : n \notin Absent(u)
      BY <1>1, <1>9, <2>2
    <3> QED BY <1>6, <1>7, <1>8, <2>1, <2>2, <3>1 DEF SettingInv
  <2>3. CASE m # n
    BY <1>6, <1>7, <2>1, <2>3 DEF SettingInv
  <2> QED BY <2>2, <2>3
<1> QED BY <1>2, <1>3, <1>4, <1>5, <1>9 DEF SettingInv

LEMMA PutCommitsKeep == ASSUME Shape, SettingInv, NEW t \in Tasks, PutCommits(t) PROVE SettingInv'
<1> DEFINE wanted == task[t].wanted
           found == task[t].found
           Replaces(s) == /\ s.name \in DOMAIN wanted /\ ~task[t].keep
                          /\ \E f \in found[s.name] : f.by = s.by /\ f.value # wanted[s.name]
           next(s) == IF Replaces(s) THEN [s EXCEPT !.value = wanted[s.name]] ELSE s
           row(n) == [name |-> n, value |-> wanted[n], by |-> task[t].by]
<1>1. settings' = {next(s) : s \in settings} \cup {row(n) : n \in Absent(t)}
  BY DEF PutCommits
<1>2. End(t) /\ collided' = collided
  BY DEF PutCommits
<1>3. task'[t].op = "idle" /\ \A u \in Tasks \ {t} : task'[u] = task[u]
  BY <1>2, EndMoves
<1>4. ASSUME NEW s \in settings
      PROVE  {"name", "value", "by"} \subseteq DOMAIN next(s) /\ next(s).name = s.name
  <2>1. {"name", "value", "by"} \subseteq DOMAIN s
    BY DEF SettingInv
  <2> QED BY <2>1
<1>5. ASSUME NEW n PROVE {"name", "value", "by"} \subseteq DOMAIN row(n) /\ row(n).name = n
  OBVIOUS
<1> HIDE DEF next, row
<1>6. ASSUME NEW n, NEW u \in Tasks, (n \in Absent(u))' PROVE u # t /\ n \in Absent(u)
  BY <1>3, <1>6, AbsentIs
<1>7. \A s \in settings' : {"name", "value", "by"} \subseteq DOMAIN s
  BY <1>1, <1>4, <1>5
<1>8. ASSUME NEW n \in Names \ collided
      PROVE  /\ \A s, u \in settings' : s.name = n /\ u.name = n => s = u
             /\ \A v \in Tasks : (n \in Absent(v))' =>
                  /\ \A s \in settings' : s.name # n
                  /\ \A u \in Tasks : (n \in Absent(u))' => u = v
  <2>1. CASE n \in Absent(t)
    <3>1. \A s \in settings : s.name # n
      BY <2>1 DEF SettingInv
    <3>2. \A s \in settings' : s.name = n => s = row(n)
      BY <1>1, <1>4, <1>5, <3>1
    <3>3. \A u \in Tasks : ~(n \in Absent(u))'
      BY <1>6, <2>1 DEF SettingInv
    <3> QED BY <3>2, <3>3
  <2>2. CASE n \notin Absent(t)
    <3>1. \A s \in settings' : s.name = n => \E q \in settings : q.name = n /\ s = next(q)
      BY <1>1, <1>4, <1>5, <2>2
    <3>2. \A s, u \in settings' : s.name = n /\ u.name = n => s = u
      BY <3>1 DEF SettingInv
    <3> QED BY <1>6, <3>1, <3>2 DEF SettingInv
  <2> QED BY <2>1, <2>2
<1> QED BY <1>2, <1>3, <1>7, <1>8 DEF SettingInv

LEMMA SettingSteps == Shape /\ SettingInv /\ SettingsNext => SettingInv'
BY PutsKeep, LooksKeep, PutCommitsKeep
   DEF SettingsNext, UpdateSettings, RegenerateApiKey, MigrateSettings

\* A setting can be read, unless two writers found it absent before either
\* committed.
THEOREM SettingReadableAlways == Spec => []SettingReadable
<1>1. Init => Shape /\ SettingInv
  <2> SUFFICES ASSUME Init PROVE SettingInv
    BY ShapeInit
  <2>1. \A t \in Tasks : task[t].op = "idle"
    BY DEF Init, TasksInit, Idle
  <2>2. settings \in SUBSET [name : Names, value : Values, by : {0}]
    BY DEF Init, SettingsInit
  <2>3. ASSUME NEW s \in settings PROVE {"name", "value", "by"} \subseteq DOMAIN s
    BY <2>2
  <2>4. \A s, u \in settings : s.name = u.name => s = u
    BY DEF Init, SettingsInit
  <2> QED BY <2>1, <2>3, <2>4, AbsentIs DEF SettingInv
<1>2. Shape /\ SettingInv /\ [Next]_vars => (Shape /\ SettingInv)'
  <2> SUFFICES ASSUME Shape, SettingInv, [Next]_vars PROVE SettingInv'
    BY ShapeNext
  <2>1. ASSUME NEW ops, "put" \notin ops, Steps(ops), UNCHANGED settingVars
        PROVE  SettingInv'
    BY <2>1, OthersStay, SettingsStay
  <2>2. CASE OnKeys
    BY <2>1, <2>2, KeysMove DEF OnKeys, KeyOps
  <2>3. CASE OnSettings
    BY <2>3, SettingSteps DEF OnSettings
  <2>4. CASE OnCatalog
    BY <2>1, <2>4, CatalogMoves DEF OnCatalog
  <2>5. CASE OnChain
    BY <2>1, <2>5, ChainMoves DEF OnChain, ChainOps
  <2>6. CASE OnRequests
    BY <2>1, <2>6, RequestsMove DEF OnRequests
  <2>7. CASE Failure
    BY <2>7, FailuresStay, SettingsStay DEF Failure
  <2>8. CASE UNCHANGED vars
    BY <2>8, SettingsStay DEF vars, taskVars
  <2> QED BY <2>2, <2>3, <2>4, <2>5, <2>6, <2>7, <2>8 DEF Next
<1>3. SettingInv => SettingReadable
  <2> SUFFICES ASSUME SettingInv, NEW n \in Names, n \notin collided
               PROVE  Cardinality(Rows(n)) <= 1
    BY DEF SettingReadable
  <2>1. CASE Rows(n) = {}
    BY <2>1, FS_EmptySet
  <2>2. CASE Rows(n) # {}
    <3>1. PICK s : s \in Rows(n)
      BY <2>2
    <3>2. Rows(n) = {s}
      BY <3>1 DEF Rows, SettingInv
    <3> QED BY <3>2, FS_Singleton
  <2> QED BY <2>1, <2>2
<1> QED BY <1>1, <1>2, <1>3, PTL DEF Spec

-----------------------------------------------------------------------------
(* The addresses of the platforms *)

PlatformInv ==
  /\ platforms = [p \in DOMAIN platforms |-> platforms[p]]
  /\ \A p \in DOMAIN platforms : {"url", "native", "rest", "enabled"} \subseteq DOMAIN platforms[p]

LosesUrl(p) == platforms[p].url # NoUrl /\ platforms'[p].url = NoUrl
Sanctioned(p) == \E t \in Tasks : Writes(t, "platforms") /\ task[t].loaded[p].url = NoUrl

UrlStep ==
  /\ PlatformInv'
  /\ \A p \in DOMAIN platforms : LosesUrl(p) => Sanctioned(p)

LEMMA EditPlatformStep == ASSUME PlatformInv, NEW t \in Tasks, EditPlatform(t) PROVE UrlStep
<1>1. PICK p \in DOMAIN platforms :
        \/ \E u \in Urls : platforms' = [platforms EXCEPT ![p].url = u]
        \/ platforms' = [platforms EXCEPT ![p].enabled = ~@]
  BY DEF EditPlatform
<1>2. ASSUME NEW u \in Urls, platforms' = [platforms EXCEPT ![p].url = u] PROVE UrlStep
  BY <1>2, CatalogAssumption DEF PlatformInv, UrlStep, LosesUrl
<1>3. CASE platforms' = [platforms EXCEPT ![p].enabled = ~@]
  BY <1>3 DEF PlatformInv, UrlStep, LosesUrl
<1> QED BY <1>1, <1>2, <1>3

LEMMA SeedPlatformsStep == ASSUME PlatformInv, NEW t \in Tasks, SeedPlatforms(t) PROVE UrlStep
BY CatalogAssumption DEF SeedPlatforms, PlatformInv, UrlStep, LosesUrl

LEMMA WritePlatformsStep == ASSUME PlatformInv, NEW t \in Tasks, WritePlatforms(t) PROVE UrlStep
<1> DEFINE loaded == task[t].loaded
           entry == Provided(task[t].data)
           changed == {p \in DOMAIN entry \cap DOMAIN loaded : PlatformChanged(loaded[p], entry[p])}
<1>1. Writes(t, "platforms")
  BY DEF WritePlatforms
<1>2. platforms' = IF task[t].dry THEN platforms
                   ELSE [p \in DOMAIN platforms |->
                           IF p \in changed THEN Updated(platforms[p], loaded[p], entry[p])
                                            ELSE platforms[p]]
  BY DEF WritePlatforms
<1> HIDE DEF changed, entry
<1>3. ASSUME NEW p \in DOMAIN platforms
      PROVE  LET row == Updated(platforms[p], loaded[p], entry[p])
             IN /\ {"url", "native", "rest", "enabled"} \subseteq DOMAIN row
                /\ row.url = IF KeepsUrl(loaded[p], entry[p]) THEN platforms[p].url ELSE entry[p].url
  BY DEF PlatformInv, Updated
<1>4. ASSUME NEW p \in DOMAIN platforms, LosesUrl(p) PROVE loaded[p].url = NoUrl
  BY <1>2, <1>3, <1>4 DEF LosesUrl, KeepsUrl
<1>5. PlatformInv'
  BY <1>2, <1>3 DEF PlatformInv
<1> QED BY <1>1, <1>4, <1>5 DEF UrlStep, Sanctioned

\* A stored address gives way to none only in a sync that read the row before
\* the address was stored.
THEOREM UrlKeptAlways == Spec => UrlKept
<1>1. Init => PlatformInv
  <2> SUFFICES ASSUME Init PROVE PlatformInv
    OBVIOUS
  <2>1. PICK ids \in SUBSET PlatformIds : platforms \in [ids -> PlatformRow]
    BY DEF Init, CatalogInit
  <2> QED BY <2>1 DEF PlatformInv, PlatformRow
<1>2. PlatformInv /\ [Next]_vars => UrlStep
  <2> SUFFICES ASSUME PlatformInv, [Next]_vars PROVE UrlStep
    OBVIOUS
  <2>1. CASE platforms' = platforms
    BY <2>1 DEF PlatformInv, UrlStep, LosesUrl
  <2>2. CASE OnCatalog
    BY <2>1, <2>2, EditPlatformStep, SeedPlatformsStep, WritePlatformsStep
       DEF OnCatalog, CatalogNext, catalogVars, Sync, DownloadEnds, DownloadTorn, ReadsRows, FetchesAgain,
           WriteModels, SeedWindows, Publish, CacheExpires
  <2>3. CASE OnChain
    BY <2>1, <2>3 DEF OnChain, FallbackNext, CreateFallback, UpdateFallback, DeleteFallback, SeedCatalog,
         SeedSelects, SeedDeletes, SeedInserts, MigrateModels, MigrateModelsCommits, catalogVars
  <2>4. CASE OnKeys \/ OnSettings \/ OnRequests \/ Failure \/ UNCHANGED vars
    BY <2>1, <2>4 DEF OnKeys, OnSettings, OnRequests, Failure, vars, catalogVars
  <2> QED BY <2>2, <2>3, <2>4 DEF Next
<1>3. UrlStep => PlatformInv'
  BY DEF UrlStep
<1>4. UrlStep => \A p \in DOMAIN platforms :
                   platforms[p].url # NoUrl /\ platforms'[p].url = NoUrl =>
                     \E t \in Tasks : Writes(t, "platforms") /\ task[t].loaded[p].url = NoUrl
  BY DEF UrlStep, LosesUrl, Sanctioned
<1> QED BY <1>1, <1>2, <1>3, <1>4, PTL DEF Spec, UrlKept

-----------------------------------------------------------------------------
(* The keys *)

LEMMA InjectionExists ==
  ASSUME NEW S, NEW T, IsFiniteSet(S), IsFiniteSet(T), Cardinality(S) <= Cardinality(T)
  PROVE  \E f \in [S -> T] : \A a, b \in S : f[a] = f[b] => a = b
<1>1. PICK m \in Nat, n \in Nat : m = Cardinality(S) /\ n = Cardinality(T)
  BY FS_CardinalityType
<1>2. PICK g : g \in Bijection(1 .. n, T)
  BY <1>1, FS_CardinalityType DEF ExistsBijection
<1>3. PICK f : f \in Bijection(S, 1 .. m)
  BY <1>1, FS_CardinalityType, Fun_ExistsBijSymmetric DEF ExistsBijection
<1>4. f \in Injection(S, 1 .. n)
  BY <1>1, <1>3 DEF Bijection, Injection
<1>5. g \in Injection(1 .. n, T)
  BY <1>2 DEF Bijection
<1> DEFINE h == [x \in S |-> g[f[x]]]
<1>6. h \in Injection(S, T)
  BY <1>4, <1>5, Fun_InjTransitive
<1> HIDE DEF h
<1> QED BY <1>6 DEF Injection, IsInjective

MigratingKeys(t) == task[t].op = "migrate-keys"

\* Ids are never given twice; a key that the script will add is not in the table.
KeyInv ==
  /\ given \subseteq KeyIds /\ DOMAIN keys \subseteq given
  /\ keys = [k \in DOMAIN keys |-> keys[k]]
  /\ \A k \in DOMAIN keys : keys[k] \in KeyRow
  /\ \A t \in Tasks : task[t].op = "create" => task[t].platform \in Platforms
  /\ \A t \in Tasks : task[t].op = "set" => task[t].value \in BOOLEAN
  /\ \A t \in Tasks : MigratingKeys(t) =>
       /\ {"op", "todo", "add", "met"} \subseteq DOMAIN task[t]
       /\ task[t].todo \subseteq OldKeys /\ task[t].add \subseteq OldKeys
       /\ \A u \in Tasks : MigratingKeys(u) => u = t
       /\ \A k \in DOMAIN keys : keys[k].from \notin task[t].add
  /\ \A k \in DOMAIN keys : keys[k].from \in OldKeys => keys[k].platform = OldRow[keys[k].from].platform
  /\ \A k, l \in DOMAIN keys : keys[k].from = keys[l].from /\ keys[k].from # New => k = l

Flips(k) == keys'[k].enabled # keys[k].enabled
Asked(k) == \E t \in Tasks : /\ task[t].op = "set" /\ k \in DOMAIN task[t].loaded
                             /\ task[t].value = keys'[k].enabled /\ task'[t] = Idle

KeyStep ==
  /\ KeyInv'
  /\ \A k \in DOMAIN keys \cap DOMAIN keys' : Flips(k) => Asked(k)

\* Steps that neither touch the keys nor begin a task on them.
LEMMA KeysStay ==
  ASSUME KeyInv, UNCHANGED <<keys, given>>,
         \A u \in Tasks : task'[u].op \in KeyOps => task'[u] = task[u]
  PROVE  KeyStep
BY DEF KeyInv, KeyStep, Flips, MigratingKeys, KeyOps

LEMMA BeginKeys ==
  ASSUME Shape, KeyInv, NEW t \in Tasks,
         \/ CreateKey(t) \/ ValidateKey(t) \/ ValidateAll(t)
         \/ UpdateKey(t) \/ TogglePlatform(t) \/ DeleteKey(t)
  PROVE  KeyStep
<1>1. PICK job : /\ Begin(t, job) /\ "op" \in DOMAIN job /\ job.op \in KeyOps \ {"migrate-keys"}
                 /\ job.op = "create" => job.platform \in Platforms
                 /\ job.op = "set" => job.value \in BOOLEAN
                 /\ keys' = keys /\ given' = given
  <2>1. CASE CreateKey(t)
    <3>1. PICK p \in Platforms : Begin(t, [op |-> "create", platform |-> p]) /\ UNCHANGED keyVars
      BY <2>1 DEF CreateKey
    <3> DEFINE job == [op |-> "create", platform |-> p]
    <3>2. "op" \in DOMAIN job /\ job.op = "create" /\ job.platform \in Platforms
      OBVIOUS
    <3>3. Begin(t, job) /\ keys' = keys /\ given' = given
      BY <3>1 DEF keyVars
    <3> HIDE DEF job
    <3> QED BY <3>2, <3>3 DEF KeyOps
  <2>2. ASSUME NEW ids, Checks(t, ids)
        PROVE  \E job : /\ Begin(t, job) /\ "op" \in DOMAIN job /\ job.op = "validate"
                        /\ keys' = keys /\ given' = given
    <3> DEFINE job == [op |-> "validate", loaded |-> [k \in ids |-> keys[k]]]
    <3>1. "op" \in DOMAIN job /\ job.op = "validate"
      OBVIOUS
    <3>2. Begin(t, job) /\ keys' = keys /\ given' = given
      BY <2>2 DEF Checks
    <3> HIDE DEF job
    <3> QED BY <3>1, <3>2
  <2>3. ASSUME NEW ids, NEW b \in BOOLEAN, Sets(t, ids, b)
        PROVE  \E job : /\ Begin(t, job) /\ "op" \in DOMAIN job /\ job.op = "set" /\ job.value \in BOOLEAN
                        /\ keys' = keys /\ given' = given
    <3> DEFINE job == [op |-> "set", loaded |-> [k \in ids |-> keys[k]], value |-> b]
    <3>1. "op" \in DOMAIN job /\ job.op = "set" /\ job.value \in BOOLEAN
      OBVIOUS
    <3>2. Begin(t, job) /\ keys' = keys /\ given' = given
      BY <2>3 DEF Sets, keyVars
    <3> HIDE DEF job
    <3> QED BY <3>1, <3>2
  <2>4. CASE DeleteKey(t)
    <3>1. PICK k : Begin(t, [op |-> "delete", id |-> k]) /\ UNCHANGED keyVars
      BY <2>4 DEF DeleteKey
    <3> DEFINE job == [op |-> "delete", id |-> k]
    <3>2. "op" \in DOMAIN job /\ job.op = "delete"
      OBVIOUS
    <3>3. Begin(t, job) /\ keys' = keys /\ given' = given
      BY <3>1 DEF keyVars
    <3> HIDE DEF job
    <3> QED BY <3>2, <3>3 DEF KeyOps
  <2>5. CASE ValidateKey(t) \/ ValidateAll(t)
    <3>1. \E ids : Checks(t, ids)
      BY <2>5 DEF ValidateKey, ValidateAll
    <3>2. \E job : /\ Begin(t, job) /\ "op" \in DOMAIN job /\ job.op = "validate"
                   /\ keys' = keys /\ given' = given
      BY <2>2, <3>1
    <3> QED BY <3>2 DEF KeyOps
  <2>6. CASE UpdateKey(t) \/ TogglePlatform(t)
    <3>1. \E ids : \E b \in BOOLEAN : Sets(t, ids, b)
      BY <2>6 DEF UpdateKey, TogglePlatform
    <3>2. \E job : /\ Begin(t, job) /\ "op" \in DOMAIN job /\ job.op = "set" /\ job.value \in BOOLEAN
                   /\ keys' = keys /\ given' = given
      BY <2>3, <3>1
    <3> QED BY <3>2 DEF KeyOps
  <2> QED BY <2>1, <2>4, <2>5, <2>6
<1>2. task'[t] = job /\ \A u \in Tasks \ {t} : task'[u] = task[u]
  BY <1>1, BeginMoves
<1> QED BY <1>1, <1>2 DEF KeyInv, KeyStep, Flips, MigratingKeys, KeyOps

LEMMA MigrateKeysStep == ASSUME Shape, KeyInv, NEW t \in Tasks, MigrateKeys(t) PROVE KeyStep
<1> DEFINE job == [op |-> "migrate-keys", todo |-> OldKeys, add |-> {}, met |-> {}]
<1>1. Begin(t, job) /\ keys' = keys /\ given' = given /\ \A u \in Tasks : ~MigratingKeys(u)
  BY DEF MigrateKeys, keyVars, MigratingKeys
<1>2. /\ {"op", "todo", "add", "met"} \subseteq DOMAIN job /\ "op" \in DOMAIN job /\ job.op = "migrate-keys"
      /\ job.todo = OldKeys /\ job.add = {}
  OBVIOUS
<1> HIDE DEF job
<1>3. task'[t] = job /\ \A u \in Tasks \ {t} : task'[u] = task[u]
  BY <1>1, <1>2, BeginMoves
<1> QED BY <1>1, <1>2, <1>3 DEF KeyInv, KeyStep, Flips, MigratingKeys

LEMMA MigrateLooksStep == ASSUME Shape, KeyInv, NEW t \in Tasks, MigrateLooks(t) PROVE KeyStep
<1>1. PICK o \in task[t].todo :
        Continue(t, [task[t] EXCEPT !.todo = @ \ {o},
                       !.add = IF Taken(t, OldRow[o].platform) THEN @ ELSE @ \cup {o},
                       !.met = IF Of(OldRow[o].platform) = {} THEN @ ELSE @ \cup {OldRow[o].platform}])
  BY DEF MigrateLooks
<1>2. MigratingKeys(t) /\ keys' = keys /\ given' = given
  BY DEF MigrateLooks, MigratingKeys, keyVars
<1>3. /\ {"op", "todo", "add", "met"} \subseteq DOMAIN task[t]
      /\ task[t].todo \subseteq OldKeys /\ task[t].add \subseteq OldKeys
      /\ \A u \in Tasks : MigratingKeys(u) => u = t
      /\ \A k \in DOMAIN keys : keys[k].from \notin task[t].add
  BY <1>2 DEF KeyInv
<1> DEFINE job == [task[t] EXCEPT !.todo = @ \ {o},
                     !.add = IF Taken(t, OldRow[o].platform) THEN @ ELSE @ \cup {o},
                     !.met = IF Of(OldRow[o].platform) = {} THEN @ ELSE @ \cup {OldRow[o].platform}]
<1>4. /\ DOMAIN job = DOMAIN task[t] /\ job.op = task[t].op /\ job.todo = task[t].todo \ {o}
      /\ job.add = IF Taken(t, OldRow[o].platform) THEN task[t].add ELSE task[t].add \cup {o}
  BY <1>3
<1>5. Continue(t, job)
  BY <1>1
<1> HIDE DEF job
<1>6. task'[t] = job /\ \A u \in Tasks \ {t} : task'[u] = task[u]
  BY <1>3, <1>4, <1>5, ContinueMoves
<1>7. ASSUME NEW k \in DOMAIN keys, ~Taken(t, OldRow[o].platform) PROVE keys[k].from # o
  BY <1>3, <1>7 DEF Taken, Of, KeyInv
<1>8. \A k \in DOMAIN keys : keys[k].from \notin job.add
  BY <1>3, <1>4, <1>7
<1> QED BY <1>2, <1>3, <1>4, <1>6, <1>8 DEF KeyInv, KeyStep, Flips, MigratingKeys

\* A commit that changes rows without adding any, and keeps their origins and
\* platforms.
LEMMA RowsChange ==
  ASSUME KeyInv, NEW t \in Tasks, given' = given,
         task'[t] = Idle, \A u \in Tasks \ {t} : task'[u] = task[u],
         keys' = [k \in DOMAIN keys' |-> keys'[k]], DOMAIN keys' \subseteq DOMAIN keys,
         \A k \in DOMAIN keys' : /\ keys'[k] \in KeyRow /\ keys'[k].from = keys[k].from
                                 /\ keys'[k].platform = keys[k].platform
  PROVE  KeyInv'
BY DEF KeyInv, MigratingKeys, Idle

LEMMA ValidateCommitsStep == ASSUME Shape, KeyInv, NEW t \in Tasks, ValidateCommits(t) PROVE KeyStep
<1> DEFINE loaded == task[t].loaded
<1>1. PICK verdict \in [DOMAIN loaded -> Verdicts] :
        /\ DOMAIN loaded \subseteq DOMAIN keys
        /\ keys' = [k \in DOMAIN keys |->
                      IF k \in DOMAIN loaded THEN Checked(k, loaded[k], verdict[k]) ELSE keys[k]]
        /\ End(t)
  BY DEF ValidateCommits, Stored
<1>2. task'[t] = Idle /\ \A u \in Tasks \ {t} : task'[u] = task[u]
  BY <1>1, EndMoves
<1>3. ASSUME NEW k \in DOMAIN keys, k \in DOMAIN loaded
      PROVE  LET row == Checked(k, loaded[k], verdict[k])
             IN /\ row \in KeyRow /\ row.from = keys[k].from /\ row.platform = keys[k].platform
                /\ row.enabled = keys[k].enabled
  <2>1. keys[k] \in KeyRow /\ verdict[k] \in Verdicts
    BY <1>3 DEF KeyInv
  <2>2. Written(keys[k].status, loaded[k].status, verdict[k]) \in Statuses
    BY <2>1 DEF KeyRow, Written, Statuses
  <2> QED BY <2>1, <2>2 DEF KeyRow, Checked
<1>4. given' = given
  BY DEF ValidateCommits
<1> HIDE DEF loaded
<1>5. \A k \in DOMAIN keys : /\ keys'[k] \in KeyRow /\ keys'[k].from = keys[k].from
                             /\ keys'[k].platform = keys[k].platform /\ keys'[k].enabled = keys[k].enabled
  BY <1>1, <1>3 DEF KeyInv
<1>6. keys' = [k \in DOMAIN keys' |-> keys'[k]] /\ DOMAIN keys' = DOMAIN keys
  BY <1>1
<1>7. KeyInv'
  BY <1>2, <1>4, <1>5, <1>6, RowsChange
<1> QED BY <1>5, <1>7 DEF KeyStep, Flips

LEMMA SetCommitsStep == ASSUME Shape, KeyInv, NEW t \in Tasks, SetCommits(t) PROVE KeyStep
<1> DEFINE loaded == task[t].loaded
           value == task[t].value
           ids == {k \in DOMAIN loaded : loaded[k].enabled # value}
<1>1. /\ ids \subseteq DOMAIN keys
      /\ keys' = [k \in DOMAIN keys |-> IF k \in ids THEN Switched(k, loaded[k], value) ELSE keys[k]]
      /\ End(t) /\ given' = given /\ task[t].op = "set"
  BY DEF SetCommits, Stored
<1>2. task'[t] = Idle /\ \A u \in Tasks \ {t} : task'[u] = task[u]
  BY <1>1, EndMoves
<1>3. value \in BOOLEAN
  BY <1>1 DEF KeyInv
<1>4. ASSUME NEW k \in DOMAIN keys, k \in ids
      PROVE  LET row == Switched(k, loaded[k], value)
             IN /\ row \in KeyRow /\ row.from = keys[k].from /\ row.platform = keys[k].platform
                /\ row.enabled = value
  <2>1. keys[k] \in KeyRow
    BY DEF KeyInv
  <2>2. Written(keys[k].enabled, loaded[k].enabled, value) = value
    BY <1>4 DEF Written
  <2> QED BY <1>3, <2>1, <2>2 DEF KeyRow, Switched
<1>5. \A k \in ids : k \in DOMAIN loaded
  OBVIOUS
<1> HIDE DEF ids
<1>6. \A k \in DOMAIN keys : /\ keys'[k] \in KeyRow /\ keys'[k].from = keys[k].from
                             /\ keys'[k].platform = keys[k].platform
                             /\ k \in ids => keys'[k].enabled = value
                             /\ k \notin ids => keys'[k] = keys[k]
  BY <1>1, <1>4 DEF KeyInv
<1>7. keys' = [k \in DOMAIN keys' |-> keys'[k]] /\ DOMAIN keys' = DOMAIN keys
  BY <1>1
<1>8. KeyInv'
  BY <1>1, <1>2, <1>6, <1>7, RowsChange
<1> QED BY <1>1, <1>2, <1>5, <1>6, <1>8 DEF KeyStep, Flips, Asked

LEMMA DeleteCommitsStep == ASSUME Shape, KeyInv, NEW t \in Tasks, DeleteCommits(t) PROVE KeyStep
<1>1. /\ keys' = [k \in DOMAIN keys \ {task[t].id} |-> keys[k]] /\ given' = given
      /\ task'[t] = Idle /\ \A u \in Tasks \ {t} : task'[u] = task[u]
  BY EndMoves DEF DeleteCommits
<1>2. /\ DOMAIN keys' \subseteq DOMAIN keys /\ keys' = [k \in DOMAIN keys' |-> keys'[k]]
      /\ \A k \in DOMAIN keys' : keys'[k] = keys[k]
  BY <1>1
<1>3. \A k \in DOMAIN keys' : keys'[k] \in KeyRow
  BY <1>2 DEF KeyInv
<1>4. KeyInv'
  BY <1>1, <1>2, <1>3, RowsChange
<1> QED BY <1>2, <1>4 DEF KeyStep, Flips

LEMMA CreateCommitsStep == ASSUME Shape, KeyInv, NEW t \in Tasks, CreateCommits(t) PROVE KeyStep
<1> DEFINE k == NextId
           row == [platform |-> task[t].platform, enabled |-> TRUE, status |-> "unknown",
                   checked |-> "never", from |-> New]
<1>1. /\ Fresh # {} /\ task[t].op = "create" /\ given' = given \cup {k}
      /\ keys' = [i \in DOMAIN keys \cup {k} |-> IF i = k THEN row ELSE keys[i]]
      /\ task'[t] = Idle /\ \A u \in Tasks \ {t} : task'[u] = task[u]
  BY EndMoves DEF CreateCommits
<1>2. k \in KeyIds /\ k \notin given
  BY <1>1 DEF NextId, Fresh
<1>3. row \in KeyRow /\ row.from = New
  BY <1>1 DEF KeyInv, KeyRow, Statuses
<1> HIDE DEF k, row
<1>4. \A i \in DOMAIN keys : i # k /\ keys'[i] = keys[i]
  BY <1>1, <1>2 DEF KeyInv
<1>5. keys'[k] = row /\ DOMAIN keys' = DOMAIN keys \cup {k} /\ keys' = [i \in DOMAIN keys' |-> keys'[i]]
  BY <1>1
<1>6. KeyInv'
  BY <1>1, <1>2, <1>3, <1>4, <1>5, KeysAssumption DEF KeyInv, MigratingKeys, Idle
<1> QED BY <1>4, <1>6 DEF KeyStep, Flips

LEMMA MigrateCommitsStep == ASSUME Shape, KeyInv, NEW t \in Tasks, MigrateCommits(t) PROVE KeyStep
<1> DEFINE add == task[t].add
           id == CHOOSE f \in [add -> Fresh] : \A o, q \in add : f[o] = f[q] => o = q
           new == {id[o] : o \in add}
           row(o) == [platform |-> OldRow[o].platform, enabled |-> OldRow[o].enabled,
                      status |-> OldRow[o].status, checked |-> "never", from |-> o]
           origin(k) == CHOOSE o \in add : id[o] = k
<1>1. /\ keys' = [k \in DOMAIN keys \cup new |-> IF k \in new THEN row(origin(k)) ELSE keys[k]]
      /\ given' = given \cup new /\ MigratingKeys(t)
      /\ Cardinality(add) <= Cardinality(Fresh) /\ End(t)
  BY DEF MigrateCommits, MigratingKeys
<1>2. task'[t] = Idle /\ \A u \in Tasks \ {t} : task'[u] = task[u]
  BY <1>1, EndMoves
<1>3. add \subseteq OldKeys /\ \A k \in DOMAIN keys : keys[k].from \notin add
  BY <1>1 DEF KeyInv
<1>4. IsFiniteSet(add) /\ IsFiniteSet(Fresh)
  BY <1>3, FS_Subset, KeysAssumption DEF Fresh
<1>5. id \in [add -> Fresh] /\ \A o, q \in add : id[o] = id[q] => o = q
  BY <1>1, <1>4, InjectionExists
<1> HIDE DEF id
<1>6. \A k \in new : origin(k) \in add /\ id[origin(k)] = k
  OBVIOUS
<1>7. \A o \in OldKeys : row(o) \in KeyRow /\ row(o).from = o /\ row(o).platform = OldRow[o].platform
  BY KeysAssumption DEF KeyRow
<1>8. new \subseteq Fresh
  BY <1>5
<1> HIDE DEF new, row, origin, add
<1>9. new \subseteq KeyIds /\ new \cap given = {}
  BY <1>8 DEF Fresh
<1>10. \A k \in DOMAIN keys : k \notin new /\ keys'[k] = keys[k]
  BY <1>1, <1>9 DEF KeyInv
<1>11. /\ DOMAIN keys' = DOMAIN keys \cup new /\ keys' = [k \in DOMAIN keys' |-> keys'[k]]
       /\ \A k \in new : keys'[k] = row(origin(k))
  BY <1>1
<1>12. \A k \in new : /\ keys'[k] \in KeyRow /\ keys'[k].from = origin(k) /\ origin(k) \in add
                      /\ keys'[k].platform = OldRow[keys'[k].from].platform
  BY <1>3, <1>6, <1>7, <1>11
<1>13. \A k, l \in new : keys'[k].from = keys'[l].from => k = l
  BY <1>6, <1>12
<1>14. \A k \in new : \A l \in DOMAIN keys : keys'[k].from # keys'[l].from
  BY <1>3, <1>10, <1>12
<1>15. \A u \in Tasks : ~MigratingKeys(u)'
  BY <1>1, <1>2 DEF KeyInv, MigratingKeys, Idle
<1>16. KeyInv'
  <2>1. given' \subseteq KeyIds /\ DOMAIN keys' \subseteq given'
    BY <1>1, <1>9, <1>11 DEF KeyInv
  <2>2. \A k \in DOMAIN keys' : /\ keys'[k] \in KeyRow
                                /\ keys'[k].from \in OldKeys => keys'[k].platform = OldRow[keys'[k].from].platform
    BY <1>10, <1>11, <1>12 DEF KeyInv
  <2>3. \A k, l \in DOMAIN keys' : keys'[k].from = keys'[l].from /\ keys'[k].from # New => k = l
    BY <1>10, <1>11, <1>13, <1>14 DEF KeyInv
  <2>4. \A u \in Tasks : /\ task'[u].op = "create" => task'[u].platform \in Platforms
                         /\ task'[u].op = "set" => task'[u].value \in BOOLEAN
    BY <1>2 DEF KeyInv, Idle
  <2> QED BY <1>11, <1>15, <2>1, <2>2, <2>3, <2>4 DEF KeyInv
<1> QED BY <1>10, <1>16 DEF KeyStep, Flips

LEMMA KeySteps == Shape /\ KeyInv /\ KeysNext => KeyStep
BY BeginKeys, MigrateKeysStep, MigrateLooksStep, ValidateCommitsStep, SetCommitsStep, DeleteCommitsStep,
   CreateCommitsStep, MigrateCommitsStep DEF KeysNext

LEMMA KeyInit == Init => Shape /\ KeyInv
<1> SUFFICES ASSUME Init PROVE KeyInv
  BY ShapeInit
<1>1. PICK ids \in SUBSET KeyIds :
        keys \in [ids -> {r \in KeyRow : r.from = New /\ r.status = "unknown" /\ r.checked = "never"}]
  BY DEF Init, KeysInit
<1>2. given = DOMAIN keys /\ \A t \in Tasks : task[t].op = "idle"
  BY DEF Init, KeysInit, TasksInit, Idle
<1> QED BY <1>1, <1>2, KeysAssumption DEF KeyInv, MigratingKeys

LEMMA KeyNext == Shape /\ KeyInv /\ [Next]_vars => Shape' /\ KeyStep
<1> SUFFICES ASSUME Shape, KeyInv, [Next]_vars PROVE KeyStep
  BY ShapeNext
<1>1. ASSUME NEW ops, ops \cap KeyOps = {}, Steps(ops), UNCHANGED keyVars PROVE KeyStep
  <2>1. \A u \in Tasks : task'[u].op \in KeyOps => task'[u] = task[u]
    BY <1>1, OthersStay DEF KeyOps
  <2> QED BY <1>1, <2>1, KeysStay DEF keyVars
<1>2. CASE OnKeys
  BY <1>2, KeySteps DEF OnKeys
<1>3. CASE OnSettings
  BY <1>1, <1>3, SettingsMove DEF OnSettings, KeyOps
<1>4. CASE OnCatalog
  BY <1>1, <1>4, CatalogMoves DEF OnCatalog, KeyOps
<1>5. CASE OnChain
  BY <1>1, <1>5, ChainMoves DEF OnChain, ChainOps, KeyOps
<1>6. CASE OnRequests
  BY <1>1, <1>6, RequestsMove DEF OnRequests, KeyOps
<1>7. CASE Failure
  BY <1>7, FailuresStay, KeysStay DEF Failure, KeyOps, keyVars
<1>8. CASE UNCHANGED vars
  BY <1>8, KeysStay DEF vars, keyVars, taskVars
<1> QED BY <1>2, <1>3, <1>4, <1>5, <1>6, <1>7, <1>8 DEF Next

\* However often the migration is run and fails, an old key is in the table once
\* at most.
THEOREM MigratedOnceAlways == Spec => []MigratedOnce
<1>1. KeyStep => KeyInv'
  BY DEF KeyStep
<1>2. KeyInv => MigratedOnce
  BY DEF KeyInv, MigratedOnce
<1> QED BY <1>1, <1>2, KeyInit, KeyNext, PTL DEF Spec

\* A key is switched on or off only by the commit of a call that asked for it.
THEOREM EnabledAsAskedAlways == Spec => EnabledAsAsked
<1>1. KeyStep => KeyInv'
  BY DEF KeyStep
<1>2. KeyStep => \A k \in DOMAIN keys \cap DOMAIN keys' :
        keys'[k].enabled # keys[k].enabled =>
          \E t \in Tasks : /\ task[t].op = "set" /\ k \in DOMAIN task[t].loaded
                           /\ task[t].value = keys'[k].enabled /\ task'[t] = Idle
  BY DEF KeyStep, Flips, Asked
<1> QED BY <1>1, <1>2, KeyInit, KeyNext, PTL DEF Spec, EnabledAsAsked
=============================================================================
