-------------------------- MODULE RequestMigration --------------------------
(***************************************************************************)
(* migrate_requests: the old requests are added in order and committed in  *)
(* chunks of 500, without a look at what is there.  The script may die     *)
(* anywhere and be run again.                                              *)
(***************************************************************************)
EXTENDS AdminTasks

CONSTANTS
  OldRequests,  \* number of requests in the old SQLite database
  Chunk         \* rows between two commits

ASSUME RequestsAssumption == OldRequests \in Nat /\ Chunk \in Nat \ {0}

VARIABLES
  copies,   \* how many rows of requests each old request has become
  finished  \* history: runs of the script that ended normally

requestMigrationVars == <<copies, finished>>

RequestMigrationInit ==
  /\ copies = [i \in 1 .. OldRequests |-> 0]
  /\ finished = 0

\* Rows first .. last of the old table are committed.
Copied(first, last) ==
  copies' = [i \in DOMAIN copies |-> IF i \in first .. last THEN copies[i] + 1 ELSE copies[i]]

MigrateRequests(t) ==
  /\ \A u \in Tasks : task[u].op # "migrate-requests"
  /\ Begin(t, [op |-> "migrate-requests", done |-> 0])
  /\ UNCHANGED requestMigrationVars

ChunkCommits(t) ==
  /\ task[t].op = "migrate-requests" /\ task[t].done + Chunk <= OldRequests
  /\ Copied(task[t].done + 1, task[t].done + Chunk)
  /\ Continue(t, [task[t] EXCEPT !.done = @ + Chunk])
  /\ UNCHANGED finished

\* The commit after the loop.  (Mutant: it is left out.)
RestForgotten(done) == UNCHANGED copies
RestCommits(done) == Copied(done + 1, OldRequests)

MigrationEnds(t) ==
  /\ task[t].op = "migrate-requests" /\ task[t].done + Chunk > OldRequests
  /\ RestCommits(task[t].done)
  /\ finished' = finished + 1
  /\ End(t)

RequestMigrationNext ==
  \E t \in Tasks : MigrateRequests(t) \/ ChunkCommits(t) \/ MigrationEnds(t)
=============================================================================
