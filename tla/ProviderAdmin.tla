---------------------------- MODULE ProviderAdmin ----------------------------
(***************************************************************************)
(* Administration of provider platforms: the provider_platforms table, the *)
(* 60-second cache of ProviderPlatformService and the providers that       *)
(* ProviderRegistry builds from the table.                                 *)
(*                                                                         *)
(* A task is one call of the provisioning API (the sync that main.py       *)
(* schedules is a dry run and changes nothing).  Its actions are the code  *)
(* between two awaits; a database statement takes effect while its task    *)
(* waits, so what a query returns is used in a later action than the one   *)
(* that reads it.                                                          *)
(*                                                                         *)
(* A row is its enabled flag and the base_url a provider is built with:   *)
(* NoUrl when it has none or is marked native.  Names, timeouts and        *)
(* headers are left out.                                                   *)
(***************************************************************************)
EXTENDS Naturals

CONSTANTS
  Tasks,     \* calls of the API, each made once
  Ops,       \* operations they may be
  Ids,       \* platform ids
  Urls,      \* values of base_url
  NoUrl, NoRow, NoTask, NoId,  \* their absence
  Native,    \* ids with a provider registered in code
  CatalogUrl, \* API URL per id in catalog.json, NoUrl when it has none
  Ttl,       \* life of the cache
  MaxTime    \* bound: the clock stops

Operations == {"create", "update", "toggle", "delete", "sync", "get"}

Rows == [enabled : BOOLEAN, url : Urls \cup {NoUrl}]

ASSUME AdminAssumption ==
  /\ Ops \subseteq Operations
  /\ NoUrl \notin Urls /\ NoRow \notin Rows /\ NoTask \notin Tasks /\ NoId \notin Ids
  /\ Native \subseteq Ids
  /\ CatalogUrl \in [Ids -> Urls \cup {NoUrl}]
  /\ Ttl \in Nat \ {0} /\ MaxTime \in Nat

VARIABLES
  pc,        \* where each task is
  job,       \* its operation, platform, the rows its last query returned and, for a
             \* get(), the time it read before that query
  table,     \* committed rows of provider_platforms
  cache,     \* ProviderPlatformService._cache
  expiry,    \* ProviderPlatformService._cache_ttl
  providers, \* base_url of each GenericOpenAIProvider in ProviderRegistry._providers
  clearer,   \* history: the task that cleared the registry last, until it has loaded
  loadLost,  \* history: the load that belongs to the last clear has failed
  missed,    \* history: platforms of calls that have failed between their commit and
             \* their reload, since the registry was cleared last
  now,       \* the clock
  left       \* history: when a row of a platform was last replaced

caches == <<cache, expiry>>
loaded == <<providers, clearer, loadLost, missed>>
time   == <<now, left>>
vars   == <<pc, job, table, caches, loaded, time>>

Phases == {"idle", "read", "write", "refresh", "clear", "load", "fill",
           "query", "store", "answer", "done"}

Nothing == [p \in Ids |-> NoRow]
NoJob   == [op |-> "none", target |-> NoId, seen |-> Nothing, asked |-> 0]

Jobs == [op : Operations \cup {"none"}, target : Ids \cup {NoId},
         seen : [Ids -> Rows \cup {NoRow}], asked : Nat]

\* Every variable keeps its type: rows in table, cache and queries, base_urls in the
\* registry, times in the history.
TypeOK ==
  /\ pc     \in [Tasks -> Phases]
  /\ job    \in [Tasks -> Jobs]
  /\ table  \in [Ids -> Rows \cup {NoRow}]
  /\ cache  \in [Ids -> Rows \cup {NoRow}]
  /\ expiry \in Nat
  /\ providers \in [Ids -> Urls \cup {NoUrl}]
  /\ clearer \in Tasks \cup {NoTask}
  /\ loadLost \in BOOLEAN
  /\ missed \subseteq Ids
  /\ now    \in Nat
  /\ left   \in [Ids -> [Rows -> Nat]]

-----------------------------------------------------------------------------
(* Helpers *)

Goto(t, phase) == pc' = [pc EXCEPT ![t] = phase]

\* The task's query returns these rows.
Sees(t, rows) == job' = [job EXCEPT ![t].seen = rows]

\* The call ends, and its local variables with it.
End(t) == Goto(t, "done") /\ job' = [job EXCEPT ![t] = NoJob]

\* load_from_db builds a provider from the row.
Loadable(row) == row # NoRow /\ row.enabled /\ row.url # NoUrl

\* Mutant of Filled: the providers are replaced by those of the query.
FilledAnew(rows) ==
  [p \in Ids |-> IF p \notin Native /\ Loadable(rows[p]) THEN rows[p].url ELSE NoUrl]

\* The registry after load_from_db has walked these rows: a name that is there,
\* native or not, is left as it is.
Filled(rows) ==
  [p \in Ids |-> IF p \notin Native /\ providers[p] = NoUrl /\ Loadable(rows[p])
                 THEN rows[p].url ELSE providers[p]]

\* A transaction commits these rows.
Rewrite(rows) ==
  /\ table' = rows
  /\ left'  = [p \in Ids |-> [row \in Rows |->
                IF table[p] = row /\ rows[p] # row THEN now ELSE left[p][row]]]

\* What the task's UPDATE of the changed columns may make of a row: a column is
\* written when its new value differs from the one the session has read.  A toggle
\* writes the negation of what it has read.
Written(t) ==
  LET p == job[t].target  was == job[t].seen[p] IN
  IF job[t].op = "toggle"
  THEN {[table[p] EXCEPT !.enabled = ~was.enabled]}
  ELSE [enabled : {table[p].enabled} \cup (BOOLEAN \ {was.enabled}),
        url     : {table[p].url} \cup ((Urls \cup {NoUrl}) \ {was.url})]

\* What a sync that has read the row "was" may make of the platform's row: a row that
\* differs from the catalog in any column is written, a base_url that the catalog
\* lacks is kept, a row that is gone matches no UPDATE.
Synced(was, p) ==
  IF \/ was = NoRow \/ table[p] = NoRow
     \/ was.url # NoUrl /\ CatalogUrl[p] = NoUrl
  THEN {table[p]}
  ELSE {[table[p] EXCEPT !.url = CatalogUrl[p]]}
         \cup (IF was.url = CatalogUrl[p] THEN {table[p]} ELSE {})

Init ==
  /\ pc     = [t \in Tasks |-> "idle"]
  /\ job    = [t \in Tasks |-> NoJob]
  /\ table \in [Ids -> Rows \cup {NoRow}]
  /\ cache = Nothing /\ expiry = 0
  /\ clearer = NoTask /\ missed = {}
  \* The load at start-up, which may fail as any other.
  /\ \/ /\ loadLost = FALSE
        /\ providers = [p \in Ids |-> IF p \notin Native /\ Loadable(table[p])
                                      THEN table[p].url ELSE NoUrl]
     \/ loadLost = TRUE /\ providers = [p \in Ids |-> NoUrl]
  /\ now = 0
  /\ left = [p \in Ids |-> [row \in Rows |-> 0]]

-----------------------------------------------------------------------------
(* The operations of the API *)

Begin(t, o, p) ==
  /\ pc[t] = "idle" /\ o \in Ops
  /\ job' = [job EXCEPT ![t] = [NoJob EXCEPT !.op = o, !.target = p]]
  /\ Goto(t, IF o = "create" THEN "write" ELSE "read")
  /\ UNCHANGED <<table, caches, loaded, time>>

BeginChange(t) ==
  \/ \E o \in {"create", "update", "toggle", "delete"}, p \in Ids : Begin(t, o, p)
  \/ Begin(t, "sync", NoId)

\* The row of the platform, or 404.
ReadRow(t) ==
  /\ pc[t] = "read" /\ job[t].op \in {"update", "toggle", "delete"}
  /\ LET p == job[t].target IN
     IF table[p] = NoRow
     THEN End(t)
     ELSE Goto(t, "write") /\ Sees(t, [Nothing EXCEPT ![p] = table[p]])
  /\ UNCHANGED <<table, caches, loaded, time>>

\* A call that has committed nothing ends: delete finds an active key first (409), or
\* a statement or the commit raises.
CallFails(t) ==
  /\ pc[t] \in {"read", "write", "query"} /\ job[t].op # "sync"
  /\ End(t)
  /\ UNCHANGED <<table, caches, loaded, time>>

\* sync_providers_from_catalog reads every row.
ReadAll(t) ==
  /\ pc[t] = "read" /\ job[t].op = "sync"
  /\ Goto(t, "write") /\ Sees(t, table)
  /\ UNCHANGED <<table, caches, loaded, time>>

\* The catalog cannot be fetched, or the commit fails: the registry is reloaded
\* all the same, in the finally clause.
SyncFails(t) ==
  /\ pc[t] \in {"read", "write"} /\ job[t].op = "sync"
  /\ Goto(t, "clear") /\ Sees(t, Nothing)
  /\ UNCHANGED <<table, caches, loaded, time>>

\* INSERT; an id that is there raises IntegrityError.
Create(t) ==
  /\ pc[t] = "write" /\ job[t].op = "create"
  /\ LET p == job[t].target IN
     \/ table[p] # NoRow /\ End(t) /\ UNCHANGED <<table, left>>
     \/ /\ table[p] = NoRow
        /\ \E row \in Rows : Rewrite([table EXCEPT ![p] = row])
        /\ Goto(t, "refresh") /\ UNCHANGED job
  /\ UNCHANGED <<caches, loaded, now>>

\* UPDATE of the changed columns, of which a toggle has one; a row that is gone
\* raises StaleDataError, unless no column changes.
Update(t) ==
  /\ pc[t] = "write" /\ job[t].op \in {"update", "toggle"}
  /\ LET p == job[t].target IN
     \/ table[p] = NoRow /\ End(t) /\ UNCHANGED <<table, left>>
     \/ /\ table[p] = NoRow /\ job[t].op = "update"
        /\ Goto(t, "refresh") /\ Sees(t, Nothing)
        /\ UNCHANGED <<table, left>>
     \/ /\ table[p] # NoRow
        /\ \E row \in Written(t) : Rewrite([table EXCEPT ![p] = row])
        /\ Goto(t, "refresh") /\ Sees(t, Nothing)
  /\ UNCHANGED <<caches, loaded, now>>

\* DELETE; a row that is gone is no error.
Delete(t) ==
  /\ pc[t] = "write" /\ job[t].op = "delete"
  /\ Rewrite([table EXCEPT ![job[t].target] = NoRow])
  /\ Goto(t, "clear") /\ Sees(t, Nothing)
  /\ UNCHANGED <<caches, loaded, now>>

Sync(t) ==
  /\ pc[t] = "write" /\ job[t].op = "sync"
  /\ \E rows \in [Ids -> Rows \cup {NoRow}] :
       (\A p \in Ids : rows[p] \in Synced(job[t].seen[p], p)) /\ Rewrite(rows)
  /\ Goto(t, "clear") /\ Sees(t, Nothing)
  /\ UNCHANGED <<caches, loaded, now>>

\* db.refresh after the commit.  A row deleted since raises, as any error of the
\* database does: the call ends here, with its commit and without a reload.
Refresh(t) ==
  /\ pc[t] = "refresh"
  /\ \/ table[job[t].target] # NoRow /\ Goto(t, "clear") /\ UNCHANGED <<job, missed>>
     \/ End(t) /\ missed' = missed \cup {job[t].target}
  /\ UNCHANGED <<table, caches, providers, clearer, loadLost, time>>

-----------------------------------------------------------------------------
(* invalidate_cache, then reload_from_db *)

\* A sync does not invalidate the cache.
Clear(t) ==
  /\ pc[t] = "clear"
  /\ IF job[t].op = "sync"
     THEN UNCHANGED caches
     ELSE cache' = Nothing /\ expiry' = 0
  /\ providers' = [p \in Ids |-> NoUrl]
  /\ clearer' = t /\ loadLost' = FALSE /\ missed' = {}
  /\ Goto(t, "load")
  /\ UNCHANGED <<job, table, time>>

Load(t) ==
  /\ pc[t] = "load"
  /\ Goto(t, "fill") /\ Sees(t, table)
  /\ UNCHANGED <<table, caches, loaded, time>>

NoLongerClearer(t) == clearer' = IF clearer = t THEN NoTask ELSE clearer

\* load_from_db logs the exception and returns.
LoadFails(t) ==
  /\ pc[t] = "load"
  /\ loadLost' = (loadLost \/ clearer = t) /\ NoLongerClearer(t)
  /\ End(t)
  /\ UNCHANGED <<table, caches, providers, missed, time>>

Fill(t) ==
  /\ pc[t] = "fill"
  /\ providers' = Filled(job[t].seen) /\ NoLongerClearer(t)
  /\ End(t)
  /\ UNCHANGED <<table, caches, loadLost, missed, time>>

-----------------------------------------------------------------------------
(* ProviderPlatformService.get *)

\* A hit is answered at once.  The list of all platforms asks for an id that no
\* platform has, and always queries.
Ask(t, p) ==
  /\ pc[t] = "idle" /\ "get" \in Ops
  /\ IF p \in Ids /\ cache[p] # NoRow /\ now < expiry
     THEN Goto(t, "done") /\ UNCHANGED job
     ELSE /\ Goto(t, "query")
          /\ job' = [job EXCEPT ![t] = [NoJob EXCEPT !.op = "get", !.target = p, !.asked = now]]
  /\ UNCHANGED <<table, caches, loaded, time>>

Query(t) ==
  /\ pc[t] = "query"
  /\ Goto(t, "store") /\ Sees(t, table)
  /\ UNCHANGED <<table, caches, loaded, time>>

\* Mutant of ExpiryOf: the time is read after the query.
ExpiryOfNow(t) == now + Ttl

ExpiryOf(t) == job[t].asked + Ttl

Store(t) ==
  /\ pc[t] = "store"
  /\ cache' = job[t].seen /\ expiry' = ExpiryOf(t)
  /\ Goto(t, "answer") /\ Sees(t, Nothing)
  /\ UNCHANGED <<table, loaded, time>>

\* The answer is taken from the cache after the session has closed.
Answer(t) ==
  /\ pc[t] = "answer"
  /\ End(t)
  /\ UNCHANGED <<table, caches, loaded, time>>

Tick ==
  /\ now < MaxTime
  /\ now' = now + 1
  /\ UNCHANGED <<pc, job, table, caches, loaded, left>>

-----------------------------------------------------------------------------

Next ==
  \/ \E t \in Tasks, p \in Ids \cup {NoId} : Ask(t, p)
  \/ \E t \in Tasks :
       \/ BeginChange(t)
       \/ ReadRow(t) \/ CallFails(t) \/ ReadAll(t) \/ SyncFails(t)
       \/ Create(t) \/ Update(t) \/ Delete(t) \/ Sync(t)
       \/ Refresh(t) \/ Clear(t) \/ Load(t) \/ LoadFails(t) \/ Fill(t)
       \/ Query(t) \/ Store(t) \/ Answer(t)
  \/ Tick

Spec == Init /\ [][Next]_vars
=============================================================================
