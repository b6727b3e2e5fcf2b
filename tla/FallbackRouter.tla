--------------------------- MODULE FallbackRouter ---------------------------
(***************************************************************************)
(* Auto-routed requests of the proxy: RouterService.select_fallback, the   *)
(* retry loop around it in proxy/api.py, the cooldown and usage rows it    *)
(* writes, and the session (get_db) it writes them through.                *)
(*                                                                         *)
(* Every coroutine runs up to its next await, so one action is the code    *)
(* between two awaits.  A request owns one database session from its first *)
(* query to the end of the response; what the session has flushed is seen  *)
(* by that session only until the commit (READ COMMITTED).                 *)
(*                                                                         *)
(* A row of the fallback table, a catalog row, a key and a sticky key are  *)
(* model values.  A catalog row is (platform, model_id), which is unique;  *)
(* model_id alone is not, and the sticky dictionary stores model_id alone. *)
(***************************************************************************)
EXTENDS Naturals, FiniteSets

CONSTANTS
  Requests,      \* requests that may arrive, each handled once
  Models,        \* rows of ProviderCatalog
  Keys,          \* rows of ApiKey
  Platforms, ModelIds,
  FallbackRows,  \* rows of FallbackConfig
  StickyKeys,    \* values of f"{pool}:{messages_hash}"
  NoSticky,      \* the sticky key of a request without a messages hash
  NoModelId, NoModel, NoKey,
  PlatformOf, ModelIdOf,   \* columns of a catalog row
  Rpm, Rpd,                \* its limits per minute and per day; 0 is "no limit"
  KeyPlatform,             \* column of a key
  RowModel, Priority,      \* columns of a fallback row
  Eligible,      \* rows that the chain query's pool, tools and context clauses keep
  Fits,          \* catalog rows whose context window admits the request
  StickyKeyOf,   \* sticky key of a request
  Streams,       \* requests with "stream": true
  Reliable,      \* catalog rows whose provider answers every call
  Undecryptable, \* keys that were encrypted under another ENCRYPTION_KEY
  Native,        \* platforms the registry never unloads
  PoolSize,      \* pool_size + max_overflow of the engine
  MaxEdits       \* bound: administrator actions, reloads and lapses of penalties

NoRoute == [model |-> NoModel, key |-> NoKey, sticky |-> FALSE]

ASSUME SentinelAssumption ==
  /\ NoSticky \notin StickyKeys /\ NoModelId \notin ModelIds
  /\ NoModel \notin Models      /\ NoKey \notin Keys

ASSUME TableAssumption ==
  /\ PlatformOf  \in [Models -> Platforms]
  /\ ModelIdOf   \in [Models -> ModelIds]
  /\ Rpm \in [Models -> Nat] /\ Rpd \in [Models -> Nat]
  /\ KeyPlatform \in [Keys -> Platforms]
  /\ RowModel    \in [FallbackRows -> Models]
  /\ Priority    \in [FallbackRows -> Nat]
  /\ Reliable \subseteq Models /\ Undecryptable \subseteq Keys /\ Native \subseteq Platforms

ASSUME RequestAssumption ==
  /\ IsFiniteSet(Requests)
  /\ Streams     \subseteq Requests
  /\ StickyKeyOf \in [Requests -> StickyKeys \cup {NoSticky}]
  /\ Fits        \in [Requests -> SUBSET Models]
  /\ Eligible    \in [Requests -> SUBSET FallbackRows]
  /\ \A r \in Requests : \A f \in Eligible[r] : RowModel[f] \in Fits[r]
  /\ PoolSize \in Nat \ {0} /\ MaxEdits \in Nat

VARIABLES
  pc,        \* where each request is
  route,     \* the candidate it examines or the route it uses
  rows,      \* the fallback rows its chain walk has still to examine
  failed,    \* history: the <<model, key>> pairs whose call failed for it
  conn,      \* requests that hold a connection of the pool
  flushed,   \* cooldown rows its open transaction has inserted
  touched,   \* committed cooldown rows its open transaction has updated
  cooldowns, \* committed rows of rate_limit_cooldowns, as <<model, key>>
  lapsed,    \* those whose expires_at_ms has passed
  minute,    \* requests whose usage row is committed and under a minute old
  day,       \* the same, under a day old
  sticky,    \* _sticky_sessions: model_id per sticky key, NoModelId when absent or expired
  registry,  \* platforms in ProviderRegistry._providers
  loading,   \* reloads of the registry that are under way
  enabled,   \* keys with enabled = true
  usable,    \* keys with status healthy or unknown
  live,      \* fallback rows with enabled = true
  edits      \* uses of the MaxEdits bound

walk   == <<route, rows, failed>>
tx     == <<conn, flushed, touched>>
tables == <<cooldowns, lapsed, minute, day>>
config == <<registry, loading, enabled, usable, live, edits>>
vars   == <<pc, walk, tx, tables, sticky, config>>

CooldownPK == Models \X Keys
Walking    == {"select", "stickyModel", "stickyKey", "chain", "provider", "cooldown",
               "key", "rpm", "rpd", "admit", "call", "penalize", "insert", "update"}
Finished   == {"answered", "rejected", "crashed", "gone"}
Phases     == {"arrived", "commit"} \cup Walking \cup Finished

\* Every variable keeps its type: what the tables, the sticky dictionary and the
\* session of each request may hold.
TypeOK ==
  /\ pc       \in [Requests -> Phases]
  /\ route    \in [Requests -> [model : Models \cup {NoModel}, key : Keys \cup {NoKey},
                                sticky : BOOLEAN]]
  /\ rows     \in [Requests -> SUBSET FallbackRows]
  /\ failed   \in [Requests -> SUBSET CooldownPK]
  /\ conn     \in SUBSET Requests
  /\ flushed  \in [Requests -> SUBSET CooldownPK]
  /\ touched  \in [Requests -> SUBSET CooldownPK]
  /\ cooldowns \in SUBSET CooldownPK
  /\ lapsed   \in SUBSET CooldownPK
  /\ minute   \in SUBSET Requests /\ day \in SUBSET Requests
  /\ sticky   \in [StickyKeys -> ModelIds \cup {NoModelId}]
  /\ registry \in SUBSET Platforms /\ loading \in SUBSET (1 .. MaxEdits)
  /\ enabled  \in SUBSET Keys /\ usable \in SUBSET Keys
  /\ live     \in SUBSET FallbackRows
  /\ edits    \in 0..MaxEdits

Init ==
  /\ pc       = [r \in Requests |-> "arrived"]
  /\ route    = [r \in Requests |-> NoRoute]
  /\ rows     = [r \in Requests |-> {}]
  /\ failed   = [r \in Requests |-> {}]
  /\ conn     = {}
  /\ flushed  = [r \in Requests |-> {}]
  /\ touched  = [r \in Requests |-> {}]
  /\ cooldowns = {} /\ lapsed = {} /\ minute = {} /\ day = {}
  /\ sticky   = [s \in StickyKeys |-> NoModelId]
  /\ registry = Platforms /\ loading = {}
  /\ enabled  = Keys /\ usable = Keys
  /\ live     = FallbackRows
  /\ edits    = 0

-----------------------------------------------------------------------------
(* Helpers *)

Goto(r, phase) == pc' = [pc EXCEPT ![r] = phase]

PK(r) == <<route[r].model, route[r].key>>

\* Mutant of Visible: the handler does not flush, and the session has no autoflush.
VisibleUnflushed(r) == cooldowns

\* Cooldown rows a query of r's session returns: the committed ones and its own.
Visible(r) == cooldowns \cup flushed[r]

\* The live entry of the request's sticky key, if it has a key and the key an entry.
StickyEntry(r) == IF StickyKeyOf[r] = NoSticky THEN NoModelId ELSE sticky[StickyKeyOf[r]]

\* Mutant of PopSticky: the entry is left in place.
KeepSticky(r) == UNCHANGED sticky

\* _sticky_sessions.pop(sticky_key, None), whatever the entry is by now.
PopSticky(r) ==
  sticky' = [s \in StickyKeys |-> IF s = StickyKeyOf[r] THEN NoModelId ELSE sticky[s]]

\* Usage rows the rate-limit query counts for the candidate of r.
Used(window, r) == {q \in window : PK(q) = PK(r)}

\* Mutant of FirstRows: the chain query without its order_by.
AnyRows(S) == S

FirstRows(S) == {f \in S : \A g \in S : Priority[f] <= Priority[g]}

\* get_db after an exception: rollback and close.  The response is already decided.
Rollback(r, phase) ==
  /\ Goto(r, phase)
  /\ conn'    = conn \ {r}
  /\ flushed' = [flushed EXCEPT ![r] = {}]
  /\ touched' = [touched EXCEPT ![r] = {}]

-----------------------------------------------------------------------------
(* The connection pool.  A session takes a connection at its first query   *)
(* and keeps it, provider calls included, until it commits or rolls back.  *)

Connect(r) ==
  /\ pc[r] \in {"stickyModel", "chain"} /\ r \notin conn
  /\ Cardinality(conn) < PoolSize
  /\ conn' = conn \cup {r}
  /\ UNCHANGED <<pc, walk, flushed, touched, tables, sticky, config>>

\* The pool's own timeout, while every connection is taken.
PoolTimeout(r) ==
  /\ pc[r] \in {"stickyModel", "chain"} /\ r \notin conn
  /\ Cardinality(conn) >= PoolSize
  /\ Rollback(r, "crashed")
  /\ UNCHANGED <<walk, tables, sticky, config>>

-----------------------------------------------------------------------------
(* select_fallback: the sticky path *)

\* The request enters, or re-enters, select_fallback and reads the sticky entry.
\* The lookup by model_id has no order: any platform's row of that model_id.
Select(r) ==
  /\ pc[r] \in {"arrived", "select"}
  /\ \/ /\ StickyEntry(r) = NoModelId
        /\ Goto(r, "chain")
        /\ UNCHANGED route
     \/ /\ \E m \in Models :
             /\ ModelIdOf[m] = StickyEntry(r)
             /\ route' = [route EXCEPT ![r] = [model |-> m, key |-> NoKey, sticky |-> TRUE]]
        /\ Goto(r, "stickyModel")
  /\ UNCHANGED <<rows, failed, tx, tables, sticky, config>>

\* Without a provider the entry is stale.  A context window that is too small only
\* drops the entry: the code goes on to the key of that same model.
StickyModel(r) ==
  /\ pc[r] = "stickyModel" /\ r \in conn
  /\ LET m == route[r].model IN
     \/ /\ PlatformOf[m] \notin registry
        /\ PopSticky(r) /\ Goto(r, "chain")
     \/ /\ PlatformOf[m] \in registry
        /\ IF m \in Fits[r] THEN UNCHANGED sticky ELSE PopSticky(r)
        /\ Goto(r, "stickyKey")
  /\ UNCHANGED <<walk, tx, tables, config>>

\* Any enabled key of the platform: neither status, cooldown nor rate limit is read.
StickyKey(r) ==
  /\ pc[r] = "stickyKey"
  /\ LET found == {k \in enabled : KeyPlatform[k] = PlatformOf[route[r].model]} IN
     \/ /\ \E k \in found : route' = [route EXCEPT ![r].key = k]
        /\ Goto(r, "admit")
        /\ UNCHANGED sticky
     \/ /\ found = {}
        /\ PopSticky(r) /\ Goto(r, "chain")
        /\ UNCHANGED route
  /\ UNCHANGED <<rows, failed, tx, tables, config>>

-----------------------------------------------------------------------------
(* select_fallback: the walk of the fallback chain *)

QueryChain(r) ==
  /\ pc[r] = "chain" /\ r \in conn
  /\ rows' = [rows EXCEPT ![r] = Eligible[r] \cap live]
  /\ Goto(r, "provider")
  /\ UNCHANGED <<route, failed, tx, tables, sticky, config>>

\* The next row by priority; rows of equal priority come in any order.
CheckProvider(r) ==
  /\ pc[r] = "provider"
  /\ \E f \in FirstRows(rows[r]) :
       /\ rows'  = [rows EXCEPT ![r] = @ \ {f}]
       /\ route' = [route EXCEPT ![r] = [model |-> RowModel[f], key |-> NoKey, sticky |-> FALSE]]
       /\ IF PlatformOf[RowModel[f]] \in registry THEN Goto(r, "cooldown") ELSE UNCHANGED pc
  /\ UNCHANGED <<failed, tx, tables, sticky, config>>

\* scalar_one_or_none over the rows of (platform, model_id), of whichever key and
\* whether lapsed or not: one row skips the candidate, two raise MultipleResultsFound.
CheckCooldown(r) ==
  /\ pc[r] = "cooldown"
  /\ LET found == {p \in Visible(r) : p[1] = route[r].model} IN
     \/ found = {} /\ Goto(r, "key") /\ UNCHANGED tx
     \/ Cardinality(found) = 1 /\ Goto(r, "provider") /\ UNCHANGED tx
     \/ Cardinality(found) > 1 /\ Rollback(r, "crashed")
  /\ UNCHANGED <<walk, tables, sticky, config>>

CheckKey(r) ==
  /\ pc[r] = "key"
  /\ LET found == {k \in enabled \cap usable : KeyPlatform[k] = PlatformOf[route[r].model]} IN
     \/ /\ \E k \in found : route' = [route EXCEPT ![r].key = k]
        /\ Goto(r, "rpm")
     \/ /\ found = {}
        /\ Goto(r, "provider")
        /\ UNCHANGED route
  /\ UNCHANGED <<rows, failed, tx, tables, sticky, config>>

\* Mutants of UnderLimit: the limit is compared with "<=", or 0 is taken as a limit.
UnderOrAtLimit(limit, window, r) == limit = 0 \/ Cardinality(Used(window, r)) <= limit
UnderLimitOrZero(limit, window, r) == Cardinality(Used(window, r)) < limit

\* _check_rate_limit is two queries, each made only for a limit that is set.
\* Tokens are recorded but tpm and tpd are never compared.
UnderLimit(limit, window, r) == limit = 0 \/ Cardinality(Used(window, r)) < limit

CheckRpm(r) ==
  /\ pc[r] = "rpm"
  /\ Goto(r, IF UnderLimit(Rpm[route[r].model], minute, r) THEN "rpd" ELSE "provider")
  /\ UNCHANGED <<walk, tx, tables, sticky, config>>

CheckRpd(r) ==
  /\ pc[r] = "rpd"
  /\ Goto(r, IF UnderLimit(Rpd[route[r].model], day, r) THEN "admit" ELSE "provider")
  /\ UNCHANGED <<walk, tx, tables, sticky, config>>

\* No candidate is left: HTTPException(429), which get_db answers with a rollback.
Reject(r) ==
  /\ pc[r] = "provider" /\ rows[r] = {}
  /\ Rollback(r, "rejected")
  /\ UNCHANGED <<walk, tables, sticky, config>>

-----------------------------------------------------------------------------
(* The loop of proxy/api.py around a chosen route *)

\* Mutant of StickyValue: the catalog row is stored in place of its model_id.
StickyValueIsRow(r) == route[r].model

StickyValue(r) == ModelIdOf[route[r].model]

\* A chain route becomes the sticky entry; then the key is decrypted, outside the try.
Admit(r) ==
  /\ pc[r] = "admit"
  /\ IF StickyKeyOf[r] # NoSticky /\ ~route[r].sticky
     THEN sticky' = [sticky EXCEPT ![StickyKeyOf[r]] = StickyValue(r)]
     ELSE UNCHANGED sticky
  /\ IF route[r].key \in Undecryptable
     THEN Rollback(r, "crashed")
     ELSE Goto(r, "call") /\ UNCHANGED tx
  /\ UNCHANGED <<walk, tables, config>>

CallSucceeds(r) ==
  /\ pc[r] = "call"
  /\ Goto(r, "commit")
  /\ UNCHANGED <<walk, tx, tables, sticky, config>>

\* A provider error.  The handler of a plain request drops the sticky entry; the
\* generator of a stream, whose response has begun, does not.
CallFails(r) ==
  /\ pc[r] = "call" /\ route[r].model \notin Reliable
  /\ failed' = [failed EXCEPT ![r] = @ \cup {PK(r)}]
  /\ IF r \in Streams THEN UNCHANGED sticky ELSE PopSticky(r)
  /\ Goto(r, "penalize")
  /\ UNCHANGED <<route, rows, tx, tables, config>>

\* set_cooldown: read the row of (platform, model_id, key), then insert or update it.
Penalize(r) ==
  /\ pc[r] = "penalize"
  /\ Goto(r, IF PK(r) \in Visible(r) THEN "update" ELSE "insert")
  /\ UNCHANGED <<walk, tx, tables, sticky, config>>

\* Mutant of AfterFlush: the stream generator ends without db.commit().
AfterFlushUncommitted(r) == Goto(r, IF r \in Streams THEN "answered" ELSE "select")

\* After the flush a plain request walks again, a stream commits.
AfterFlush(r) == Goto(r, IF r \in Streams THEN "commit" ELSE "select")

\* INSERT: waits for an open transaction that inserted the same key, and fails
\* with IntegrityError when that transaction, or an earlier one, has committed it.
FlushInsert(r) ==
  /\ pc[r] = "insert"
  /\ \A q \in Requests \ {r} : PK(r) \notin flushed[q]
  /\ \/ /\ PK(r) \in cooldowns
        /\ Rollback(r, "crashed")
     \/ /\ PK(r) \notin cooldowns
        /\ flushed' = [flushed EXCEPT ![r] = @ \cup {PK(r)}]
        /\ AfterFlush(r)
        /\ UNCHANGED <<conn, touched>>
  /\ UNCHANGED <<walk, tables, sticky, config>>

\* UPDATE of expires_at_ms: waits for an open transaction that updated the same row.
FlushUpdate(r) ==
  /\ pc[r] = "update"
  /\ \A q \in Requests \ {r} : PK(r) \notin touched[q]
  /\ touched' = [touched EXCEPT ![r] = @ \cup {PK(r)}]
  /\ AfterFlush(r)
  /\ UNCHANGED <<walk, conn, flushed, tables, sticky, config>>

\* get_db after the response: commit.  Streams record no usage.
Commit(r) ==
  /\ pc[r] = "commit"
  /\ cooldowns' = Visible(r)
  /\ lapsed'    = lapsed \ touched[r]
  /\ minute'    = IF r \in Streams THEN minute ELSE minute \cup {r}
  /\ day'       = IF r \in Streams THEN day ELSE day \cup {r}
  /\ Rollback(r, "answered")  \* closes the session: nothing is left to roll back
  /\ UNCHANGED <<walk, sticky, config>>

\* The client of a stream leaves: its generator is cancelled, the response returns and
\* get_db commits.  The stream has flushed nothing before its own commit, and a statement
\* that is cancelled takes its connection with it, so this amounts to a rollback.
Disconnect(r) ==
  /\ r \in Streams /\ pc[r] \in {"call", "penalize", "insert", "update"}
  /\ Rollback(r, "gone")
  /\ UNCHANGED <<walk, tables, sticky, config>>

-----------------------------------------------------------------------------
(* PostgreSQL's lock waits and its deadlock detector *)

WaitsFor(r, q) ==
  /\ r # q
  /\ \/ pc[r] = "insert" /\ PK(r) \in flushed[q]
     \/ pc[r] = "update" /\ PK(r) \in touched[q]

\* A row has one holder, so a set in which everyone waits and is waited for is cycles.
Deadlocked(r) ==
  \E S \in SUBSET Requests :
    /\ r \in S
    /\ \A x \in S : (\E y \in S : WaitsFor(x, y)) /\ (\E y \in S : WaitsFor(y, x))

DeadlockVictim(r) ==
  /\ Deadlocked(r)
  /\ Rollback(r, "crashed")
  /\ UNCHANGED <<walk, tables, sticky, config>>

-----------------------------------------------------------------------------
(* The rest of the program, as far as a request can see it *)

Edit == edits < MaxEdits /\ edits' = edits + 1

\* update_key, toggle_platform.
ToggleKey(k) ==
  /\ Edit
  /\ enabled' = IF k \in enabled THEN enabled \ {k} ELSE enabled \cup {k}
  /\ UNCHANGED <<pc, walk, tx, tables, sticky, registry, loading, usable, live>>

\* _do_validate: healthy, or invalid / error.
ValidateKey(k) ==
  /\ Edit
  /\ usable' \in {usable \cup {k}, usable \ {k}}
  /\ UNCHANGED <<pc, walk, tx, tables, sticky, registry, loading, enabled, live>>

\* update_fallback with "enabled".
ToggleRow(f) ==
  /\ Edit
  /\ live' = IF f \in live THEN live \ {f} ELSE live \cup {f}
  /\ UNCHANGED <<pc, walk, tx, tables, sticky, registry, loading, enabled, usable>>

\* The registry as ProviderAdmin is shown to keep it; a reload is named by the edit
\* that begins it.
Registry == INSTANCE ProviderReloads WITH Reloads <- 1 .. MaxEdits

ReloadStarts ==
  /\ Edit /\ Registry!Empties(edits + 1)
  /\ UNCHANGED <<pc, walk, tx, tables, sticky, enabled, usable, live>>

ReloadEnds(l) ==
  /\ Registry!Loads(l)
  /\ UNCHANGED <<pc, walk, tx, tables, sticky, enabled, usable, live, edits>>

StickyExpires(s) ==
  /\ sticky' = [sticky EXCEPT ![s] = NoModelId]
  /\ UNCHANGED <<pc, walk, tx, tables, config>>

\* now_ms passes expires_at_ms of a committed row.
PenaltyLapses(p) ==
  /\ Edit
  /\ lapsed' = lapsed \cup {p}
  /\ UNCHANGED <<pc, walk, tx, cooldowns, minute, day, sticky, registry, loading, enabled, usable, live>>

MinutePasses(q) ==
  /\ minute' = minute \ {q}
  /\ UNCHANGED <<pc, walk, tx, cooldowns, lapsed, day, sticky, config>>

DayPasses(q) ==
  /\ q \notin minute
  /\ day' = day \ {q}
  /\ UNCHANGED <<pc, walk, tx, cooldowns, lapsed, minute, sticky, config>>

-----------------------------------------------------------------------------

\* What the event loop, the provider's timeout and the database bring about.
Step(r) ==
  \/ Connect(r)   \/ Select(r)
  \/ StickyModel(r) \/ StickyKey(r)
  \/ QueryChain(r) \/ CheckProvider(r) \/ CheckCooldown(r) \/ CheckKey(r)
  \/ CheckRpm(r)  \/ CheckRpd(r) \/ Reject(r) \/ Admit(r)
  \/ CallSucceeds(r) \/ CallFails(r)
  \/ Penalize(r)  \/ FlushInsert(r) \/ FlushUpdate(r) \/ Commit(r)
  \/ DeadlockVictim(r)

Environment ==
  \/ \E k \in Keys : ToggleKey(k) \/ ValidateKey(k)
  \/ \E f \in FallbackRows : ToggleRow(f)
  \/ ReloadStarts
  \/ \E l \in loading : ReloadEnds(l)
  \/ \E s \in StickyKeys : StickyExpires(s)
  \/ \E p \in cooldowns : PenaltyLapses(p)
  \/ \E q \in minute : MinutePasses(q)
  \/ \E q \in day : DayPasses(q)

Next ==
  \/ \E r \in Requests : Step(r) \/ PoolTimeout(r) \/ Disconnect(r)
  \/ Environment

Spec     == Init /\ [][Next]_vars
FairSpec == Spec /\ \A r \in Requests : WF_vars(Step(r))
=============================================================================
