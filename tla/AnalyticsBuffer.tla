-------------------------- MODULE AnalyticsBuffer --------------------------
(***************************************************************************)
(* AnalyticsService (analytics/services.py) and the lifespan that starts   *)
(* and stops it (main.py): requests put records on an in-memory queue, a   *)
(* worker collects them into a batch and inserts the batch in one          *)
(* transaction, an hourly job adds the rows of the last hour to hourly_agg *)
(* and a daily job deletes old rows.                                       *)
(*                                                                         *)
(* The queue is FIFO and only the worker reads it, so it is a log that is  *)
(* only appended to: positions 1..flushed have left the process, positions *)
(* flushed+1..taken are the worker's batch, the rest is the queue.  A      *)
(* record is known by its position.                                        *)
(***************************************************************************)
EXTENDS Naturals, Sequences, FiniteSets

CONSTANTS
  Keys, NoKey,    \* rows of api_keys, and the record that names none
  Content,        \* what else a record holds: anything the table can store
  BufferSeconds,  \* ANALYTICS_BUFFER_SECONDS, in ticks
  MaxItems,       \* ANALYTICS_BUFFER_MAX_ITEMS
  Hour,           \* ticks in an hour
  Retention,      \* CLEANUP_RETENTION_DAYS, in ticks
  MaxNow,         \* bound: ticks
  MaxFaults       \* bound: crashes, shutdowns, failed writes and deleted keys

ASSUME BufferAssumption ==
  /\ NoKey \notin Keys
  /\ BufferSeconds \in Nat \ {0} /\ MaxItems \in Nat \ {0}
  /\ Hour \in Nat \ {0} /\ Retention \in Nat /\ Retention >= Hour
  /\ MaxNow \in Nat /\ MaxFaults \in Nat

VARIABLES
  log,      \* every record put on the queue so far
  taken, flushed,
  worker,   \* "waiting" in wait_for, "flushing" in commit, "down"
  waited,   \* ticks since wait_for was called
  age,      \* ticks since last_flush
  begun,    \* now() of the flush transaction: the created_at of its rows
  now,
  stored,   \* rows of requests, by position
  born,     \* created_at of every row that was ever inserted
  gone,     \* positions lost, or deleted by the retention
  hourly,   \* rows of hourly_agg, by hour
  ran,      \* the hours the hourly job has run at
  keys,     \* rows of api_keys
  faults

bufferVars == <<log, taken, flushed, worker, waited, age, begun, now,
                stored, born, gone, hourly, ran, keys, faults>>
tables == <<stored, born, gone, hourly, ran>>

\* A row of requests; its type is that of the endpoint or "rate_limit"; `fits` is FALSE
\* when a column cannot hold the value (a model name from the request body longer than
\* the column).
Record == [type : {"endpoint", "rate_limit"}, key : Keys \cup {NoKey},
           status : {"success", "error"}, fits : BOOLEAN, what : Content]

Batch   == (flushed + 1) .. taken
Queued  == (taken + 1) .. Len(log)
Pending == (flushed + 1) .. Len(log)

\* Insert or commit raises for the whole batch when one row breaks the foreign
\* key on api_keys or does not fit.
Refused(i) == ~log[i].fits \/ log[i].key \notin keys \cup {NoKey}

HourOf(t) == t \div Hour

BufferInit ==
  /\ log = <<>> /\ taken = 0 /\ flushed = 0
  /\ worker = "waiting" /\ waited = 0 /\ age = 0 /\ begun = 0
  /\ now \in 0 .. MaxNow
  /\ stored = {} /\ born = <<>> /\ gone = {}
  /\ hourly = [h \in 0 .. HourOf(MaxNow) |-> [requests |-> 0, success |-> 0, failure |-> 0]]
  /\ ran = {} /\ keys = Keys /\ faults = 0

\* Queue.put on an unbounded queue does not suspend its caller: what one turn of a
\* request reports is put in one step.
RecordRequests(records) ==
  /\ worker # "down"
  /\ log' = log \o records
  /\ UNCHANGED <<taken, flushed, worker, waited, age, begun, now, tables, keys, faults>>

-----------------------------------------------------------------------------
\* The worker, up to its next await: after each item and after each timeout it
\* decides whether the batch is due.
DueByTime(n) == n > 0 /\ age >= BufferSeconds
DueBySize(n) == n >= MaxItems
Due(n) == n > 0 /\ (age >= BufferSeconds \/ n >= MaxItems)

Loop(n) ==
  /\ waited' = 0
  /\ IF Due(n) THEN worker' = "flushing" /\ begun' = now
               ELSE UNCHANGED <<worker, begun>>

TakeItem ==
  /\ worker = "waiting" /\ taken < Len(log)
  /\ taken' = taken + 1
  /\ Loop(taken + 1 - flushed)
  /\ UNCHANGED <<log, flushed, age, now, tables, keys, faults>>

TakeTimesOut ==
  /\ worker = "waiting" /\ taken = Len(log) /\ waited >= BufferSeconds
  /\ Loop(taken - flushed)
  /\ UNCHANGED <<log, taken, flushed, age, now, tables, keys, faults>>

\* (Mutants: the batch is not cleared; the queue is cleared with it.)
Uncleared ==
  /\ worker' = "waiting" /\ age' = 0 /\ waited' = 0 /\ begun' = 0
  /\ UNCHANGED <<log, taken, flushed, now, hourly, ran, keys>>
ClearedQueue ==
  /\ taken' = Len(log) /\ flushed' = Len(log)
  /\ worker' = "waiting" /\ age' = 0 /\ waited' = 0 /\ begun' = 0
  /\ UNCHANGED <<log, now, hourly, ran, keys>>

\* Back in the loop: batch.clear(), last_flush = now, whatever the write did.
Cleared ==
  /\ flushed' = taken /\ worker' = "waiting" /\ age' = 0 /\ waited' = 0 /\ begun' = 0
  /\ UNCHANGED <<log, taken, now, hourly, ran, keys>>

Inserted(R) ==
  /\ stored' = stored \cup R
  /\ born' = [i \in DOMAIN born \cup R |-> IF i \in R THEN begun ELSE born[i]]

FlushCommits ==
  /\ worker = "flushing" /\ \A i \in Batch : ~Refused(i)
  /\ Inserted(Batch) /\ Cleared
  /\ UNCHANGED <<gone, faults>>

\* except Exception: the error is printed and the batch is dropped.
FlushFails ==
  /\ worker = "flushing"
  /\ \/ \E i \in Batch : Refused(i) /\ UNCHANGED faults
     \/ faults < MaxFaults /\ faults' = faults + 1
  /\ gone' = gone \cup Batch /\ Cleared
  /\ UNCHANGED <<stored, born>>

\* The process dies, or the lifespan cancels the worker: queue and batch were
\* only in memory.  A commit under way is applied or not.
Stops ==
  /\ worker # "down" /\ faults < MaxFaults
  /\ \/ worker = "flushing" /\ (\A i \in Batch : ~Refused(i))
        /\ Inserted(Batch) /\ gone' = gone \cup Queued
     \/ UNCHANGED <<stored, born>> /\ gone' = gone \cup Pending
  /\ worker' = "down" /\ taken' = Len(log) /\ flushed' = Len(log)
  /\ waited' = 0 /\ age' = 0 /\ begun' = 0 /\ faults' = faults + 1
  /\ UNCHANGED <<log, now, hourly, ran, keys>>

Starts ==
  /\ worker = "down"
  /\ worker' = "waiting"
  /\ UNCHANGED <<log, taken, flushed, waited, age, begun, now, tables, keys, faults>>

-----------------------------------------------------------------------------
\* The hourly job: rows of the last hour, grouped by their own hour, are added
\* to what hourly_agg holds.  The job runs some time into its tick, so a row
\* made in the tick an hour before may be in the window or not (`edge`).
WindowTwoHours(edge) == {i \in stored : born[i] + 2 * Hour > now} \cup edge
Window(edge) == {i \in stored : born[i] + Hour > now} \cup edge

Tally(old, R) ==
  [requests |-> old.requests + Cardinality(R),
   success  |-> old.success + Cardinality({i \in R : log[i].status = "success"}),
   failure  |-> old.failure + Cardinality({i \in R : log[i].status # "success"})]

AggregateHourly ==
  /\ worker # "down" /\ now % Hour = 0 /\ HourOf(now) \notin ran
  /\ \E edge \in SUBSET {i \in stored : born[i] + Hour = now} :
       hourly' = [h \in DOMAIN hourly |->
                    Tally(hourly[h], {i \in Window(edge) : HourOf(born[i]) = h})]
  /\ ran' = ran \cup {HourOf(now)}
  /\ UNCHANGED <<log, taken, flushed, worker, waited, age, begun, now,
                 stored, born, gone, keys, faults>>

\* The daily job; its hour of the day is left open.
CleanupOldRequests ==
  LET old == {i \in stored : born[i] + Retention < now}
  IN /\ worker # "down" /\ old # {}
     /\ stored' = stored \ old /\ gone' = gone \cup old
     /\ UNCHANGED <<log, taken, flushed, worker, waited, age, begun, now,
                    born, hourly, ran, keys, faults>>

\* DELETE of a key commits only if no stored request refers to it.
DeleteKey(k) ==
  /\ k \in keys /\ faults < MaxFaults
  /\ \A i \in stored : log[i].key # k
  /\ keys' = keys \ {k} /\ faults' = faults + 1
  /\ UNCHANGED <<log, taken, flushed, worker, waited, age, begun, now, tables>>

\* The calendar of the model stops at MaxNow; the worker's timers run on.  Time
\* that passes while the process is down changes nothing.
Tick ==
  /\ worker # "down"
  /\ now < MaxNow \/ waited < BufferSeconds \/ age < BufferSeconds
  /\ now' = IF now < MaxNow THEN now + 1 ELSE now
  /\ waited' = IF waited < BufferSeconds THEN waited + 1 ELSE waited
  /\ age' = IF age < BufferSeconds THEN age + 1 ELSE age
  /\ UNCHANGED <<log, taken, flushed, worker, begun, tables, keys, faults>>

BufferStep ==
  \/ TakeItem \/ TakeTimesOut \/ FlushCommits \/ FlushFails
  \/ Starts \/ AggregateHourly \/ CleanupOldRequests \/ Tick
  \/ \E k \in Keys : DeleteKey(k)

BufferNext == BufferStep \/ Stops \/ \E records \in Seq(Record) : RecordRequests(records)

BufferSpec == BufferInit /\ [][BufferNext]_bufferVars
=============================================================================
