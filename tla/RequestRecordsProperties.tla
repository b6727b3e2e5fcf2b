---------------------- MODULE RequestRecordsProperties ----------------------
(***************************************************************************)
(* What the request log and its reporters must keep true.                  *)
(***************************************************************************)
EXTENDS RequestRecords, AnalyticsQueries

\* The type invariant; it bounds the batch by ANALYTICS_BUFFER_MAX_ITEMS.
RecordsTypeOK ==
  /\ log \in Seq(Record) /\ flushed <= taken /\ taken <= Len(log)
  /\ taken - flushed <= MaxItems
  /\ worker \in {"waiting", "flushing", "down"}
  /\ waited \in 0 .. BufferSeconds /\ age \in 0 .. BufferSeconds
  /\ now \in 0 .. MaxNow /\ begun \in 0 .. now
  /\ stored \subseteq DOMAIN born /\ gone \subseteq 1 .. Len(log)
  /\ \A i \in DOMAIN born : born[i] \in 0 .. now
  /\ keys \subseteq Keys /\ faults \in 0 .. MaxFaults

\* The buffer implements the abstract request log: the queue, the batch, a
\* flush that fails, a crash in the middle of a flush and the retention never
\* store a record twice, invent one or bring one back.
Log == INSTANCE RecordLog WITH handed <- Len(log)
ImplementsRecordLog == Log!Spec

\* Record i left memory without becoming a row for a reason outside the worker: a crash,
\* a shutdown or a failed write, or a record that the table refuses and that can have been
\* in one batch with it.
Caused(i) ==
  \/ faults > 0
  \/ \E j \in 1 .. Len(log) : Refused(j) /\ j < i + MaxItems /\ i < j + MaxItems

\* Nothing is lost without a cause: one record that is refused costs its own batch and
\* no other (AnalyticsService._buffer_worker, _flush_batch).
LossHasCause ==
  \A i \in 1 .. flushed : i \notin DOMAIN born => Caused(i)

\* A success in the log means that the provider answered, except for speech,
\* which reports before it calls (proxy/api.py text_to_speech).
SuccessMeansAnswered ==
  \A i \in 1 .. Len(log) :
    LET r == log[i].what
    IN log[i].status = "success" => answered[r] \/ kind[r] \in {"speech", "speech-auto"}

\* Rate-limit usage is committed only for a request whose success was reported and
\* whose provider answered, or whose client hung up on a stream of speech: a provider
\* that fails costs nothing, although its usage was flushed before the call.  Images and
\* transcriptions are answered only after their usage is committed
\* (RouterService.record_request, get_db).
UsageExact ==
  \A r \in Requests :
    /\ usage[r] = "committed" =>
         /\ answered[r] \/ (hungUp[r] /\ kind[r] \in {"speech", "speech-auto"})
         /\ \E i \in 1 .. Len(log) : log[i].what = r /\ log[i].status = "success"
    /\ reply[r] = 200 /\ kind[r] \in {"image", "image-auto", "audio", "audio-auto"} =>
         usage[r] = "committed"

\* Record i is an error of r at key k, put by set_cooldown ("rate_limit") or by r's
\* own endpoint.
Error(i, r, type, k) ==
  log[i].what = r /\ log[i].status = "error" /\ log[i].type = type /\ log[i].key = k

\* The calls that r gave up on stand in the log at these places, in this order and twice
\* each; no other record of r is of type "rate_limit".
Traces(at, r) ==
  /\ at \in [1 .. Len(tried[r]) -> 1 .. (Len(log) - 1)]
  /\ \A m, n \in 1 .. Len(tried[r]) : m < n => at[m] < at[n]
  /\ \A n \in 1 .. Len(tried[r]) :
       /\ Error(at[n], r, "rate_limit", tried[r][n])
       /\ Error(at[n] + 1, r, "endpoint", tried[r][n])
  /\ \A i \in 1 .. Len(log) :
       log[i].what = r /\ log[i].type = "rate_limit" => \E n \in 1 .. Len(tried[r]) : at[n] = i

\* An error status other than 500 was reported.  Every call that a retry loop gave up on
\* stands in the log twice, once as "rate_limit" by set_cooldown and right behind it as
\* the endpoint's own, in the order of the calls and no more often, although 429 and 500
\* roll their cooldown rows back.
ErrorsReported ==
  \A r \in Requests :
    /\ reply[r] \in {404, 429, 503} => \E i \in 1 .. Len(log) : Error(i, r, "endpoint", NoKey)
    /\ reply[r] = 502 => \E i \in 1 .. Len(log) : Error(i, r, "endpoint", key[r])
    /\ \E at \in [1 .. Len(tried[r]) -> 1 .. (Len(log) - 1)] : Traces(at, r)

\* The overview shows no more requests than the summary and the retention account
\* for, except those made in the first tick of an hour, which two runs of the
\* hourly job can see; and its successes and errors add up (aggregate_hourly,
\* cleanup_old_requests, get_analytics_summary, get_dashboard).
CountedOnce ==
  LET edge == {i \in DOMAIN born : born[i] % Hour = 0}
      seen == Dashboard(0)
  IN /\ seen.total <= Summary(0).total + Cardinality(gone \cap DOMAIN born) + Cardinality(edge)
     /\ seen.total = seen.success + seen.errors

\* Every record leaves memory: the requests are finitely many, and the worker
\* flushes by time even when no other record arrives, so again and again
\* nothing is pending (AnalyticsService._buffer_worker).
QueueDrains == []<>(Pending = {})
=============================================================================
