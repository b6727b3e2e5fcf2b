------------------------ MODULE RequestRecordsProofs ------------------------
(***************************************************************************)
(* Theorems about the request log, for any number of requests and keys,    *)
(* any batch size, buffer time, retention and number of faults.            *)
(***************************************************************************)
EXTENDS RequestRecordsProperties, FiniteSetTheorems, TLAPS

-----------------------------------------------------------------------------
(* Types *)

Phases == {"new", "routing", "calling", "streaming", "committing", "done"}

RequestsTypeOK ==
  /\ phase \in [Requests -> Phases]
  /\ key \in [Requests -> Keys \cup {NoKey}]
  /\ tried \in [Requests -> Seq(Keys \cup {NoKey})]
  /\ answered \in [Requests -> BOOLEAN]
  /\ hungUp \in [Requests -> BOOLEAN]
  /\ usage \in [Requests -> {"none", "flushed", "committed"}]
  /\ reply \in [Requests -> Nat]

\* The worker goes back to waiting with room in its batch, and is down with none.
RoomInBatch ==
  /\ worker = "waiting" => taken - flushed < MaxItems
  /\ worker = "down" => taken = flushed

\* Rows and losses are records that have left the process, and no record is both.
Settled ==
  /\ DOMAIN born \subseteq 1 .. flushed
  /\ gone \subseteq 1 .. flushed
  /\ stored \cap gone = {}

Counters == taken \in Nat /\ flushed \in Nat

BufferInv == RecordsTypeOK /\ Counters /\ RoomInBatch /\ Settled

Inv == BufferInv /\ RequestsTypeOK

\* A commit that fails counts as a fault and leaves the buffer alone.
CommitFault ==
  /\ faults < MaxFaults /\ faults' = faults + 1
  /\ UNCHANGED <<log, taken, flushed, worker, waited, age, begun, now, tables, keys>>

\* What a request can do to the buffer.
Reports == \E records \in Seq(Record) : records # <<>> /\ RecordRequests(records)
Touches == Reports \/ CommitFault \/ UNCHANGED bufferVars

LEMMA InitInv == Init => Inv
BY BufferAssumption DEF Init, BufferInit, Inv, BufferInv, RecordsTypeOK, Counters, RoomInBatch, Settled,
     RequestsTypeOK, Phases

-----------------------------------------------------------------------------
(* The requests *)

LEMMA ReportTouches ==
  ASSUME RequestsTypeOK, NEW r \in Requests, NEW k \in Keys \cup {NoKey},
         NEW s \in {"success", "error"}, NEW fits \in BOOLEAN, Report(r, k, s, fits)
  PROVE  Reports
<1> DEFINE x == RecordOf(r, "endpoint", k, s, fits)
<1>1. x \in Record
  BY RecordsAssumption DEF Record, RecordOf
<1>2. RecordRequests(<<x>>)
  BY DEF Report
<1> HIDE DEF x
<1>3. <<x>> \in Seq(Record) /\ <<x>> # <<>>
  BY <1>1
<1> QED BY <1>2, <1>3 DEF Reports

LEMMA EndsType ==
  ASSUME RequestsTypeOK, NEW r \in Requests, NEW status \in Nat, Ends(r, status)
  PROVE  RequestsTypeOK'
BY DEF RequestsTypeOK, Phases, Ends

LEMMA SucceedsStep ==
  ASSUME RequestsTypeOK, NEW r \in Requests, NEW status \in Nat, Succeeds(r, status)
  PROVE  Touches /\ RequestsTypeOK'
<1>1. key[r] \in Keys \cup {NoKey}
  BY DEF RequestsTypeOK
<1>2. Touches
  BY <1>1, ReportTouches DEF Succeeds, Touches
<1> QED BY <1>2 DEF Succeeds, RequestsTypeOK, Phases

LEMMA CommitsStep ==
  ASSUME RequestsTypeOK, NEW r \in Requests, Commits(r)
  PROVE  Touches /\ RequestsTypeOK'
<1>1. reply[r] \in Nat
  BY DEF RequestsTypeOK
<1>2. CASE Unreported /\ phase' = [phase EXCEPT ![r] = "done"]
           /\ usage' = [usage EXCEPT ![r] = IF @ = "flushed" THEN "committed" ELSE @]
           /\ reply' = [reply EXCEPT ![r] = 200]
           /\ UNCHANGED <<kind, key, tried, answered, hungUp>>
  BY <1>2 DEF Unreported, Touches, RequestsTypeOK, Phases
<1>3. CASE CommitFault /\ Ends(r, IF reply[r] = 0 THEN 500 ELSE reply[r])
  BY <1>1, <1>3, EndsType DEF Touches
<1> QED BY <1>2, <1>3 DEF Commits, CommitFault

LEMMA LookupFailsStep ==
  ASSUME RequestsTypeOK, NEW r \in Requests, LookupFails(r)
  PROVE  Touches /\ RequestsTypeOK'
<1>1. Ends(r, 404) \/ Ends(r, 503)
  BY DEF LookupFails
<1>2. \E fits \in BOOLEAN : Report(r, NoKey, "error", fits)
  BY DEF LookupFails
<1>3. Reports
  BY <1>2, ReportTouches
<1> QED BY <1>1, <1>3, EndsType DEF Touches

LEMMA UnhandledStep ==
  ASSUME RequestsTypeOK, NEW r \in Requests, Unhandled(r)
  PROVE  Touches /\ RequestsTypeOK'
BY EndsType DEF Unhandled, Touches, Unreported

LEMMA ChosenType ==
  ASSUME RequestsTypeOK, keys \subseteq Keys, NEW r \in Requests, NEW k \in keys,
         NEW next \in Phases, Chosen(r, k, next),
         UNCHANGED <<kind, tried, answered, hungUp, usage, reply>>
  PROVE  RequestsTypeOK'
BY DEF RequestsTypeOK, Chosen

LEMMA LookupStep ==
  ASSUME RequestsTypeOK, keys \subseteq Keys, NEW r \in Requests,
         NEW next \in {"calling", "streaming"}, Lookup(r, next)
  PROVE  Touches /\ RequestsTypeOK'
<1>1. CASE LookupFails(r)
  BY <1>1, LookupFailsStep
<1>2. CASE Unreported /\ \E k \in keys : Chosen(r, k, next)
           /\ UNCHANGED <<kind, tried, answered, hungUp, usage, reply>>
  BY <1>2, ChosenType DEF Unreported, Touches, Phases
<1> QED BY <1>1, <1>2 DEF Lookup

LEMMA AnnouncesStep ==
  ASSUME RequestsTypeOK, keys \subseteq Keys, NEW r \in Requests, NEW k \in keys, Announces(r, k)
  PROVE  Touches /\ RequestsTypeOK'
<1>1. Reports
  BY ReportTouches DEF Announces
<1> QED BY <1>1 DEF Announces, Chosen, Touches, RequestsTypeOK, Phases

LEMMA SpeechStreamEndsStep ==
  ASSUME RequestsTypeOK, NEW r \in Requests, SpeechStreamEnds(r)
  PROVE  Touches /\ RequestsTypeOK'
<1>1. Touches
  BY DEF SpeechStreamEnds, Unreported, Touches
<1>2. CASE Ends(r, 200)
  BY <1>1, <1>2, EndsType
<1> QED BY <1>1, <1>2 DEF SpeechStreamEnds, RequestsTypeOK, Phases

LEMMA NoCandidateStep ==
  ASSUME RequestsTypeOK, NEW r \in Requests, NoCandidate(r)
  PROVE  Touches /\ RequestsTypeOK'
<1>1. Reports
  BY ReportTouches DEF NoCandidate
<1> QED BY <1>1, EndsType DEF NoCandidate, Touches

LEMMA SelectFallbackStep ==
  ASSUME RequestsTypeOK, keys \subseteq Keys, NEW r \in Requests, SelectFallback(r)
  PROVE  Touches /\ RequestsTypeOK'
BY ChosenType DEF SelectFallback, Unreported, Touches, Phases

\* The two records of a failed call.
LEMMA FailureRecords ==
  ASSUME NEW r \in Requests, key[r] \in Keys \cup {NoKey}
  PROVE  /\ Failures(r) \in Seq(Record) /\ Len(Failures(r)) = 2 /\ Failures(r) # <<>>
         /\ \A i \in 1 .. 2 : /\ Failures(r)[i].what = r /\ Failures(r)[i].key = key[r]
                             /\ Failures(r)[i].status = "error"
         /\ Failures(r)[1].type = "rate_limit" /\ Failures(r)[2].type = "endpoint"
<1> DEFINE x == RecordOf(r, "rate_limit", key[r], "error", TRUE)
           y == RecordOf(r, "endpoint", key[r], "error", TRUE)
<1>1. /\ x \in Record /\ x.what = r /\ x.key = key[r] /\ x.status = "error" /\ x.type = "rate_limit"
      /\ y \in Record /\ y.what = r /\ y.key = key[r] /\ y.status = "error" /\ y.type = "endpoint"
  BY RecordsAssumption DEF Record, RecordOf
<1>2. Failures(r) = <<x, y>>
  BY DEF Failures
<1> HIDE DEF x, y
<1> QED BY <1>1, <1>2

LEMMA FailsOverStep ==
  ASSUME RequestsTypeOK, NEW r \in Requests, FailsOver(r)
  PROVE  Touches /\ RequestsTypeOK'
<1>1. key[r] \in Keys \cup {NoKey}
  BY DEF RequestsTypeOK
<1>2. Failures(r) \in Seq(Record) /\ Failures(r) # <<>>
  BY <1>1, FailureRecords
<1>3. Touches
  BY <1>2 DEF FailsOver, Reports, Touches
<1>4. tried' \in [Requests -> Seq(Keys \cup {NoKey})]
  BY <1>1 DEF FailsOver, RequestsTypeOK
<1>5. phase' \in [Requests -> Phases] /\ reply' \in [Requests -> Nat]
  <2>1. phase \in [Requests -> Phases] /\ reply \in [Requests -> Nat]
    BY DEF RequestsTypeOK
  <2>2. \/ phase' = [phase EXCEPT ![r] = "routing"] /\ reply' = reply
        \/ phase' = [phase EXCEPT ![r] = "done"] /\ reply' = [reply EXCEPT ![r] = 500]
    BY DEF FailsOver
  <2> QED BY <2>1, <2>2 DEF Phases
<1> QED BY <1>3, <1>4, <1>5 DEF FailsOver, RequestsTypeOK

LEMMA CreateEmbeddingsStep ==
  ASSUME RequestsTypeOK, keys \subseteq Keys, NEW r \in Requests, CreateEmbeddings(r)
  PROVE  Touches /\ RequestsTypeOK'
<1>1. CASE Embed(r)
  BY <1>1, ChosenType DEF Embed, Unreported, Touches, Phases
<1>2. CASE Unhandled(r)
  BY <1>2, UnhandledStep
<1>3. CASE (\E fits \in BOOLEAN : Report(r, NoKey, "error", fits)) /\ Ends(r, 503)
  <2>1. Reports
    BY <1>3, ReportTouches
  <2> QED BY <1>3, <2>1, EndsType DEF Touches
<1>4. CASE /\ Report(r, NoKey, "success", TRUE)
           /\ answered' = [answered EXCEPT ![r] = TRUE]
           /\ phase' = [phase EXCEPT ![r] = "done"]
           /\ reply' = [reply EXCEPT ![r] = 200]
           /\ UNCHANGED <<kind, key, tried, hungUp, usage>>
  <2>1. Reports
    BY <1>4, ReportTouches
  <2> QED BY <1>4, <2>1 DEF Touches, RequestsTypeOK, Phases
<1> QED BY <1>1, <1>2, <1>3, <1>4 DEF CreateEmbeddings

\* What a request does to the buffer is to put records, a failed commit or nothing.
LEMMA EndpointStep ==
  ASSUME RequestsTypeOK, keys \subseteq Keys, NEW r \in Requests, Endpoint(r)
  PROVE  Touches /\ RequestsTypeOK'
<1>1. CASE DirectChat(r)
  BY <1>1, LookupStep, SucceedsStep, UnhandledStep DEF DirectChat
<1>2. CASE DirectChatStream(r)
  <2>1. CASE Lookup(r, "streaming")
    BY <2>1, LookupStep
  <2>2. CASE Unhandled(r)
    BY <2>2, UnhandledStep
  <2>3. CASE Unreported /\ Ends(r, 200)
    BY <2>3, EndsType DEF Unreported, Touches
  <2> QED BY <1>2, <2>1, <2>2, <2>3 DEF DirectChatStream
<1>3. CASE DirectImage(r)
  <2>1. CASE Report(r, key[r], "error", TRUE) /\ Ends(r, 502)
    <3>1. key[r] \in Keys \cup {NoKey}
      BY DEF RequestsTypeOK
    <3>2. Reports
      BY <2>1, <3>1, ReportTouches
    <3> QED BY <2>1, <3>2, EndsType DEF Touches
  <2> QED BY <1>3, <2>1, LookupStep, SucceedsStep, UnhandledStep DEF DirectImage
<1>4. CASE DirectTranscription(r)
  BY <1>4, LookupStep, SucceedsStep, UnhandledStep DEF DirectTranscription
<1>5. CASE DirectSpeech(r)
  BY <1>5, LookupFailsStep, UnhandledStep, AnnouncesStep, SpeechStreamEndsStep DEF DirectSpeech
<1>6. CASE AutoImage(r)
  BY <1>6, NoCandidateStep, SelectFallbackStep, FailsOverStep, SucceedsStep, UnhandledStep DEF AutoImage
<1>7. CASE AutoTranscription(r)
  BY <1>7, NoCandidateStep, SelectFallbackStep, FailsOverStep, SucceedsStep, UnhandledStep
     DEF AutoTranscription
<1>8. CASE AutoSpeech(r)
  BY <1>8, NoCandidateStep, SpeechStreamEndsStep, UnhandledStep, AnnouncesStep DEF AutoSpeech
<1>9. CASE CreateEmbeddings(r)
  BY <1>9, CreateEmbeddingsStep
<1>10. CASE Commits(r)
  BY <1>10, CommitsStep
<1> QED BY <1>1, <1>2, <1>3, <1>4, <1>5, <1>6, <1>7, <1>8, <1>9, <1>10 DEF Endpoint

-----------------------------------------------------------------------------
(* The buffer *)

\* What is put on the log is at its end.
LEMMA LogGrows ==
  ASSUME log \in Seq(Record), NEW S, NEW records \in Seq(S), log' = log \o records
  PROVE  /\ Len(log) \in Nat /\ Len(records) \in Nat /\ Len(log') = Len(log) + Len(records)
         /\ \A i \in 1 .. Len(log) : log'[i] = log[i]
         /\ \A i \in 1 .. Len(records) : log'[Len(log) + i] = records[i]
BY SMT

\* New records are at the end of the queue.
LEMMA ReportInv ==
  ASSUME BufferInv, NEW records \in Seq(Record), records # <<>>, RecordRequests(records)
  PROVE  BufferInv' /\ Len(log') > Len(log) /\ \A i \in 1 .. Len(log) : log'[i] = log[i]
<1>1. log \in Seq(Record) /\ log' = log \o records /\ Len(records) > 0
  BY DEF BufferInv, RecordsTypeOK, RecordRequests
<1>2. log' \in Seq(Record)
  BY <1>1
<1>3. /\ Len(log) \in Nat /\ Len(log') \in Nat /\ Len(log') > Len(log)
      /\ \A i \in 1 .. Len(log) : log'[i] = log[i]
  BY <1>1, LogGrows
<1> QED BY <1>2, <1>3, BufferAssumption
        DEF BufferInv, RecordsTypeOK, Counters, RoomInBatch, Settled, RecordRequests, tables

LEMMA CommitFaultInv == BufferInv /\ CommitFault => BufferInv'
BY BufferAssumption DEF BufferInv, RecordsTypeOK, Counters, RoomInBatch, Settled, CommitFault, tables

LEMMA LoopFacts ==
  ASSUME BufferInv, worker = "waiting", NEW n \in Nat, Loop(n)
  PROVE  /\ waited' \in 0 .. BufferSeconds /\ begun' \in 0 .. now
         /\ worker' = "flushing" \/ (worker' = "waiting" /\ n < MaxItems)
BY BufferAssumption DEF BufferInv, RecordsTypeOK, Loop, Due

LEMMA TakeItemInv == BufferInv /\ TakeItem => BufferInv'
<1> SUFFICES ASSUME BufferInv, TakeItem PROVE BufferInv'
  OBVIOUS
<1>1. taken + 1 - flushed \in Nat /\ taken + 1 - flushed <= MaxItems
  BY BufferAssumption DEF BufferInv, RecordsTypeOK, Counters, RoomInBatch, TakeItem
<1>2. /\ waited' \in 0 .. BufferSeconds /\ begun' \in 0 .. now
      /\ worker' = "flushing" \/ (worker' = "waiting" /\ taken + 1 - flushed < MaxItems)
  BY <1>1, LoopFacts DEF TakeItem
<1> QED BY <1>1, <1>2 DEF BufferInv, RecordsTypeOK, Counters, RoomInBatch, Settled, TakeItem, tables

LEMMA TakeTimesOutInv == BufferInv /\ TakeTimesOut => BufferInv'
<1> SUFFICES ASSUME BufferInv, TakeTimesOut PROVE BufferInv'
  OBVIOUS
<1>1. taken - flushed \in Nat
  BY DEF BufferInv, RecordsTypeOK, Counters
<1>2. /\ waited' \in 0 .. BufferSeconds /\ begun' \in 0 .. now
      /\ worker' = "flushing" \/ (worker' = "waiting" /\ taken - flushed < MaxItems)
  BY <1>1, LoopFacts DEF TakeTimesOut
<1> QED BY <1>1, <1>2 DEF BufferInv, RecordsTypeOK, Counters, RoomInBatch, Settled, TakeTimesOut, tables

\* What an insertion of pending records does to the rows.
LEMMA InsertedFacts ==
  ASSUME BufferInv, NEW R, R \subseteq Pending, Inserted(R)
  PROVE  /\ stored' \subseteq DOMAIN born' /\ DOMAIN born' = DOMAIN born \cup R
         /\ \A i \in DOMAIN born' : born'[i] \in 0 .. now
         /\ stored' \cap gone = {} /\ stored' = stored \cup R
<1>1. \A i \in R : i \notin gone
  BY DEF BufferInv, RecordsTypeOK, Counters, Settled, Pending
<1>2. begun \in 0 .. now
  BY DEF BufferInv, RecordsTypeOK
<1> QED BY <1>1, <1>2 DEF BufferInv, RecordsTypeOK, Settled, Inserted

LEMMA FlushCommitsInv == BufferInv /\ FlushCommits => BufferInv'
<1> SUFFICES ASSUME BufferInv, FlushCommits PROVE BufferInv'
  OBVIOUS
<1>1. Batch \subseteq Pending
  BY DEF BufferInv, RecordsTypeOK, Counters, Batch, Pending
<1>2. /\ stored' \subseteq DOMAIN born' /\ DOMAIN born' = DOMAIN born \cup Batch
      /\ \A i \in DOMAIN born' : born'[i] \in 0 .. now
      /\ stored' \cap gone = {}
  BY <1>1, InsertedFacts DEF FlushCommits
<1>3. DOMAIN born' \subseteq 1 .. flushed'
  BY <1>2 DEF BufferInv, RecordsTypeOK, Counters, Settled, FlushCommits, Cleared, Batch
<1> QED BY <1>2, <1>3, BufferAssumption DEF BufferInv, RecordsTypeOK, Counters, RoomInBatch, Settled, FlushCommits, Cleared

LEMMA FlushFailsInv == BufferInv /\ FlushFails => BufferInv'
<1> SUFFICES ASSUME BufferInv, FlushFails PROVE BufferInv'
  OBVIOUS
<1>1. Batch \subseteq Pending /\ Pending \cap DOMAIN born = {} /\ Batch \subseteq 1 .. taken
  BY DEF BufferInv, RecordsTypeOK, Counters, Settled, Batch, Pending
<1>2. faults' \in 0 .. MaxFaults
  BY BufferAssumption DEF BufferInv, RecordsTypeOK, FlushFails
<1> QED BY <1>1, <1>2, BufferAssumption DEF BufferInv, RecordsTypeOK, Counters, RoomInBatch, Settled, FlushFails, Cleared

\* A stop leaves the counters at the end of the queue and the worker down.
LEMMA StopsCounters ==
  ASSUME BufferInv, Stops
  PROVE  /\ log' \in Seq(Record) /\ Counters' /\ RoomInBatch'
         /\ flushed' = Len(log') /\ taken' = Len(log') /\ taken' - flushed' <= MaxItems
         /\ worker' = "down" /\ waited' \in 0 .. BufferSeconds /\ age' \in 0 .. BufferSeconds
         /\ now' \in 0 .. MaxNow /\ begun' \in 0 .. now' /\ keys' \subseteq Keys
         /\ faults' \in 0 .. MaxFaults
BY BufferAssumption DEF BufferInv, RecordsTypeOK, Counters, RoomInBatch, Stops

LEMMA StopsInv == BufferInv /\ Stops => BufferInv'
<1> SUFFICES ASSUME BufferInv, Stops PROVE BufferInv'
  OBVIOUS
<1>1. /\ Batch \cap Queued = {} /\ Batch \cup Queued = Pending /\ Pending \cap DOMAIN born = {}
      /\ Pending \subseteq 1 .. Len(log) /\ Len(log) \in Nat /\ flushed <= Len(log)
  BY DEF BufferInv, RecordsTypeOK, Counters, Settled, Batch, Queued, Pending
<1>2. log' = log /\ now' = now
  BY DEF Stops
<1>3. DOMAIN born \subseteq 1 .. Len(log) /\ gone \subseteq 1 .. Len(log)
  BY <1>1 DEF BufferInv, RecordsTypeOK, Counters, Settled
<1>4. /\ stored' \subseteq DOMAIN born' /\ DOMAIN born' \subseteq 1 .. Len(log)
      /\ \A i \in DOMAIN born' : born'[i] \in 0 .. now
      /\ stored' \cap gone' = {} /\ gone' \subseteq 1 .. Len(log)
  <2>1. CASE Inserted(Batch) /\ gone' = gone \cup Queued
    <3>1. /\ stored' \subseteq DOMAIN born' /\ DOMAIN born' = DOMAIN born \cup Batch
          /\ \A i \in DOMAIN born' : born'[i] \in 0 .. now
          /\ stored' \cap gone = {} /\ stored' = stored \cup Batch
      BY <1>1, <2>1, InsertedFacts
    <3>2. stored' \cap gone' = {}
      BY <1>1, <2>1, <3>1 DEF BufferInv, RecordsTypeOK
    <3>3. DOMAIN born' \subseteq 1 .. Len(log) /\ gone' \subseteq 1 .. Len(log)
      BY <1>1, <1>3, <2>1, <3>1
    <3> QED BY <3>1, <3>2, <3>3
  <2>2. CASE UNCHANGED <<stored, born>> /\ gone' = gone \cup Pending
    <3>1. stored' \cap gone' = {}
      BY <1>1, <2>2 DEF BufferInv, RecordsTypeOK, Settled
    <3>2. DOMAIN born' \subseteq 1 .. Len(log) /\ gone' \subseteq 1 .. Len(log)
      BY <1>1, <1>3, <2>2
    <3> QED BY <2>2, <3>1, <3>2 DEF BufferInv, RecordsTypeOK
  <2> QED BY <2>1, <2>2 DEF Stops
<1>5. Settled'
  BY <1>2, <1>4, StopsCounters DEF Settled
<1>6. RecordsTypeOK'
  BY <1>2, <1>4, StopsCounters DEF RecordsTypeOK
<1> QED BY <1>5, <1>6, StopsCounters DEF BufferInv

LEMMA StartsInv == BufferInv /\ Starts => BufferInv'
BY BufferAssumption DEF BufferInv, RecordsTypeOK, Counters, RoomInBatch, Settled, Starts, tables

LEMMA AggregateHourlyInv == BufferInv /\ AggregateHourly => BufferInv'
BY DEF BufferInv, RecordsTypeOK, Counters, RoomInBatch, Settled, AggregateHourly

LEMMA CleanupInv == BufferInv /\ CleanupOldRequests => BufferInv'
<1> SUFFICES ASSUME BufferInv, CleanupOldRequests PROVE BufferInv'
  OBVIOUS
<1>1. PICK old \in SUBSET stored : stored' = stored \ old /\ gone' = gone \cup old
  BY DEF CleanupOldRequests
<1>2. old \subseteq 1 .. flushed /\ old \subseteq 1 .. Len(log)
  BY DEF BufferInv, RecordsTypeOK, Counters, Settled
<1> QED BY <1>1, <1>2 DEF BufferInv, RecordsTypeOK, Counters, RoomInBatch, Settled, CleanupOldRequests

LEMMA DeleteKeyInv == ASSUME BufferInv, NEW k \in Keys, DeleteKey(k) PROVE BufferInv'
BY BufferAssumption DEF BufferInv, RecordsTypeOK, Counters, RoomInBatch, Settled, DeleteKey, tables

LEMMA TickInv == BufferInv /\ Tick => BufferInv'
BY BufferAssumption DEF BufferInv, RecordsTypeOK, Counters, RoomInBatch, Settled, Tick, tables

LEMMA BufferStepInv == BufferInv /\ BufferStep => BufferInv'
BY TakeItemInv, TakeTimesOutInv, FlushCommitsInv, FlushFailsInv, StartsInv, AggregateHourlyInv,
   CleanupInv, TickInv, DeleteKeyInv DEF BufferStep

LEMMA TouchesInv == BufferInv /\ Touches => BufferInv'
BY ReportInv, CommitFaultInv
   DEF Touches, Reports, BufferInv, RecordsTypeOK, Counters, RoomInBatch, Settled, bufferVars, tables

LEMMA NextInv == Inv /\ [Next]_vars => Inv'
<1> SUFFICES ASSUME Inv, [Next]_vars PROVE Inv'
  OBVIOUS
<1>1. keys \subseteq Keys
  BY DEF Inv, BufferInv, RecordsTypeOK
<1>2. ASSUME NEW r \in Requests, Endpoint(r) PROVE Inv'
  BY <1>1, <1>2, EndpointStep, TouchesInv DEF Inv
<1>3. CASE BufferStep /\ UNCHANGED requestVars
  BY <1>3, BufferStepInv DEF Inv, RequestsTypeOK, requestVars
<1>4. CASE Shutdown
  BY <1>4, StopsInv DEF Inv, Shutdown, RequestsTypeOK, Phases
<1>5. CASE UNCHANGED vars
  BY <1>5, TouchesInv DEF Inv, vars, requestVars, Touches, RequestsTypeOK
<1> QED BY <1>2, <1>3, <1>4, <1>5 DEF Next

LEMMA AlwaysInv == Spec => []Inv
BY InitInv, NextInv, PTL DEF Spec

\* The counters, the batch, the rows and the losses keep their types, and a batch
\* never exceeds ANALYTICS_BUFFER_MAX_ITEMS.
THEOREM RecordsTypeCorrect == Spec => []RecordsTypeOK
<1>1. Inv => RecordsTypeOK
  BY DEF Inv, BufferInv
<1> QED BY <1>1, AlwaysInv, PTL

-----------------------------------------------------------------------------
(* Every loss has a cause *)

Missing == {i \in 1 .. flushed : i \notin DOMAIN born}

\* The log is only appended to and no key comes back: what the table refuses it
\* refuses for good.
LEMMA CauseStays ==
  ASSUME Len(log) \in Nat, Len(log') \in Nat, Len(log) <= Len(log'),
         \A i \in 1 .. Len(log) : log'[i] = log[i],
         keys' \subseteq keys, faults \in Nat, faults' \in Nat, faults <= faults',
         NEW n \in Nat, Caused(n)
  PROVE  Caused(n)'
<1>1. CASE faults > 0
  BY <1>1 DEF Caused
<1>2. ASSUME NEW j \in 1 .. Len(log), Refused(j), j < n + MaxItems, n < j + MaxItems
      PROVE  Caused(n)'
  <2>1. j \in 1 .. Len(log') /\ log'[j] = log[j]
    OBVIOUS
  <2>2. Refused(j)'
    BY <1>2, <2>1 DEF Refused
  <2> QED BY <1>2, <2>1, <2>2 DEF Caused
<1> QED BY <1>1, <1>2 DEF Caused

\* A step that loses nothing new keeps the property.
LEMMA NoNewLoss ==
  ASSUME BufferInv, BufferInv', LossHasCause, Missing' \subseteq Missing,
         Len(log) <= Len(log'), \A i \in 1 .. Len(log) : log'[i] = log[i],
         keys' \subseteq keys, faults <= faults'
  PROVE  LossHasCause'
<1>1. Len(log) \in Nat /\ Len(log') \in Nat /\ faults \in Nat /\ faults' \in Nat
  BY BufferAssumption DEF BufferInv, RecordsTypeOK
<1>2. ASSUME NEW i \in Missing' PROVE Caused(i)'
  <2>1. i \in Missing
    BY <1>2
  <2>2. i \in Nat /\ Caused(i)
    BY <2>1 DEF Missing, LossHasCause
  <2> QED BY <1>1, <2>2, CauseStays
<1> QED BY <1>2 DEF LossHasCause, Missing

LEMMA FaultIsCause ==
  ASSUME BufferInv, faults' = faults + 1
  PROVE  LossHasCause'
<1>1. faults' > 0
  BY BufferAssumption DEF BufferInv, RecordsTypeOK
<1> QED BY <1>1 DEF LossHasCause, Caused

\* A refused record is near every record of its batch, which is the only loss.
LEMMA FlushFailsCause == BufferInv /\ LossHasCause /\ FlushFails => LossHasCause'
<1> SUFFICES ASSUME BufferInv, LossHasCause, FlushFails PROVE LossHasCause'
  OBVIOUS
<1>1. CASE faults' = faults + 1
  BY <1>1, FaultIsCause
<1>2. ASSUME NEW j \in Batch, Refused(j), faults' = faults PROVE LossHasCause'
  <2>1. /\ flushed \in Nat /\ taken \in Nat /\ Len(log) \in Nat /\ MaxItems \in Nat
        /\ taken - flushed <= MaxItems /\ taken <= Len(log) /\ faults \in Nat
    BY BufferAssumption DEF BufferInv, RecordsTypeOK, Counters
  <2>2. log' = log /\ keys' = keys /\ born' = born /\ flushed' = taken
    BY DEF FlushFails, Cleared
  <2>3. Refused(j)' /\ j \in 1 .. Len(log')
    BY <1>2, <2>1, <2>2 DEF Refused, Batch
  <2>4. ASSUME NEW i \in 1 .. flushed', i \notin DOMAIN born' PROVE Caused(i)'
    <3>1. CASE i <= flushed
      <4>1. Caused(i)
        BY <2>1, <2>2, <2>4, <3>1 DEF LossHasCause
      <4> QED BY <1>2, <2>1, <2>2, <4>1, CauseStays
    <3>2. CASE i > flushed
      <4>1. j < i + MaxItems /\ i < j + MaxItems
        BY <2>1, <2>2, <3>2 DEF Batch
      <4> QED BY <2>3, <4>1 DEF Caused
    <3> QED BY <2>1, <2>2, <3>1, <3>2
  <2> QED BY <2>4 DEF LossHasCause
<1> QED BY <1>1, <1>2 DEF FlushFails

LEMMA FlushCommitsCause == BufferInv /\ LossHasCause /\ FlushCommits => LossHasCause'
<1> SUFFICES ASSUME BufferInv, LossHasCause, FlushCommits PROVE LossHasCause'
  OBVIOUS
<1>1. Batch \subseteq Pending
  BY DEF BufferInv, RecordsTypeOK, Counters, Batch, Pending
<1>2. DOMAIN born' = DOMAIN born \cup Batch
  BY <1>1, InsertedFacts DEF FlushCommits
<1>3. Missing' \subseteq Missing
  BY <1>2 DEF BufferInv, RecordsTypeOK, Counters, Missing, Batch, FlushCommits, Cleared
<1>4. log' = log /\ keys' = keys /\ faults' = faults
  BY DEF FlushCommits, Cleared
<1>5. Len(log) <= Len(log') /\ faults <= faults'
  BY <1>4, BufferAssumption DEF BufferInv, RecordsTypeOK
<1> QED BY <1>3, <1>4, <1>5, FlushCommitsInv, NoNewLoss

\* The other steps move no record out of memory.
LEMMA KeepsCause ==
  ASSUME BufferInv, BufferInv', LossHasCause,
         UNCHANGED <<log, flushed, born, keys, faults>>
  PROVE  LossHasCause'
<1>1. Missing' = Missing
  BY DEF Missing
<1>2. Len(log) <= Len(log') /\ faults <= faults'
  BY BufferAssumption DEF BufferInv, RecordsTypeOK
<1> QED BY <1>1, <1>2, NoNewLoss

LEMMA TouchesCause == BufferInv /\ LossHasCause /\ Touches => LossHasCause'
<1> SUFFICES ASSUME BufferInv, LossHasCause, Touches PROVE LossHasCause'
  OBVIOUS
<1>1. ASSUME NEW records \in Seq(Record), records # <<>>, RecordRequests(records)
      PROVE  LossHasCause'
  <2>1. /\ BufferInv' /\ Len(log') > Len(log)
        /\ \A i \in 1 .. Len(log) : log'[i] = log[i]
    BY <1>1, ReportInv
  <2>2. Missing' = Missing /\ keys' = keys /\ faults' = faults
    BY <1>1 DEF RecordRequests, tables, Missing
  <2>3. Len(log) <= Len(log') /\ faults <= faults'
    BY <2>1, <2>2, BufferAssumption DEF BufferInv, RecordsTypeOK
  <2> QED BY <2>1, <2>2, <2>3, NoNewLoss
<1>2. CASE CommitFault
  BY <1>2, FaultIsCause DEF CommitFault
<1>3. CASE UNCHANGED bufferVars
  BY <1>3, TouchesInv, KeepsCause DEF bufferVars
<1> QED BY <1>1, <1>2, <1>3 DEF Touches, Reports

LEMMA BufferStepCause == BufferInv /\ LossHasCause /\ BufferStep => LossHasCause'
<1> SUFFICES ASSUME BufferInv, LossHasCause, BufferStep PROVE LossHasCause'
  OBVIOUS
<1>1. CASE TakeItem
  BY <1>1, TakeItemInv, KeepsCause DEF TakeItem, tables
<1>2. CASE TakeTimesOut
  BY <1>2, TakeTimesOutInv, KeepsCause DEF TakeTimesOut, tables
<1>3. CASE FlushCommits
  BY <1>3, FlushCommitsCause
<1>4. CASE FlushFails
  BY <1>4, FlushFailsCause
<1>5. CASE Starts
  BY <1>5, StartsInv, KeepsCause DEF Starts, tables
<1>6. CASE AggregateHourly
  BY <1>6, AggregateHourlyInv, KeepsCause DEF AggregateHourly
<1>7. CASE CleanupOldRequests
  BY <1>7, CleanupInv, KeepsCause DEF CleanupOldRequests
<1>8. CASE Tick
  BY <1>8, TickInv, KeepsCause DEF Tick, tables
<1>9. ASSUME NEW k \in Keys, DeleteKey(k) PROVE LossHasCause'
  BY <1>9, FaultIsCause DEF DeleteKey
<1> QED BY <1>1, <1>2, <1>3, <1>4, <1>5, <1>6, <1>7, <1>8, <1>9 DEF BufferStep

\* A record leaves memory without becoming a row only after a crash, a shutdown or a
\* failed write, or together with a record that the table refuses and that is less than
\* a batch away from it.
THEOREM LossHasCauseAlways == Spec => []LossHasCause
<1>1. Init => LossHasCause
  BY DEF Init, BufferInit, LossHasCause
<1>2. Inv /\ LossHasCause /\ [Next]_vars => LossHasCause'
  <2> SUFFICES ASSUME Inv, LossHasCause, [Next]_vars PROVE LossHasCause'
    OBVIOUS
  <2>1. BufferInv /\ RequestsTypeOK /\ keys \subseteq Keys
    BY DEF Inv, BufferInv, RecordsTypeOK
  <2>2. ASSUME NEW r \in Requests, Endpoint(r) PROVE LossHasCause'
    BY <2>1, <2>2, EndpointStep, TouchesCause
  <2>3. CASE BufferStep
    BY <2>1, <2>3, BufferStepCause
  <2>4. CASE Shutdown
    BY <2>1, <2>4, FaultIsCause DEF Shutdown, Stops
  <2>5. CASE UNCHANGED vars
    BY <2>1, <2>5, TouchesCause DEF vars, Touches
  <2> QED BY <2>2, <2>3, <2>4, <2>5 DEF Next
<1> QED BY <1>1, <1>2, AlwaysInv, PTL DEF Spec

-----------------------------------------------------------------------------
(* The buffer implements the log *)

\* Positions in memory are unsettled.
LEMMA PendingUnsettled ==
  ASSUME BufferInv
  PROVE  /\ Batch \subseteq Log!Unsettled /\ Queued \subseteq Log!Unsettled
         /\ Pending \subseteq Log!Unsettled /\ Batch \cap Queued = {}
BY DEF BufferInv, RecordsTypeOK, Counters, Settled, Batch, Queued, Pending, Log!Unsettled

LEMMA SettleWith ==
  ASSUME NEW kept \in SUBSET Log!Unsettled, NEW lost \in SUBSET Log!Unsettled,
         kept \cap lost = {}, stored' = stored \cup kept, gone' = gone \cup lost, log' = log
  PROVE  Log!Next
BY DEF Log!Next, Log!Settle

LEMMA TouchesMapsToLog == BufferInv /\ Touches => [Log!Next]_Log!logVars
<1> SUFFICES ASSUME BufferInv, Touches PROVE [Log!Next]_Log!logVars
  OBVIOUS
<1>1. ASSUME NEW records \in Seq(Record), records # <<>>, RecordRequests(records)
      PROVE  Log!HandOver
  <2>1. BufferInv' /\ Len(log') > Len(log)
    BY <1>1, ReportInv
  <2> QED BY <1>1, <2>1 DEF Log!HandOver, RecordRequests, tables, BufferInv, RecordsTypeOK
<1>2. CASE CommitFault \/ UNCHANGED bufferVars
  BY <1>2 DEF CommitFault, bufferVars, tables, Log!logVars
<1> QED BY <1>1, <1>2 DEF Touches, Reports, Log!Next

LEMMA StopsMapsToLog == BufferInv /\ Stops => Log!Next
<1> SUFFICES ASSUME BufferInv, Stops PROVE Log!Next
  OBVIOUS
<1>1. log' = log
  BY DEF Stops
<1>2. CASE Inserted(Batch) /\ gone' = gone \cup Queued
  BY <1>1, <1>2, PendingUnsettled, SettleWith DEF Inserted
<1>3. CASE UNCHANGED <<stored, born>> /\ gone' = gone \cup Pending
  <2>1. stored' = stored \cup {}
    BY <1>3
  <2> QED BY <1>1, <1>3, <2>1, PendingUnsettled, SettleWith
<1> QED BY <1>2, <1>3 DEF Stops

LEMMA BufferStepMapsToLog == BufferInv /\ BufferStep => [Log!Next]_Log!logVars
<1> SUFFICES ASSUME BufferInv, BufferStep PROVE [Log!Next]_Log!logVars
  OBVIOUS
<1>1. CASE FlushCommits
  <2>1. gone' = gone \cup {} /\ log' = log
    BY <1>1 DEF FlushCommits, Cleared
  <2> QED BY <1>1, <2>1, PendingUnsettled, SettleWith DEF FlushCommits, Inserted
<1>2. CASE FlushFails
  <2>1. stored' = stored \cup {} /\ log' = log
    BY <1>2 DEF FlushFails, Cleared
  <2> QED BY <1>2, <2>1, PendingUnsettled, SettleWith DEF FlushFails
<1>3. CASE CleanupOldRequests
  BY <1>3 DEF CleanupOldRequests, Log!Next, Log!Expire
<1>4. CASE TakeItem \/ TakeTimesOut \/ Starts \/ AggregateHourly \/ Tick \/ \E k \in Keys : DeleteKey(k)
  BY <1>4 DEF TakeItem, TakeTimesOut, Starts, AggregateHourly, Tick, DeleteKey, tables, Log!logVars
<1> QED BY <1>1, <1>2, <1>3, <1>4 DEF BufferStep

\* The buffer implements the request log: every step is a hand-over, a
\* settlement, an expiry or a stutter, so no record is stored twice, invented or
\* brought back.
THEOREM BufferImplementsLog == Spec => ImplementsRecordLog
<1>1. Init => Log!Init
  BY DEF Init, BufferInit, Log!Init
<1>2. Inv /\ [Next]_vars => [Log!Next]_Log!logVars
  <2> SUFFICES ASSUME Inv, [Next]_vars PROVE [Log!Next]_Log!logVars
    OBVIOUS
  <2>1. BufferInv /\ RequestsTypeOK /\ keys \subseteq Keys
    BY DEF Inv, BufferInv, RecordsTypeOK
  <2>2. ASSUME NEW r \in Requests, Endpoint(r) PROVE [Log!Next]_Log!logVars
    BY <2>1, <2>2, EndpointStep, TouchesMapsToLog
  <2>3. CASE BufferStep
    BY <2>1, <2>3, BufferStepMapsToLog
  <2>4. CASE Shutdown
    BY <2>1, <2>4, StopsMapsToLog DEF Shutdown
  <2>5. CASE UNCHANGED vars
    BY <2>1, <2>5, TouchesMapsToLog DEF vars, Touches
  <2> QED BY <2>2, <2>3, <2>4, <2>5 DEF Next
<1> QED BY <1>1, <1>2, AlwaysInv, PTL DEF Spec, ImplementsRecordLog, Log!Spec

-----------------------------------------------------------------------------
(* What the records say of the requests *)

Speech == {"speech", "speech-auto"}
Files == {"image", "image-auto", "audio", "audio-auto"}

\* What the log says, whatever the order it says it in.
Succeeded == {log[i].what : i \in {j \in 1 .. Len(log) : log[j].status = "success"}}
Failed == {<<log[i].what, log[i].key>> :
             i \in {j \in 1 .. Len(log) : log[j].status = "error" /\ log[j].type = "endpoint"}}

Told(r) ==
  /\ r \in Succeeded => answered[r] \/ kind[r] \in Speech
  /\ reply[r] \in {404, 429, 503} => <<r, NoKey>> \in Failed
  /\ reply[r] = 502 => <<r, key[r]>> \in Failed

\* Usage rows wait for a commit only after the success was reported, and an
\* image or a transcription has no answer before that commit.
Paid(r) ==
  /\ usage[r] # "none" => r \in Succeeded
  /\ usage[r] = "committed" =>
       phase[r] = "done" /\ (answered[r] \/ (hungUp[r] /\ kind[r] \in Speech))
  /\ usage[r] = "flushed" => phase[r] \in {"committing", "streaming"}
  /\ phase[r] = "committing" => usage[r] = "flushed" /\ answered[r]
  /\ phase[r] = "streaming" /\ kind[r] \in Speech => usage[r] = "flushed"
  /\ phase[r] # "done" => reply[r] \in {0, 200}
  /\ kind[r] \in Files =>
       /\ phase[r] # "streaming"
       /\ phase[r] # "done" => reply[r] = 0
       /\ reply[r] = 200 => usage[r] = "committed"

Good(r) == Told(r) /\ Paid(r)

GoodInv == Inv /\ Succeeded \subseteq Requests /\ \A r \in Requests : Good(r)

\* A step of request r leaves the other requests alone and adds to the log.
Alone(r) ==
  /\ kind' = kind
  /\ Succeeded \subseteq Succeeded' /\ Succeeded' \subseteq Succeeded \cup {r}
  /\ Failed \subseteq Failed'
  /\ \A q \in Requests \ {r} :
       /\ phase'[q] = phase[q] /\ key'[q] = key[q]
       /\ answered'[q] = answered[q] /\ hungUp'[q] = hungUp[q]
       /\ usage'[q] = usage[q] /\ reply'[q] = reply[q]

\* Records of one request, key and status.
Says(records, r, k, s) ==
  /\ records \in Seq(Record) /\ log' = log \o records
  /\ \A i \in 1 .. Len(records) :
       records[i].what = r /\ records[i].key = k /\ records[i].status = s
  /\ \E i \in 1 .. Len(records) : records[i].type = "endpoint"

\* What is known of r after a record of status s at key k.
Known(r, k, s) ==
  /\ s = "success" => Succeeded' = Succeeded \cup {r} /\ Failed' = Failed
  /\ s = "error" => Succeeded' = Succeeded /\ Failed' = Failed \cup {<<r, k>>}

LEMMA RecordsSay ==
  ASSUME log \in Seq(Record), NEW r, NEW k, NEW s \in {"success", "error"},
         NEW records, Says(records, r, k, s)
  PROVE  Known(r, k, s)
<1> DEFINE L == Len(log)  M == Len(records)
<1>0. /\ records \in Seq(Record) /\ log' = log \o records
      /\ \A i \in 1 .. Len(records) :
           records[i].what = r /\ records[i].key = k /\ records[i].status = s
      /\ \E i \in 1 .. Len(records) : records[i].type = "endpoint"
  BY DEF Says
<1>1. /\ L \in Nat /\ M \in Nat /\ Len(log') = L + M
      /\ \A i \in 1 .. L : log'[i] = log[i]
      /\ \A i \in 1 .. M : log'[L + i] = records[i]
  BY <1>0, LogGrows
<1>2. ASSUME NEW j \in 1 .. L + M
      PROVE  \/ j \in 1 .. L /\ log'[j] = log[j]
             \/ \E i \in 1 .. M : j = L + i /\ log'[j] = records[i]
  <2>1. CASE j \in 1 .. L
    BY <1>1, <2>1
  <2>2. CASE j \notin 1 .. L
    <3>1. j - L \in 1 .. M /\ j = L + (j - L)
      BY <1>1, <2>2
    <3> QED BY <1>1, <3>1
  <2> QED BY <2>1, <2>2
<1>3. PICK e \in 1 .. M : /\ records[e].type = "endpoint" /\ L + e \in 1 .. L + M
                          /\ log'[L + e].what = r /\ log'[L + e].key = k /\ log'[L + e].status = s
                          /\ log'[L + e].type = "endpoint"
  BY <1>0, <1>1
<1>4. \A i \in 1 .. M : records[i].what = r /\ records[i].key = k /\ records[i].status = s
  BY <1>0
<1>5. 1 .. Len(log') = 1 .. L + M /\ 1 .. L \subseteq 1 .. L + M
  BY <1>1
<1> HIDE DEF L, M
<1>6. /\ \A v : v \in Succeeded <=> \E j \in 1 .. L : log[j].status = "success" /\ log[j].what = v
      /\ \A v : v \in Succeeded' <=>
                  \E j \in 1 .. L + M : log'[j].status = "success" /\ log'[j].what = v
  BY <1>5 DEF Succeeded, L
<1>7. /\ \A f : f \in Failed <=>
             \E j \in 1 .. L : /\ log[j].status = "error" /\ log[j].type = "endpoint"
                               /\ f = <<log[j].what, log[j].key>>
      /\ \A f : f \in Failed' <=>
             \E j \in 1 .. L + M : /\ log'[j].status = "error" /\ log'[j].type = "endpoint"
                                   /\ f = <<log'[j].what, log'[j].key>>
  BY <1>5 DEF Failed, L
<1>8. \A v : v \in Succeeded' <=> v \in Succeeded \/ (s = "success" /\ v = r)
  <2> TAKE v
  <2>1. ASSUME v \in Succeeded' PROVE v \in Succeeded \/ (s = "success" /\ v = r)
    <3>1. PICK j \in 1 .. L + M : log'[j].status = "success" /\ log'[j].what = v
      BY <1>6, <2>1
    <3>2. CASE j \in 1 .. L /\ log'[j] = log[j]
      BY <1>6, <3>1, <3>2
    <3>3. CASE \E i \in 1 .. M : j = L + i /\ log'[j] = records[i]
      <4>1. log'[j].what = r /\ log'[j].status = s
        BY <1>4, <3>3
      <4> QED BY <3>1, <4>1
    <3> QED BY <1>2, <3>2, <3>3
  <2>2. ASSUME v \in Succeeded PROVE v \in Succeeded'
    <3>1. PICK j \in 1 .. L : log[j].status = "success" /\ log[j].what = v
      BY <1>6, <2>2
    <3>2. j \in 1 .. L + M /\ log'[j] = log[j]
      BY <1>1, <1>5
    <3> QED BY <1>6, <3>1, <3>2
  <2>3. ASSUME s = "success", v = r PROVE v \in Succeeded'
    BY <1>3, <1>6, <2>3
  <2> QED BY <2>1, <2>2, <2>3
<1>9. \A f : f \in Failed' <=> f \in Failed \/ (s = "error" /\ f = <<r, k>>)
  <2> TAKE f
  <2>1. ASSUME f \in Failed' PROVE f \in Failed \/ (s = "error" /\ f = <<r, k>>)
    <3>1. PICK j \in 1 .. L + M : /\ log'[j].status = "error" /\ log'[j].type = "endpoint"
                                 /\ f = <<log'[j].what, log'[j].key>>
      BY <1>7, <2>1
    <3>2. CASE j \in 1 .. L /\ log'[j] = log[j]
      BY <1>7, <3>1, <3>2
    <3>3. CASE \E i \in 1 .. M : j = L + i /\ log'[j] = records[i]
      <4>1. log'[j].what = r /\ log'[j].key = k /\ log'[j].status = s
        BY <1>4, <3>3
      <4> QED BY <3>1, <4>1
    <3> QED BY <1>2, <3>2, <3>3
  <2>2. ASSUME f \in Failed PROVE f \in Failed'
    <3>1. PICK j \in 1 .. L : /\ log[j].status = "error" /\ log[j].type = "endpoint"
                             /\ f = <<log[j].what, log[j].key>>
      BY <1>7, <2>2
    <3>2. j \in 1 .. L + M /\ log'[j] = log[j]
      BY <1>1, <1>5
    <3> QED BY <1>7, <3>1, <3>2
  <2>3. ASSUME s = "error", f = <<r, k>> PROVE f \in Failed'
    BY <1>3, <1>7, <2>3
  <2> QED BY <2>1, <2>2, <2>3
<1> QED BY <1>8, <1>9 DEF Known

LEMMA ReportSays ==
  ASSUME log \in Seq(Record), NEW r \in Requests, NEW k \in Keys \cup {NoKey},
         NEW s \in {"success", "error"}, NEW fits \in BOOLEAN, Report(r, k, s, fits)
  PROVE  /\ s = "success" => Succeeded' = Succeeded \cup {r} /\ Failed' = Failed
         /\ s = "error" => Succeeded' = Succeeded /\ Failed' = Failed \cup {<<r, k>>}
<1> DEFINE x == RecordOf(r, "endpoint", k, s, fits)
<1>1. x \in Record /\ x.key = k /\ x.status = s /\ x.what = r /\ x.type = "endpoint"
  BY RecordsAssumption DEF Record, RecordOf
<1>2. log' = log \o <<x>>
  BY DEF Report, RecordRequests
<1> HIDE DEF x
<1>3. /\ <<x>> \in Seq(Record) /\ 1 \in 1 .. Len(<<x>>)
      /\ \A i \in 1 .. Len(<<x>>) : <<x>>[i] = x
  BY <1>1
<1>4. /\ \A i \in 1 .. Len(<<x>>) : <<x>>[i].what = r /\ <<x>>[i].key = k /\ <<x>>[i].status = s
      /\ \E i \in 1 .. Len(<<x>>) : <<x>>[i].type = "endpoint"
  BY <1>1, <1>3
<1>5. PICK xs : Says(xs, r, k, s)
  BY <1>2, <1>3, <1>4 DEF Says
<1>6. Known(r, k, s)
  BY <1>5, RecordsSay
<1> QED BY <1>6 DEF Known

LEMMA SilentSays ==
  ASSUME log' = log
  PROVE  Succeeded' = Succeeded /\ Failed' = Failed
BY DEF Succeeded, Failed

\* What every lemma below assumes of the state and the request.
Calm == RequestsTypeOK /\ log \in Seq(Record) /\ keys \subseteq Keys

LEMMA SucceedsGood ==
  ASSUME Calm, NEW r \in Requests, Good(r), NEW status \in {0, 200}, Succeeds(r, status),
         kind[r] \notin Speech, kind[r] \in Files => status = 0
  PROVE  Good(r)' /\ Alone(r)
<1>1. key[r] \in Keys \cup {NoKey}
  BY DEF Calm, RequestsTypeOK
<1>2. Succeeded' = Succeeded \cup {r} /\ Failed' = Failed
  BY <1>1, ReportSays DEF Succeeds, Calm
<1> QED BY <1>2 DEF Succeeds, Calm, RequestsTypeOK, Good, Told, Paid, Alone

LEMMA CommitsGood ==
  ASSUME Calm, NEW r \in Requests, Good(r), Commits(r)
  PROVE  Good(r)' /\ Alone(r)
<1>1. Succeeded' = Succeeded /\ Failed' = Failed
  BY SilentSays DEF Commits, Unreported, bufferVars
<1> QED BY <1>1 DEF Commits, Ends, Calm, RequestsTypeOK, Good, Told, Paid, Alone

LEMMA EndsReportedGood ==
  ASSUME Calm, NEW r \in Requests, Good(r), NEW status \in {404, 429, 503}, NEW fits \in BOOLEAN,
         Report(r, NoKey, "error", fits), Ends(r, status), phase[r] # "done"
  PROVE  Good(r)' /\ Alone(r)
<1>1. Succeeded' = Succeeded /\ Failed' = Failed \cup {<<r, NoKey>>}
  BY ReportSays DEF Calm
<1> QED BY <1>1 DEF Ends, Calm, RequestsTypeOK, Good, Told, Paid, Alone

LEMMA LookupFailsGood ==
  ASSUME Calm, NEW r \in Requests, Good(r), LookupFails(r)
  PROVE  Good(r)' /\ Alone(r)
<1>1. PICK fits \in BOOLEAN : Report(r, NoKey, "error", fits)
  BY DEF LookupFails
<1>2. Ends(r, 404) \/ Ends(r, 503)
  BY DEF LookupFails
<1>3. PICK status \in {404, 503} : Ends(r, status)
  BY <1>2
<1>4. phase[r] # "done"
  BY DEF LookupFails
<1> QED BY <1>1, <1>3, <1>4, EndsReportedGood

LEMMA NoCandidateGood ==
  ASSUME Calm, NEW r \in Requests, Good(r), NoCandidate(r)
  PROVE  Good(r)' /\ Alone(r)
<1>1. phase[r] # "done" /\ Report(r, NoKey, "error", TRUE) /\ Ends(r, 429)
  BY DEF NoCandidate
<1>2. PICK fits \in BOOLEAN : Report(r, NoKey, "error", fits)
  BY <1>1
<1>3. PICK status \in {404, 429, 503} : Ends(r, status)
  BY <1>1
<1> QED BY <1>1, <1>2, <1>3, EndsReportedGood

LEMMA UnhandledGood ==
  ASSUME Calm, NEW r \in Requests, Good(r), Unhandled(r)
  PROVE  Good(r)' /\ Alone(r)
<1>1. Succeeded' = Succeeded /\ Failed' = Failed
  BY SilentSays DEF Unhandled, Unreported, bufferVars
<1> QED BY <1>1 DEF Unhandled, Ends, Calm, RequestsTypeOK, Good, Told, Paid, Alone

\* A key is chosen, and nothing is said yet.
LEMMA ChosenGood ==
  ASSUME Calm, NEW r \in Requests, Good(r), phase[r] \in {"new", "routing"},
         NEW next \in {"calling", "streaming"}, NEW k, Chosen(r, k, next),
         UNCHANGED <<kind, tried, answered, hungUp, usage, reply>>, Unreported,
         next = "streaming" => kind[r] \notin Speech \cup Files
  PROVE  Good(r)' /\ Alone(r)
<1>1. Succeeded' = Succeeded /\ Failed' = Failed
  BY SilentSays DEF Unreported, bufferVars
<1> QED BY <1>1 DEF Chosen, Calm, RequestsTypeOK, Good, Told, Paid, Alone

LEMMA LookupGood ==
  ASSUME Calm, NEW r \in Requests, Good(r), NEW next \in {"calling", "streaming"}, Lookup(r, next),
         next = "streaming" => kind[r] \notin Speech \cup Files
  PROVE  Good(r)' /\ Alone(r)
BY LookupFailsGood, ChosenGood DEF Lookup

LEMMA SelectFallbackGood ==
  ASSUME Calm, NEW r \in Requests, Good(r), SelectFallback(r)
  PROVE  Good(r)' /\ Alone(r)
BY ChosenGood DEF SelectFallback

LEMMA FailsOverGood ==
  ASSUME Calm, NEW r \in Requests, Good(r), FailsOver(r)
  PROVE  Good(r)' /\ Alone(r)
<1>1. key[r] \in Keys \cup {NoKey}
  BY DEF Calm, RequestsTypeOK
<1>2. Succeeded' = Succeeded /\ Failed' = Failed \cup {<<r, key[r]>>}
  <2>1. Says(Failures(r), r, key[r], "error")
    <3>1. /\ Failures(r) \in Seq(Record) /\ Len(Failures(r)) = 2
          /\ \A i \in 1 .. 2 : /\ Failures(r)[i].what = r /\ Failures(r)[i].key = key[r]
                              /\ Failures(r)[i].status = "error"
          /\ Failures(r)[2].type = "endpoint"
      BY <1>1, FailureRecords
    <3>2. log' = log \o Failures(r)
      BY DEF FailsOver, RecordRequests
    <3>3. 2 \in 1 .. Len(Failures(r))
      BY <3>1
    <3> QED BY <3>1, <3>2, <3>3 DEF Says
  <2>2. log \in Seq(Record)
    BY DEF Calm
  <2>3. Known(r, key[r], "error")
    BY <2>1, <2>2, RecordsSay
  <2> QED BY <2>3 DEF Known
<1> QED BY <1>2 DEF FailsOver, Calm, RequestsTypeOK, Good, Told, Paid, Alone

LEMMA AnnouncesGood ==
  ASSUME Calm, NEW r \in Requests, Good(r), phase[r] = "new", kind[r] \in Speech,
         NEW k \in keys, Announces(r, k)
  PROVE  Good(r)' /\ Alone(r)
<1>1. k \in Keys \cup {NoKey}
  BY DEF Calm
<1>2. Succeeded' = Succeeded \cup {r} /\ Failed' = Failed
  BY <1>1, ReportSays DEF Announces, Calm
<1> QED BY <1>2 DEF Announces, Chosen, Calm, RequestsTypeOK, Good, Told, Paid, Alone, Speech, Files

LEMMA SpeechStreamEndsGood ==
  ASSUME Calm, NEW r \in Requests, Good(r), kind[r] \in Speech, SpeechStreamEnds(r)
  PROVE  Good(r)' /\ Alone(r)
<1>1. Succeeded' = Succeeded /\ Failed' = Failed
  BY SilentSays DEF SpeechStreamEnds, Unreported, bufferVars
<1> QED BY <1>1 DEF SpeechStreamEnds, Ends, Calm, RequestsTypeOK, Good, Told, Paid, Alone, Speech, Files

LEMMA CreateEmbeddingsGood ==
  ASSUME Calm, NEW r \in Requests, Good(r), CreateEmbeddings(r)
  PROVE  Good(r)' /\ Alone(r)
<1>1. kind[r] \notin Speech \cup Files
  BY DEF CreateEmbeddings, Speech, Files
<1>2. CASE Embed(r)
  BY <1>1, <1>2, ChosenGood DEF Embed
<1>3. CASE Unhandled(r)
  BY <1>3, UnhandledGood
<1>4. CASE /\ phase[r] \in {"new", "calling"}
           /\ \E fits \in BOOLEAN : Report(r, NoKey, "error", fits)
           /\ Ends(r, 503)
  <2>1. PICK fits \in BOOLEAN : Report(r, NoKey, "error", fits)
    BY <1>4
  <2> QED BY <1>4, <2>1, EndsReportedGood
<1>5. CASE /\ phase[r] = "calling"
           /\ Report(r, NoKey, "success", TRUE)
           /\ answered' = [answered EXCEPT ![r] = TRUE]
           /\ phase' = [phase EXCEPT ![r] = "done"]
           /\ reply' = [reply EXCEPT ![r] = 200]
           /\ UNCHANGED <<kind, key, tried, hungUp, usage>>
  <2>1. Succeeded' = Succeeded \cup {r} /\ Failed' = Failed
    BY <1>5, ReportSays DEF Calm
  <2> QED BY <1>1, <1>5, <2>1 DEF Calm, RequestsTypeOK, Good, Told, Paid, Alone
<1> QED BY <1>2, <1>3, <1>4, <1>5 DEF CreateEmbeddings

LEMMA EndpointGood ==
  ASSUME Calm, NEW r \in Requests, Good(r), Endpoint(r)
  PROVE  Good(r)' /\ Alone(r)
<1>1. CASE DirectChat(r)
  <2>1. kind[r] \notin Speech \cup Files
    BY <1>1 DEF DirectChat, Speech, Files
  <2> QED BY <1>1, <2>1, LookupGood, SucceedsGood, UnhandledGood DEF DirectChat
<1>2. CASE DirectChatStream(r)
  <2>1. kind[r] \notin Speech \cup Files
    BY <1>2 DEF DirectChatStream, Speech, Files
  <2>2. CASE Unreported /\ Ends(r, 200) /\ phase[r] = "streaming"
    <3>1. Succeeded' = Succeeded /\ Failed' = Failed
      BY <2>2, SilentSays DEF Unreported, bufferVars
    <3> QED BY <2>1, <2>2, <3>1 DEF Ends, Calm, RequestsTypeOK, Good, Told, Paid, Alone
  <2>3. CASE Lookup(r, "streaming")
    BY <2>1, <2>3, LookupGood
  <2>4. CASE Unhandled(r)
    BY <2>4, UnhandledGood
  <2> QED BY <1>2, <2>2, <2>3, <2>4 DEF DirectChatStream
<1>3. CASE DirectImage(r)
  <2>1. kind[r] \notin Speech
    BY <1>3 DEF DirectImage, Speech
  <2>2. CASE phase[r] = "calling" /\ Report(r, key[r], "error", TRUE) /\ Ends(r, 502)
    <3>1. key[r] \in Keys \cup {NoKey}
      BY DEF Calm, RequestsTypeOK
    <3>2. Succeeded' = Succeeded /\ Failed' = Failed \cup {<<r, key[r]>>}
      BY <2>2, <3>1, ReportSays DEF Calm
    <3> QED BY <2>2, <3>2 DEF Ends, Calm, RequestsTypeOK, Good, Told, Paid, Alone
  <2>3. CASE Lookup(r, "calling")
    BY <2>3, LookupGood
  <2>4. CASE Succeeds(r, 0)
    BY <2>1, <2>4, SucceedsGood
  <2>5. CASE Unhandled(r)
    BY <2>5, UnhandledGood
  <2> QED BY <1>3, <2>2, <2>3, <2>4, <2>5 DEF DirectImage
<1>4. CASE DirectTranscription(r)
  <2>1. kind[r] \notin Speech
    BY <1>4 DEF DirectTranscription, Speech
  <2> QED BY <1>4, <2>1, LookupGood, SucceedsGood, UnhandledGood DEF DirectTranscription
<1>5. CASE DirectSpeech(r)
  <2>1. kind[r] \in Speech
    BY <1>5 DEF DirectSpeech, Speech
  <2> QED BY <1>5, <2>1, LookupFailsGood, UnhandledGood, AnnouncesGood, SpeechStreamEndsGood
          DEF DirectSpeech
<1>6. CASE AutoImage(r)
  <2>1. kind[r] \notin Speech
    BY <1>6 DEF AutoImage, Speech
  <2> QED BY <1>6, <2>1, NoCandidateGood, SelectFallbackGood, FailsOverGood, SucceedsGood, UnhandledGood
          DEF AutoImage
<1>7. CASE AutoTranscription(r)
  <2>1. kind[r] \notin Speech
    BY <1>7 DEF AutoTranscription, Speech
  <2> QED BY <1>7, <2>1, NoCandidateGood, SelectFallbackGood, FailsOverGood, SucceedsGood, UnhandledGood
          DEF AutoTranscription
<1>8. CASE AutoSpeech(r)
  <2>1. kind[r] \in Speech
    BY <1>8 DEF AutoSpeech, Speech
  <2> QED BY <1>8, <2>1, NoCandidateGood, UnhandledGood, AnnouncesGood, SpeechStreamEndsGood
          DEF AutoSpeech
<1>9. CASE CreateEmbeddings(r)
  BY <1>9, CreateEmbeddingsGood
<1>10. CASE Commits(r)
  BY <1>10, CommitsGood
<1> QED BY <1>1, <1>2, <1>3, <1>4, <1>5, <1>6, <1>7, <1>8, <1>9, <1>10 DEF Endpoint

\* What happens to one request leaves the others good.
LEMMA AloneKeepsOthers ==
  ASSUME NEW r \in Requests, NEW q \in Requests \ {r}, Alone(r), Good(q)
  PROVE  Good(q)'
BY DEF Alone, Good, Told, Paid

LEMMA ShutdownGood ==
  ASSUME Calm, NEW q \in Requests, Shutdown, Good(q)
  PROVE  Good(q)' /\ Succeeded' = Succeeded
<1>1. Succeeded' = Succeeded /\ Failed' = Failed
  BY SilentSays DEF Shutdown, Stops
<1> QED BY <1>1 DEF Shutdown, Calm, RequestsTypeOK, Good, Told, Paid

LEMMA GoodInit == Init => GoodInv
<1> SUFFICES ASSUME Init PROVE GoodInv
  OBVIOUS
<1>1. Succeeded = {} /\ Failed = {}
  BY DEF Init, BufferInit, Succeeded, Failed
<1>2. ASSUME NEW r \in Requests PROVE Good(r)
  BY <1>1 DEF Init, Good, Told, Paid
<1> QED BY <1>1, <1>2, InitInv DEF GoodInv

LEMMA GoodNext == GoodInv /\ [Next]_vars => GoodInv'
<1> SUFFICES ASSUME GoodInv, [Next]_vars PROVE GoodInv'
  OBVIOUS
<1>1. Calm
  BY DEF GoodInv, Inv, BufferInv, RecordsTypeOK, Calm
<1>2. Inv'
  BY NextInv DEF GoodInv
<1>3. ASSUME NEW r \in Requests, Endpoint(r) PROVE GoodInv'
  <2>1. Good(r)' /\ Alone(r)
    BY <1>1, <1>3, EndpointGood DEF GoodInv
  <2>2. ASSUME NEW q \in Requests PROVE Good(q)'
    BY <2>1, AloneKeepsOthers DEF GoodInv
  <2> QED BY <1>2, <2>1, <2>2 DEF GoodInv, Alone
<1>4. CASE Shutdown
  <2>1. Succeeded' = Succeeded
    BY <1>4, SilentSays DEF Shutdown, Stops
  <2>2. ASSUME NEW q \in Requests PROVE Good(q)'
    BY <1>1, <1>4, ShutdownGood DEF GoodInv
  <2> QED BY <1>2, <2>1, <2>2 DEF GoodInv
<1>5. CASE (BufferStep /\ UNCHANGED requestVars) \/ UNCHANGED vars
  <2>1. log' = log /\ UNCHANGED requestVars
    BY <1>5 DEF vars, bufferVars, BufferStep, TakeItem, TakeTimesOut, FlushCommits, FlushFails, Cleared,
         Starts, AggregateHourly, CleanupOldRequests, Tick, DeleteKey
  <2>2. Succeeded' = Succeeded /\ Failed' = Failed
    BY <2>1, SilentSays
  <2>3. ASSUME NEW q \in Requests PROVE Good(q)'
    BY <2>1, <2>2 DEF GoodInv, Good, Told, Paid, requestVars
  <2> QED BY <1>2, <2>2, <2>3 DEF GoodInv
<1> QED BY <1>3, <1>4, <1>5 DEF Next

LEMMA AlwaysGood == Spec => []GoodInv
BY GoodInit, GoodNext, PTL DEF Spec

\* A success in the log means that the provider answered, except for speech,
\* whose success is reported before the provider is called.
THEOREM SuccessMeansAnsweredAlways == Spec => []SuccessMeansAnswered
<1>1. GoodInv => SuccessMeansAnswered
  <2> SUFFICES ASSUME GoodInv, NEW i \in 1 .. Len(log), log[i].status = "success"
               PROVE  answered[log[i].what] \/ kind[log[i].what] \in {"speech", "speech-auto"}
    BY DEF SuccessMeansAnswered
  <2>1. log[i].what \in Succeeded
    BY DEF Succeeded
  <2> QED BY <2>1 DEF GoodInv, Good, Told, Speech
<1> QED BY <1>1, AlwaysGood, PTL

\* Rate-limit usage is committed only for a request whose success was reported and whose
\* provider answered, or whose client hung up on a stream of speech, and files are answered only after that commit.
THEOREM UsageExactAlways == Spec => []UsageExact
<1>1. GoodInv => UsageExact
  <2> SUFFICES ASSUME GoodInv, NEW r \in Requests
               PROVE  /\ usage[r] = "committed" =>
                           /\ answered[r] \/ (hungUp[r] /\ kind[r] \in Speech)
                           /\ \E i \in 1 .. Len(log) : log[i].what = r /\ log[i].status = "success"
                      /\ reply[r] = 200 /\ kind[r] \in Files => usage[r] = "committed"
    BY DEF UsageExact, Files, Speech
  <2>1. Good(r)
    BY DEF GoodInv
  <2>2. r \in Succeeded => \E i \in 1 .. Len(log) : log[i].what = r /\ log[i].status = "success"
    BY DEF Succeeded
  <2> QED BY <2>1, <2>2 DEF Good, Paid
<1> QED BY <1>1, AlwaysGood, PTL

TriedInv == \A r \in Requests : \E at : Traces(at, r)

\* The log only grows, so what was traced stays so, if no other failure of the request
\* is put behind it.
LEMMA TraceStays ==
  ASSUME log \in Seq(Record), NEW r \in Requests, NEW at, Traces(at, r), tried'[r] = tried[r],
         NEW S, NEW records \in Seq(S), log' = log \o records,
         \A i \in 1 .. Len(records) : records[i].what # r \/ records[i].type # "rate_limit"
  PROVE  Traces(at, r)'
<1> DEFINE L == Len(log)  M == Len(records)  N == Len(tried[r])
<1>1. /\ L \in Nat /\ M \in Nat /\ Len(log') = L + M
      /\ \A i \in 1 .. L : log'[i] = log[i]
      /\ \A i \in 1 .. M : log'[L + i] = records[i]
  BY LogGrows
<1>2. /\ at \in [1 .. N -> 1 .. (L - 1)]
      /\ \A m, n \in 1 .. N : m < n => at[m] < at[n]
      /\ \A n \in 1 .. N : /\ Error(at[n], r, "rate_limit", tried[r][n])
                           /\ Error(at[n] + 1, r, "endpoint", tried[r][n])
      /\ \A i \in 1 .. L :
           log[i].what = r /\ log[i].type = "rate_limit" => \E n \in 1 .. N : at[n] = i
  BY DEF Traces
<1>3. N = Len(tried'[r])
  OBVIOUS
<1> HIDE DEF L, M, N
<1>4. ASSUME NEW n \in 1 .. N
      PROVE  at[n] \in 1 .. L /\ at[n] + 1 \in 1 .. L /\ at[n] \in 1 .. (L + M - 1)
  <2>1. at[n] \in 1 .. (L - 1)
    BY <1>2
  <2> QED BY <1>1, <2>1
<1>5. at \in [1 .. N -> 1 .. (L + M - 1)]
  BY <1>2, <1>4
<1>6. ASSUME NEW n \in 1 .. N
      PROVE  Error(at[n], r, "rate_limit", tried[r][n])' /\ Error(at[n] + 1, r, "endpoint", tried[r][n])'
  <2>1. log'[at[n]] = log[at[n]] /\ log'[at[n] + 1] = log[at[n] + 1]
    BY <1>1, <1>4
  <2>2. Error(at[n], r, "rate_limit", tried[r][n]) /\ Error(at[n] + 1, r, "endpoint", tried[r][n])
    BY <1>2
  <2> QED BY <2>1, <2>2 DEF Error
<1>7. ASSUME NEW i \in 1 .. L + M, log'[i].what = r, log'[i].type = "rate_limit"
      PROVE  \E n \in 1 .. N : at[n] = i
  <2>1. CASE i \in 1 .. L
    BY <1>1, <1>2, <1>7, <2>1
  <2>2. CASE i \notin 1 .. L
    <3>1. i - L \in 1 .. M /\ i = L + (i - L)
      BY <1>1, <2>2
    <3>2. log'[i] = records[i - L]
      BY <1>1, <3>1
    <3> QED BY <1>7, <3>1, <3>2 DEF M
  <2> QED BY <2>1, <2>2
<1> QED BY <1>1, <1>2, <1>3, <1>5, <1>6, <1>7 DEF Traces

\* Increasing positions, and one more behind them.
Rises(at, N, L) ==
  at \in [1 .. N -> 1 .. L] /\ \A m, n \in 1 .. N : m < n => at[m] < at[n]

LEMMA OneMore ==
  ASSUME NEW N \in Nat, NEW L \in Nat, NEW at, Rises(at, N, L)
  PROVE  \E new : /\ Rises(new, N + 1, L + 1)
                  /\ new[N + 1] = L + 1
                  /\ \A n \in 1 .. N : new[n] = at[n]
<1> DEFINE new == [n \in 1 .. N + 1 |-> IF n = N + 1 THEN L + 1 ELSE at[n]]
<1>1. new[N + 1] = L + 1 /\ \A n \in 1 .. N : new[n] = at[n]
  OBVIOUS
<1>2. \A n \in 1 .. N : at[n] \in 1 .. L
  BY DEF Rises
<1>3. new \in [1 .. N + 1 -> 1 .. L + 1]
  BY <1>2
<1>4. ASSUME NEW m \in 1 .. N + 1, NEW n \in 1 .. N + 1, m < n PROVE new[m] < new[n]
  <2>1. m \in 1 .. N
    BY <1>4
  <2>2. CASE n = N + 1
    BY <1>1, <1>2, <2>1, <2>2
  <2>3. CASE n \in 1 .. N
    BY <1>1, <1>4, <2>1, <2>3 DEF Rises
  <2> QED BY <2>2, <2>3
<1>5. Rises(new, N + 1, L + 1)
  BY <1>3, <1>4 DEF Rises
<1> HIDE DEF new
<1> QED BY <1>1, <1>5

\* A candidate that is given up is traced by the records just made.
LEMMA FailsOverTraced ==
  ASSUME Calm, NEW r \in Requests, FailsOver(r), NEW at, Traces(at, r)
  PROVE  \E new : Traces(new, r)'
<1> DEFINE L == Len(log)  N == Len(tried[r])
           NewError(i, type, k) == /\ log'[i].what = r /\ log'[i].status = "error"
                                   /\ log'[i].type = type /\ log'[i].key = k
<1>1. /\ L \in Nat /\ Len(log') = L + 2
      /\ \A i \in 1 .. L : log'[i] = log[i]
      /\ NewError(L + 1, "rate_limit", key[r]) /\ NewError(L + 2, "endpoint", key[r])
  <2>1. key[r] \in Keys \cup {NoKey}
    BY DEF Calm, RequestsTypeOK
  <2>2. PICK xs \in Seq(Record) :
          /\ log' = log \o xs /\ Len(xs) = 2
          /\ \A i \in 1 .. 2 : xs[i].what = r /\ xs[i].key = key[r] /\ xs[i].status = "error"
          /\ xs[1].type = "rate_limit" /\ xs[2].type = "endpoint"
    <3>1. log' = log \o Failures(r)
      BY DEF FailsOver, RecordRequests
    <3>2. /\ Failures(r) \in Seq(Record) /\ Len(Failures(r)) = 2
          /\ \A i \in 1 .. 2 : /\ Failures(r)[i].what = r /\ Failures(r)[i].key = key[r]
                              /\ Failures(r)[i].status = "error"
          /\ Failures(r)[1].type = "rate_limit" /\ Failures(r)[2].type = "endpoint"
      BY <2>1, FailureRecords
    <3> QED BY <3>1, <3>2
  <2>3. log \in Seq(Record)
    BY DEF Calm
  <2>4. /\ L \in Nat /\ Len(log') = L + 2
        /\ \A i \in 1 .. L : log'[i] = log[i]
        /\ \A i \in 1 .. 2 : log'[L + i] = xs[i]
    <3>1. /\ L \in Nat /\ Len(log') = L + Len(xs)
          /\ \A i \in 1 .. L : log'[i] = log[i]
          /\ \A i \in 1 .. Len(xs) : log'[L + i] = xs[i]
      BY <2>2, <2>3, LogGrows
    <3> QED BY <2>2, <3>1
  <2>5. log'[L + 1] = xs[1] /\ log'[L + 2] = xs[2]
    BY <2>4
  <2> QED BY <2>2, <2>4, <2>5
<1>2. /\ N \in Nat /\ Len(tried'[r]) = N + 1
      /\ tried'[r][N + 1] = key[r]
      /\ \A n \in 1 .. N : tried'[r][n] = tried[r][n]
  <2>1. tried'[r] = Append(tried[r], key[r]) /\ tried[r] \in Seq(Keys \cup {NoKey})
    BY DEF FailsOver, Calm, RequestsTypeOK
  <2> QED BY <2>1
<1>3. /\ at \in [1 .. N -> 1 .. (L - 1)]
      /\ \A m, n \in 1 .. N : m < n => at[m] < at[n]
      /\ \A n \in 1 .. N : /\ Error(at[n], r, "rate_limit", tried[r][n])
                           /\ Error(at[n] + 1, r, "endpoint", tried[r][n])
      /\ \A i \in 1 .. L :
           log[i].what = r /\ log[i].type = "rate_limit" => \E n \in 1 .. N : at[n] = i
  BY DEF Traces
<1> HIDE DEF L, N
<1>4. ASSUME NEW n \in 1 .. N PROVE at[n] \in 1 .. L /\ at[n] + 1 \in 1 .. L
  <2>1. at[n] \in 1 .. (L - 1)
    BY <1>3
  <2> QED BY <1>1, <2>1
<1>5. at \in [1 .. N -> 1 .. L]
  BY <1>3, <1>4
<1>6. PICK new \in [1 .. N + 1 -> 1 .. L + 1] :
        /\ \A m, n \in 1 .. N + 1 : m < n => new[m] < new[n]
        /\ new[N + 1] = L + 1
        /\ \A n \in 1 .. N : new[n] = at[n]
  <2>1. N \in Nat /\ L \in Nat /\ Rises(at, N, L)
    BY <1>1, <1>2, <1>3, <1>5 DEF Rises
  <2>2. PICK new : Rises(new, N + 1, L + 1) /\ new[N + 1] = L + 1 /\ \A n \in 1 .. N : new[n] = at[n]
    BY <2>1, OneMore
  <2> QED BY <2>2 DEF Rises
<1>7. ASSUME NEW n \in 1 .. N + 1
      PROVE  NewError(new[n], "rate_limit", tried'[r][n]) /\ NewError(new[n] + 1, "endpoint", tried'[r][n])
  <2>1. CASE n = N + 1
    <3>1. new[n] = L + 1 /\ new[n] + 1 = L + 2 /\ tried'[r][n] = key[r]
      BY <1>1, <1>2, <1>6, <2>1
    <3> QED BY <1>1, <3>1
  <2>2. CASE n \in 1 .. N
    <3>1. at[n] \in 1 .. L /\ at[n] + 1 \in 1 .. L /\ new[n] = at[n] /\ tried'[r][n] = tried[r][n]
      BY <1>2, <1>4, <1>6, <2>2
    <3> QED BY <1>1, <1>3, <2>2, <3>1 DEF Error
  <2>3. n \in 1 .. N \/ n = N + 1
    BY <1>2
  <2> QED BY <2>1, <2>2, <2>3
<1>8. ASSUME NEW i \in 1 .. L + 2, log'[i].what = r, log'[i].type = "rate_limit"
      PROVE  \E n \in 1 .. N + 1 : new[n] = i
  <2>1. CASE i \in 1 .. L
    <3>1. PICK n \in 1 .. N : at[n] = i
      BY <1>1, <1>3, <1>8, <2>1
    <3> QED BY <1>2, <1>6, <3>1
  <2>2. CASE i = L + 1
    BY <1>2, <1>6, <2>2
  <2>3. i # L + 2
    BY <1>1, <1>8
  <2> QED BY <1>1, <2>1, <2>2, <2>3
<1>9. 1 .. Len(tried'[r]) = 1 .. N + 1 /\ 1 .. (Len(log') - 1) = 1 .. L + 1 /\ 1 .. Len(log') = 1 .. L + 2
  BY <1>1, <1>2
<1>10. /\ new \in [1 .. Len(tried'[r]) -> 1 .. (Len(log') - 1)]
       /\ \A m, n \in 1 .. Len(tried'[r]) : m < n => new[m] < new[n]
       /\ \A n \in 1 .. Len(tried'[r]) :
            /\ NewError(new[n], "rate_limit", tried'[r][n])
            /\ NewError(new[n] + 1, "endpoint", tried'[r][n])
       /\ \A i \in 1 .. Len(log') :
            log'[i].what = r /\ log'[i].type = "rate_limit" => \E n \in 1 .. Len(tried'[r]) : new[n] = i
  BY <1>6, <1>7, <1>8, <1>9, Zenon
<1>11. Traces(new, r)'
  BY <1>10 DEF Traces, Error
<1> QED BY <1>11

\* Any other step of a request is silent or puts one record of type "endpoint".
Plain(r) ==
  log' = log \/ \E k, t, fits : log' = log \o <<RecordOf(r, "endpoint", k, t, fits)>>

\* Only a loop that gives a candidate up adds to what was tried.
LEMMA TriedStays ==
  ASSUME NEW r \in Requests, Endpoint(r), ~FailsOver(r)
  PROVE  tried' = tried /\ Plain(r)
<1>1. Unreported => Plain(r)
  BY DEF Unreported, bufferVars, Plain
<1>2. ASSUME NEW k, NEW t, NEW fits, Report(r, k, t, fits) PROVE Plain(r)
  BY <1>2 DEF Report, RecordRequests, Plain
<1>3. ASSUME NEW status, Ends(r, status) PROVE tried' = tried
  BY <1>3 DEF Ends
<1>4. ASSUME NEW status, Succeeds(r, status) PROVE tried' = tried /\ Plain(r)
  BY <1>2, <1>4, Zenon DEF Succeeds
<1>5. ASSUME LookupFails(r) PROVE tried' = tried /\ Plain(r)
  <2>1. PICK fits : Report(r, NoKey, "error", fits) /\ (Ends(r, 404) \/ Ends(r, 503))
    BY <1>5, Zenon DEF LookupFails
  <2> QED BY <1>2, <1>3, <2>1
<1>6. ASSUME NEW next, Lookup(r, next) PROVE tried' = tried /\ Plain(r)
  BY <1>1, <1>5, <1>6 DEF Lookup
<1>7. ASSUME NEW k, Announces(r, k) PROVE tried' = tried /\ Plain(r)
  <2>1. Report(r, k, "success", TRUE) /\ tried' = tried
    BY <1>7 DEF Announces
  <2> QED BY <1>2, <2>1
<1>8. NoCandidate(r) \/ Unhandled(r) => tried' = tried /\ Plain(r)
  <2>1. NoCandidate(r) => tried' = tried /\ Plain(r)
    BY <1>2, <1>3, Zenon DEF NoCandidate
  <2>2. Unhandled(r) => tried' = tried /\ Plain(r)
    BY <1>1, <1>3, Zenon DEF Unhandled
  <2> QED BY <2>1, <2>2
<1>9. SelectFallback(r) \/ SpeechStreamEnds(r) \/ Embed(r) => tried' = tried /\ Plain(r)
  BY <1>1, <1>3 DEF SelectFallback, SpeechStreamEnds, Embed
<1>10. CASE CreateEmbeddings(r)
  <2>1. \/ Embed(r) \/ Unhandled(r)
        \/ (\E k, t, fits : Report(r, k, t, fits)) /\ (Ends(r, 503) \/ tried' = tried)
    BY <1>10 DEF CreateEmbeddings
  <2> QED BY <1>2, <1>3, <1>8, <1>9, <2>1
<1>11. CASE Commits(r)
  <2>1. log' = log /\ (tried' = tried \/ \E status : Ends(r, status))
    BY <1>11 DEF Commits, Unreported, bufferVars
  <2> QED BY <1>3, <2>1 DEF Plain
<1>12. CASE DirectChat(r)
  BY <1>4, <1>6, <1>8, <1>12 DEF DirectChat
<1>13. CASE DirectChatStream(r)
  BY <1>1, <1>3, <1>6, <1>8, <1>13, Zenon DEF DirectChatStream
<1>14. CASE DirectImage(r)
  BY <1>2, <1>3, <1>4, <1>6, <1>8, <1>14, Zenon DEF DirectImage
<1>15. CASE DirectTranscription(r)
  BY <1>4, <1>6, <1>8, <1>15 DEF DirectTranscription
<1>16. CASE DirectSpeech(r)
  BY <1>5, <1>7, <1>8, <1>9, <1>16 DEF DirectSpeech
<1>17. CASE AutoImage(r)
  BY <1>4, <1>8, <1>9, <1>17 DEF AutoImage
<1>18. CASE AutoTranscription(r)
  BY <1>4, <1>8, <1>9, <1>18 DEF AutoTranscription
<1>19. CASE AutoSpeech(r)
  BY <1>7, <1>8, <1>9, <1>19 DEF AutoSpeech
<1> QED BY <1>10, <1>11, <1>12, <1>13, <1>14, <1>15, <1>16, <1>17, <1>18, <1>19 DEF Endpoint

\* A request that does not fail over goes on to be traced, as all the others do.
LEMMA StillTraced ==
  ASSUME Calm, NEW r \in Requests, Endpoint(r), NEW q \in Requests, NEW at, Traces(at, q),
         ~FailsOver(r) \/ q # r
  PROVE  Traces(at, q)'
<1>0. log \in Seq(Record) /\ tried \in [Requests -> Seq(Keys \cup {NoKey})]
  BY DEF Calm, RequestsTypeOK
<1>1. CASE FailsOver(r)
  <2>1. key[r] \in Keys \cup {NoKey} /\ q # r
    BY <1>1 DEF Calm, RequestsTypeOK
  <2>2. /\ Failures(r) \in Seq(Record) /\ log' = log \o Failures(r)
        /\ \A i \in 1 .. Len(Failures(r)) : Failures(r)[i].what # q
    BY <1>1, <2>1, FailureRecords DEF FailsOver, RecordRequests
  <2>3. tried'[q] = tried[q]
    BY <1>0, <1>1, <2>1 DEF FailsOver
  <2> QED BY <1>0, <2>2, <2>3, TraceStays
<1>2. CASE ~FailsOver(r)
  <2>1. tried' = tried /\ Plain(r)
    BY <1>2, TriedStays
  <2>2. CASE log' = log
    BY <2>1, <2>2 DEF Traces, Error
  <2>3. ASSUME NEW k, NEW t, NEW fits, log' = log \o <<RecordOf(r, "endpoint", k, t, fits)>>
        PROVE  Traces(at, q)'
    <3> DEFINE x == RecordOf(r, "endpoint", k, t, fits)
    <3>1. x.type = "endpoint" /\ log' = log \o <<x>>
      BY <2>3 DEF RecordOf
    <3> HIDE DEF x
    <3>2. <<x>> \in Seq({x}) /\ \A i \in 1 .. Len(<<x>>) : <<x>>[i].type # "rate_limit"
      BY <3>1
    <3> QED BY <1>0, <2>1, <3>1, <3>2, TraceStays
  <2> QED BY <2>1, <2>2, <2>3 DEF Plain
<1> QED BY <1>1, <1>2

LEMMA TriedNext == Inv /\ TriedInv /\ [Next]_vars => TriedInv'
<1> SUFFICES ASSUME Inv, TriedInv, [Next]_vars, NEW q \in Requests PROVE \E at : Traces(at, q)'
  BY DEF TriedInv
<1>1. PICK at : Traces(at, q)
  BY DEF TriedInv
<1>2. Calm
  BY DEF Inv, BufferInv, RecordsTypeOK, Calm
<1>3. ASSUME NEW r \in Requests, Endpoint(r) PROVE \E new : Traces(new, q)'
  <2>1. CASE FailsOver(r) /\ q = r
    BY <1>1, <1>2, <2>1, FailsOverTraced
  <2>2. CASE ~(FailsOver(r) /\ q = r)
    BY <1>1, <1>2, <1>3, <2>2, StillTraced
  <2> QED BY <2>1, <2>2
<1>4. CASE Shutdown \/ (BufferStep /\ UNCHANGED requestVars) \/ UNCHANGED vars
  <2>1. log' = log /\ tried' = tried
    BY <1>4 DEF Shutdown, Stops, vars, requestVars, bufferVars, BufferStep, TakeItem, TakeTimesOut, FlushCommits,
         FlushFails, Cleared, Starts, AggregateHourly, CleanupOldRequests, Tick, DeleteKey
  <2>2. Traces(at, q)'
    BY <1>1, <2>1 DEF Traces, Error
  <2> QED BY <2>2
<1> QED BY <1>3, <1>4 DEF Next

LEMMA TriedInit == Init => TriedInv
<1> SUFFICES ASSUME Init, NEW r \in Requests PROVE Traces(<<>>, r)
  BY DEF TriedInv
<1>1. tried[r] = <<>> /\ Len(tried[r]) = 0 /\ log = <<>> /\ Len(log) = 0
  BY DEF Init, BufferInit
<1> QED BY <1>1 DEF Traces

\* Every error reply other than 500 was reported.  Every call that a retry loop gave up
\* on stands in the log twice, as "rate_limit" and right behind as the endpoint's own,
\* in the order of the calls and no more often.
THEOREM ErrorsReportedAlways == Spec => []ErrorsReported
<1>1. GoodInv /\ TriedInv => ErrorsReported
  <2> SUFFICES ASSUME GoodInv, TriedInv PROVE ErrorsReported
    OBVIOUS
  <2>1. ASSUME NEW r \in Requests
        PROVE  /\ reply[r] \in {404, 429, 503} => \E i \in 1 .. Len(log) : Error(i, r, "endpoint", NoKey)
               /\ reply[r] = 502 => \E i \in 1 .. Len(log) : Error(i, r, "endpoint", key[r])
               /\ \E at \in [1 .. Len(tried[r]) -> 1 .. (Len(log) - 1)] : Traces(at, r)
    <3>1. ASSUME NEW k, <<r, k>> \in Failed
          PROVE  \E i \in 1 .. Len(log) : Error(i, r, "endpoint", k)
      BY <3>1 DEF Failed, Error
    <3>2. Told(r)
      BY DEF GoodInv, Good
    <3>3. \E at : Traces(at, r)
      BY DEF TriedInv
    <3>4. /\ reply[r] \in {404, 429, 503} => <<r, NoKey>> \in Failed
          /\ reply[r] = 502 => <<r, key[r]>> \in Failed
      BY <3>2 DEF Told
    <3>5. \E at \in [1 .. Len(tried[r]) -> 1 .. (Len(log) - 1)] : Traces(at, r)
      BY <3>3 DEF Traces
    <3>6. reply[r] \in {404, 429, 503} => \E i \in 1 .. Len(log) : Error(i, r, "endpoint", NoKey)
      BY <3>1, <3>4, Zenon
    <3>7. reply[r] = 502 => \E i \in 1 .. Len(log) : Error(i, r, "endpoint", key[r])
      <4> DEFINE k == key[r]
      <4>1. <<r, k>> \in Failed => \E i \in 1 .. Len(log) : Error(i, r, "endpoint", k)
        <5> HIDE DEF k
        <5> QED BY <3>1
      <4> QED BY <3>4, <4>1
    <3> QED BY <3>5, <3>6, <3>7, Zenon
  <2> QED BY <2>1, Zenon DEF ErrorsReported
<1> QED BY <1>1, AlwaysGood, AlwaysInv, TriedInit, TriedNext, PTL DEF Spec

-----------------------------------------------------------------------------
(* Sums: what MapThenSumSet computes.  The induction theorems of the library *)
(* take an operator as a parameter; these take a set.                        *)

\* Induction on a set of naturals.
LEMMA AllNaturals ==
  ASSUME NEW P, 0 \in P, \A n \in Nat : n \in P => n + 1 \in P
  PROVE  Nat \subseteq P
<1> SUFFICES ASSUME Nat \ P # {} PROVE FALSE
  OBVIOUS
<1>1. \E n \in Nat \ P : \A m \in Nat \ P : ~(<<m, n>> \in OpToRel(<, Nat))
  <2>1. Nat \ P \subseteq Nat
    OBVIOUS
  <2> QED BY <2>1, NatLessThanWellFounded, WFMin
<1>2. PICK n \in Nat \ P : \A m \in Nat \ P : ~(m < n)
  BY <1>1 DEF OpToRel
<1>3. n \in Nat /\ n # 0 /\ n \notin P
  OBVIOUS
<1>4. n - 1 \in Nat /\ n - 1 < n /\ (n - 1) + 1 = n
  BY <1>3
<1>5. n - 1 \in P
  BY <1>2, <1>4
<1> QED BY <1>3, <1>4, <1>5

\* A sum over the subsets of a finite set, as MapThenSumSet computes it.
Sums(g, f, S) ==
  g = [s \in SUBSET S |->
         IF s = {} THEN 0
         ELSE LET x == CHOOSE x \in s : TRUE IN f[x] + g[s \ {x}]]

\* A finite set has such a sum: built for sets of one more element at a time.
LEMMA SumsExist ==
  ASSUME NEW S, IsFiniteSet(S), NEW f
  PROVE  \E g : Sums(g, f, S)
<1> DEFINE Upto(n) == {s \in SUBSET S : Cardinality(s) <= n}
           Body(g, s) == IF s = {} THEN 0
                         ELSE LET x == CHOOSE x \in s : TRUE IN f[x] + g[s \ {x}]
           P == {n \in Nat : \E g : \A s \in Upto(n) : g[s] = Body(g, s)}
<1>1. ASSUME NEW s \in SUBSET S
      PROVE  /\ Cardinality(s) \in Nat
             /\ Cardinality(s) = 0 <=> s = {}
             /\ \A x \in s : Cardinality(s \ {x}) = Cardinality(s) - 1
  <2>1. IsFiniteSet(s)
    BY FS_Subset
  <2> QED BY <2>1, FS_CardinalityType, FS_EmptySet, FS_RemoveElement
<1>2. 0 \in P
  <2>1. \A s \in Upto(0) : [z \in SUBSET S |-> 0][s] = Body([z \in SUBSET S |-> 0], s)
    BY <1>1
  <2> QED BY <2>1
<1>3. ASSUME NEW n \in Nat, n \in P PROVE n + 1 \in P
  <2>1. PICK g : \A s \in Upto(n) : g[s] = Body(g, s)
    BY <1>3
  <2> DEFINE h == [s \in SUBSET S |-> IF Cardinality(s) <= n THEN g[s] ELSE Body(g, s)]
  <2>2. ASSUME NEW s \in Upto(n + 1) PROVE h[s] = Body(g, s)
    BY <2>1
  <2>3. ASSUME NEW s \in Upto(n + 1), NEW x \in s PROVE h[s \ {x}] = g[s \ {x}]
    <3>1. s \ {x} \in SUBSET S /\ Cardinality(s \ {x}) = Cardinality(s) - 1
      BY <1>1
    <3> QED BY <1>1, <3>1
  <2>4. ASSUME NEW s \in Upto(n + 1) PROVE Body(h, s) = Body(g, s)
    <3>1. CASE s = {}
      BY <3>1
    <3>2. CASE s # {}
      <4>1. (CHOOSE x \in s : TRUE) \in s
        BY <3>2
      <4>2. h[s \ {CHOOSE x \in s : TRUE}] = g[s \ {CHOOSE x \in s : TRUE}]
        BY <2>3, <4>1
      <4> HIDE DEF h
      <4> QED BY <3>2, <4>2
    <3> QED BY <3>1, <3>2
  <2>5. \A s \in Upto(n + 1) : h[s] = Body(h, s)
    BY <2>2, <2>4
  <2> HIDE DEF h, Body, Upto
  <2> QED BY <2>5
<1>4. Cardinality(S) \in P
  <2> HIDE DEF P
  <2> QED BY <1>1, <1>2, <1>3, AllNaturals
<1>5. PICK g : \A s \in Upto(Cardinality(S)) : g[s] = Body(g, s)
  BY <1>4
<1>6. ASSUME NEW s \in SUBSET S PROVE s \in Upto(Cardinality(S))
  BY FS_Subset
<1> DEFINE h == [s \in SUBSET S |-> g[s]]
<1>7. \A s \in SUBSET S : h[s] = Body(h, s)
  BY <1>5, <1>6
<1>8. h = [s \in SUBSET S |-> Body(h, s)]
  <2> HIDE DEF Body
  <2> QED BY <1>7
<1> QED BY <1>8 DEF Sums

\* Induction on the subsets of a finite set, in the order in which a sum takes
\* its terms.
First(s) == CHOOSE x \in s : TRUE

LEMMA AllSubsets ==
  ASSUME NEW S, IsFiniteSet(S), NEW P, {} \in P,
         \A s \in SUBSET S : s # {} /\ s \ {First(s)} \in P => s \in P
  PROVE  SUBSET S \subseteq P
<1> DEFINE N == {n \in Nat : \A s \in SUBSET S : Cardinality(s) = n => s \in P}
<1>1. ASSUME NEW s \in SUBSET S
      PROVE  /\ Cardinality(s) \in Nat
             /\ Cardinality(s) = 0 <=> s = {}
             /\ \A x \in s : Cardinality(s \ {x}) = Cardinality(s) - 1
  <2>1. IsFiniteSet(s)
    BY FS_Subset
  <2> QED BY <2>1, FS_CardinalityType, FS_EmptySet, FS_RemoveElement
<1>2. 0 \in N
  BY <1>1
<1>3. ASSUME NEW n \in Nat, n \in N PROVE n + 1 \in N
  <2> SUFFICES ASSUME NEW s \in SUBSET S, Cardinality(s) = n + 1 PROVE s \in P
    OBVIOUS
  <2>1. s # {}
    BY <1>1
  <2>2. First(s) \in s
    BY <2>1 DEF First
  <2>3. s \ {First(s)} \in SUBSET S /\ Cardinality(s \ {First(s)}) = n
    BY <1>1, <2>2
  <2>4. s \ {First(s)} \in P
    BY <1>3, <2>3
  <2> QED BY <2>1, <2>4
<1>4. Nat \subseteq N
  <2> HIDE DEF N
  <2> QED BY <1>2, <1>3, AllNaturals
<1> QED BY <1>1, <1>4

\* One step of a sum.
LEMMA SumStep ==
  ASSUME NEW S, NEW f, NEW g, Sums(g, f, S), NEW s \in SUBSET S
  PROVE  /\ s = {} => g[s] = 0
         /\ s # {} => First(s) \in s /\ g[s] = f[First(s)] + g[s \ {First(s)}]
<1>1. g[s] = IF s = {} THEN 0
             ELSE LET x == CHOOSE x \in s : TRUE IN f[x] + g[s \ {x}]
  BY DEF Sums
<1> QED BY <1>1 DEF First

LEMMA SumOfNone ==
  ASSUME NEW S, NEW f, NEW g, Sums(g, f, S)
  PROVE  g[{}] = 0
<1>1. {} \in SUBSET S
  OBVIOUS
<1> QED BY <1>1, SumStep

\* The sum of term-wise sums is the sum of the sums.
LEMMA SumOfTwo ==
  ASSUME NEW S, IsFiniteSet(S), NEW e \in [S -> Nat], NEW f \in [S -> Nat], NEW both,
         \A x \in S : both[x] = e[x] + f[x],
         NEW ge, Sums(ge, e, S), NEW gf, Sums(gf, f, S), NEW g, Sums(g, both, S)
  PROVE  ge[S] \in Nat /\ gf[S] \in Nat /\ g[S] = ge[S] + gf[S]
<1> DEFINE P == {s \in SUBSET S : ge[s] \in Nat /\ gf[s] \in Nat /\ g[s] = ge[s] + gf[s]}
<1>1. {} \in P
  <2>1. ge[{}] = 0
    BY SumOfNone
  <2>2. gf[{}] = 0
    BY SumOfNone
  <2>3. g[{}] = 0
    BY SumOfNone
  <2> QED BY <2>1, <2>2, <2>3
<1>2. ASSUME NEW s \in SUBSET S, s # {}, s \ {First(s)} \in P PROVE s \in P
  <2>1. First(s) \in s /\ ge[s] = e[First(s)] + ge[s \ {First(s)}]
    BY <1>2, SumStep
  <2>2. gf[s] = f[First(s)] + gf[s \ {First(s)}]
    BY <1>2, SumStep
  <2>3. g[s] = both[First(s)] + g[s \ {First(s)}]
    BY <1>2, SumStep
  <2>4. /\ e[First(s)] \in Nat /\ f[First(s)] \in Nat
        /\ both[First(s)] = e[First(s)] + f[First(s)]
    BY <2>1
  <2>5. /\ ge[s \ {First(s)}] \in Nat /\ gf[s \ {First(s)}] \in Nat
        /\ g[s \ {First(s)}] = ge[s \ {First(s)}] + gf[s \ {First(s)}]
    BY <1>2
  <2>6. ge[s] \in Nat /\ gf[s] \in Nat /\ g[s] = ge[s] + gf[s]
    BY <2>1, <2>2, <2>3, <2>4, <2>5
  <2> QED BY <2>6
<1>3. SUBSET S \subseteq P
  <2> HIDE DEF P
  <2> QED BY <1>1, <1>2, AllSubsets
<1> QED BY <1>3

\* A sum of parts of a finite set T, split by the values of `of`.
Part(T, of, s) == {i \in T : of[i] \in s}

\* The part of a set of values, and of one of them and the others.
LEMMA PartGrows ==
  ASSUME NEW T, IsFiniteSet(T), NEW of, NEW s, NEW x \in s
  PROVE  /\ Cardinality(Part(T, of, s)) \in Nat
         /\ Cardinality(Part(T, of, s)) = Cardinality(Part(T, of, {x})) + Cardinality(Part(T, of, s \ {x}))
         /\ Cardinality(Part(T, of, {x})) \in Nat /\ Cardinality(Part(T, of, s \ {x})) \in Nat
<1>1. /\ IsFiniteSet(Part(T, of, s)) /\ IsFiniteSet(Part(T, of, {x}))
      /\ IsFiniteSet(Part(T, of, s \ {x}))
  BY FS_Subset DEF Part
<1>2. /\ Part(T, of, s) = Part(T, of, {x}) \cup Part(T, of, s \ {x})
      /\ Part(T, of, {x}) \cap Part(T, of, s \ {x}) = {}
  BY DEF Part
<1>3. Cardinality(Part(T, of, {x}) \cap Part(T, of, s \ {x})) = 0
  BY <1>2, FS_EmptySet
<1>4. Cardinality(Part(T, of, s)) = Cardinality(Part(T, of, {x})) + Cardinality(Part(T, of, s \ {x})) - 0
  BY <1>1, <1>2, <1>3, FS_Union
<1> QED BY <1>1, <1>4, FS_CardinalityType

\* Terms bounded by parts of two sets have a sum bounded by the two sets.
LEMMA SumOfParts ==
  ASSUME NEW S, IsFiniteSet(S), NEW f \in [S -> Nat], NEW g, Sums(g, f, S),
         NEW T, IsFiniteSet(T), NEW U, IsFiniteSet(U), NEW of,
         \A x \in S : f[x] <= Cardinality(Part(T, of, {x})) + Cardinality(Part(U, of, {x}))
  PROVE  g[S] \in Nat /\ g[S] <= Cardinality(T) + Cardinality(U)
<1> DEFINE P == {s \in SUBSET S : /\ g[s] \in Nat
                                  /\ g[s] <= Cardinality(Part(T, of, s)) + Cardinality(Part(U, of, s))}
<1>1. {} \in P
  <2>1. Part(T, of, {}) = {} /\ Part(U, of, {}) = {}
    BY DEF Part
  <2>2. {} \in SUBSET S
    OBVIOUS
  <2>3. g[{}] = 0
    BY SumOfNone
  <2>4. Cardinality(Part(T, of, {})) = 0 /\ Cardinality(Part(U, of, {})) = 0
    BY <2>1, FS_EmptySet
  <2> QED BY <2>2, <2>3, <2>4
<1>2. ASSUME NEW s \in SUBSET S, s # {}, s \ {First(s)} \in P PROVE s \in P
  <2>1. First(s) \in s /\ g[s] = f[First(s)] + g[s \ {First(s)}]
    BY <1>2, SumStep
  <2>2. f[First(s)] \in Nat /\ g[s \ {First(s)}] \in Nat
    BY <1>2, <2>1
  <2>3. s \ {First(s)} \in P /\ s \in SUBSET S /\ First(s) \in S
    BY <1>2, <2>1
  <2>4. f[First(s)] <= Cardinality(Part(T, of, {First(s)})) + Cardinality(Part(U, of, {First(s)}))
    BY <2>3
  <2>5. ASSUME NEW V, IsFiniteSet(V)
        PROVE  /\ Cardinality(Part(V, of, s)) \in Nat
               /\ Cardinality(Part(V, of, s)) =
                    Cardinality(Part(V, of, {First(s)})) + Cardinality(Part(V, of, s \ {First(s)}))
               /\ Cardinality(Part(V, of, {First(s)})) \in Nat
               /\ Cardinality(Part(V, of, s \ {First(s)})) \in Nat
    BY <2>1, <2>5, PartGrows
  <2> QED BY <2>1, <2>2, <2>3, <2>4, <2>5
<1>3. SUBSET S \subseteq P
  <2> HIDE DEF P
  <2> QED BY <1>1, <1>2, AllSubsets
<1>4. Cardinality(Part(T, of, S)) <= Cardinality(T) /\ Cardinality(Part(U, of, S)) <= Cardinality(U)
  BY FS_Subset DEF Part
<1>5. /\ Cardinality(Part(T, of, S)) \in Nat /\ Cardinality(T) \in Nat
      /\ Cardinality(Part(U, of, S)) \in Nat /\ Cardinality(U) \in Nat
  BY FS_Subset, FS_CardinalityType DEF Part
<1> QED BY <1>3, <1>4, <1>5

-----------------------------------------------------------------------------
(* Every row is counted once, or twice at the edge of an hour *)

\* A time is so many hours and the ticks of an unfinished one.
LEMMA HourTimes ==
  ASSUME NEW t \in Nat
  PROVE  /\ HourOf(t) \in Nat /\ t = Hour * HourOf(t) + (t % Hour)
         /\ t % Hour \in 0 .. Hour - 1
BY BufferAssumption DEF HourOf

LEMMA HourSteps ==
  ASSUME NEW a \in Nat, NEW b \in Nat, a < b
  PROVE  /\ Hour * a \in Nat /\ Hour * b \in Nat /\ Hour * a + Hour <= Hour * b
BY BufferAssumption

\* The rows of an hour, and those of its first tick.
InHour(h)  == {i \in DOMAIN born : HourOf(born[i]) = h}
AtStart(h) == {i \in DOMAIN born : born[i] = Hour * h}

\* The run at the hour h sees the rows of the first tick of h and those of the
\* hour before.
Seen(h) == (IF h + 1 \in ran THEN Cardinality(InHour(h)) ELSE 0)
         + (IF h \in ran THEN Cardinality(AtStart(h)) ELSE 0)

BucketOK(h) ==
  /\ hourly[h].requests \in Nat /\ hourly[h].success \in Nat /\ hourly[h].failure \in Nat
  /\ hourly[h].requests = hourly[h].success + hourly[h].failure
  /\ hourly[h].requests <= Seen(h)

CountInv ==
  /\ DOMAIN born \subseteq stored \cup gone
  /\ DOMAIN hourly = 0 .. HourOf(MaxNow)
  /\ \A h \in DOMAIN hourly : BucketOK(h)

LEMMA PositionsFinite ==
  ASSUME NEW n \in Nat, NEW R, R \subseteq 1 .. n
  PROVE  IsFiniteSet(R) /\ Cardinality(R) \in Nat
<1>1. IsFiniteSet(1 .. n)
  BY FS_Interval
<1>2. IsFiniteSet(R)
  BY <1>1, FS_Subset
<1> QED BY <1>2, FS_CardinalityType

LEMMA RowsFinite ==
  ASSUME BufferInv, NEW R, R \subseteq DOMAIN born
  PROVE  IsFiniteSet(R) /\ Cardinality(R) \in Nat
<1>1. R \subseteq 1 .. flushed /\ flushed \in Nat
  BY DEF BufferInv, Counters, Settled
<1> QED BY <1>1, PositionsFinite

\* A run counts into an hour only rows of that hour: those of its first tick when
\* it runs at that hour, any of them one hour later, and none at another time.
LEMMA WindowOfHour ==
  ASSUME BufferInv, CountInv, NEW edge, edge \subseteq {i \in stored : born[i] + Hour = now},
         now % Hour = 0, NEW h \in Nat
  PROVE  LET R == {i \in Window(edge) : HourOf(born[i]) = h}
         IN /\ R \subseteq InHour(h)
            /\ h = HourOf(now) => R \subseteq AtStart(h)
            /\ h # HourOf(now) /\ h + 1 # HourOf(now) => R = {}
<1> DEFINE R == {i \in Window(edge) : HourOf(born[i]) = h}
<1>1. Window(edge) \subseteq DOMAIN born
  BY DEF Window, BufferInv, RecordsTypeOK
<1>2. now \in Nat /\ now = Hour * HourOf(now) /\ HourOf(now) \in Nat
  <2>1. now \in Nat
    BY BufferAssumption DEF BufferInv, RecordsTypeOK
  <2>2. now = Hour * HourOf(now) + (now % Hour) /\ HourOf(now) \in Nat
    BY <2>1, HourTimes
  <2>3. Hour * HourOf(now) \in Nat
    BY <2>2, BufferAssumption
  <2> QED BY <2>1, <2>2, <2>3
<1>3. ASSUME NEW i \in R
      PROVE  /\ h = HourOf(now) => born[i] = Hour * h
             /\ h = HourOf(now) \/ h + 1 = HourOf(now)
  <2>1. born[i] \in Nat /\ born[i] <= now /\ now <= born[i] + Hour
    BY <1>1, <1>2, BufferAssumption DEF BufferInv, RecordsTypeOK, Window
  <2>2. born[i] = Hour * h + (born[i] % Hour) /\ born[i] % Hour \in 0 .. Hour - 1
    BY <2>1, HourTimes
  <2>3. Hour * h \in Nat /\ Hour * HourOf(now) \in Nat /\ Hour \in Nat \ {0}
    BY <1>2, BufferAssumption
  <2>4. ~(HourOf(now) < h)
    BY <1>2, <2>1, <2>2, <2>3, HourSteps
  <2>5. ~(h + 1 < HourOf(now))
    <3>1. Hour * (h + 1) = Hour * h + Hour
      BY <2>3
    <3>2. h + 1 \in Nat /\ HourOf(now) \in Nat
      BY <1>2
    <3>3. h + 1 < HourOf(now) => Hour * (h + 1) + Hour <= Hour * HourOf(now)
      BY <3>2, HourSteps
    <3> QED BY <1>2, <2>1, <2>2, <2>3, <3>1, <3>3
  <2>6. h = HourOf(now) => born[i] = Hour * h
    BY <1>2, <2>1, <2>2, <2>3
  <2> QED BY <1>2, <2>4, <2>5, <2>6
<1>4. R \subseteq InHour(h)
  BY <1>1 DEF InHour
<1> QED BY <1>1, <1>3, <1>4 DEF AtStart

\* A run of the hourly job adds to a bucket at most the rows it newly sees.
LEMMA AggregateHourlyCount ==
  ASSUME BufferInv, CountInv, AggregateHourly
  PROVE  CountInv'
<1>1. PICK edge \in SUBSET {i \in stored : born[i] + Hour = now} :
         hourly' = [h \in DOMAIN hourly |->
                      Tally(hourly[h], {i \in Window(edge) : HourOf(born[i]) = h})]
  BY DEF AggregateHourly
<1>2. /\ now % Hour = 0 /\ HourOf(now) \notin ran /\ ran' = ran \cup {HourOf(now)}
      /\ UNCHANGED <<log, stored, born, gone>>
  BY DEF AggregateHourly
<1>3. ASSUME NEW h \in DOMAIN hourly PROVE BucketOK(h)'
  <2> DEFINE R    == {i \in Window(edge) : HourOf(born[i]) = h}
             Won == {i \in R : log[i].status = "success"}
             Lost  == {i \in R : log[i].status # "success"}
  <2>1. /\ hourly'[h].requests = hourly[h].requests + Cardinality(R)
        /\ hourly'[h].success = hourly[h].success + Cardinality(Won)
        /\ hourly'[h].failure = hourly[h].failure + Cardinality(Lost)
    BY <1>1 DEF Tally
  <2>2. h \in Nat
    BY DEF CountInv
  <2>3. /\ R \subseteq InHour(h)
        /\ h = HourOf(now) => R \subseteq AtStart(h)
        /\ h # HourOf(now) /\ h + 1 # HourOf(now) => R = {}
    BY <1>2, <2>2, WindowOfHour
  <2> HIDE DEF R
  <2>4. R \subseteq DOMAIN born /\ Won \subseteq R /\ Lost \subseteq R
    BY <2>3 DEF InHour
  <2>5. /\ IsFiniteSet(R) /\ IsFiniteSet(Won) /\ IsFiniteSet(Lost)
        /\ Cardinality(R) \in Nat /\ Cardinality(Won) \in Nat /\ Cardinality(Lost) \in Nat
    <3>1. Won \subseteq DOMAIN born /\ Lost \subseteq DOMAIN born
      BY <2>4
    <3> QED BY <2>4, <3>1, RowsFinite
  <2>6. Cardinality(R) = Cardinality(Won) + Cardinality(Lost)
    <3>1. R = Won \cup Lost /\ Won \cap Lost = {}
      OBVIOUS
    <3>2. Cardinality(Won \cap Lost) = 0
      BY <3>1, FS_EmptySet
    <3>3. Cardinality(R) = Cardinality(Won) + Cardinality(Lost) - 0
      BY <2>5, <3>1, <3>2, FS_Union
    <3> QED BY <2>5, <3>3
  <2>7. /\ InHour(h)' = InHour(h) /\ AtStart(h)' = AtStart(h)
        /\ Cardinality(InHour(h)) \in Nat /\ Cardinality(AtStart(h)) \in Nat
    BY <1>2, RowsFinite DEF InHour, AtStart
  <2>8. /\ Cardinality(R) <= Cardinality(InHour(h))
        /\ h = HourOf(now) => Cardinality(R) <= Cardinality(AtStart(h))
        /\ h # HourOf(now) /\ h + 1 # HourOf(now) => Cardinality(R) = 0
    <3>1. IsFiniteSet(InHour(h)) /\ IsFiniteSet(AtStart(h))
      BY RowsFinite DEF InHour, AtStart
    <3> QED BY <2>3, <3>1, FS_Subset, FS_EmptySet
  <2>9. BucketOK(h)
    BY DEF CountInv
  <2>10. hourly'[h].requests <= Seen(h)'
    <3>1. h + 1 # h
      BY <2>2
    <3>2. CASE h = HourOf(now)
      BY <1>2, <2>1, <2>5, <2>7, <2>8, <2>9, <3>1, <3>2 DEF Seen, BucketOK
    <3>3. CASE h + 1 = HourOf(now)
      BY <1>2, <2>1, <2>5, <2>7, <2>8, <2>9, <3>1, <3>3 DEF Seen, BucketOK
    <3>4. CASE h # HourOf(now) /\ h + 1 # HourOf(now)
      BY <1>2, <2>1, <2>5, <2>7, <2>8, <2>9, <3>4 DEF Seen, BucketOK
    <3> QED BY <3>2, <3>3, <3>4
  <2> HIDE DEF Won, Lost
  <2> QED BY <2>1, <2>5, <2>6, <2>9, <2>10 DEF BucketOK
<1>4. DOMAIN hourly' = DOMAIN hourly
  BY <1>1
<1> QED BY <1>2, <1>3, <1>4 DEF CountInv

\* Rows that are added, none of them known before, only raise what may be seen.
LEMMA MoreRows ==
  ASSUME BufferInv, BufferInv', CountInv,
         DOMAIN born \subseteq DOMAIN born', \A i \in DOMAIN born : born'[i] = born[i],
         DOMAIN born' \subseteq stored' \cup gone', UNCHANGED <<hourly, ran>>
  PROVE  CountInv'
<1>1. ASSUME NEW h \in DOMAIN hourly PROVE BucketOK(h)'
  <2>1. InHour(h) \subseteq InHour(h)' /\ AtStart(h) \subseteq AtStart(h)'
    BY DEF InHour, AtStart
  <2>2. /\ IsFiniteSet(InHour(h)) /\ Cardinality(InHour(h)) \in Nat
        /\ IsFiniteSet(AtStart(h)) /\ Cardinality(AtStart(h)) \in Nat
    BY RowsFinite DEF InHour, AtStart
  <2>3. /\ IsFiniteSet(InHour(h)') /\ Cardinality(InHour(h)') \in Nat
        /\ IsFiniteSet(AtStart(h)') /\ Cardinality(AtStart(h)') \in Nat
    <3>1. InHour(h)' \subseteq 1 .. flushed' /\ AtStart(h)' \subseteq 1 .. flushed' /\ flushed' \in Nat
      BY DEF InHour, AtStart, BufferInv, Counters, Settled
    <3> QED BY <3>1, PositionsFinite
  <2>4. /\ Cardinality(InHour(h)) <= Cardinality(InHour(h)')
        /\ Cardinality(AtStart(h)) <= Cardinality(AtStart(h)')
    BY <2>1, <2>3, FS_Subset
  <2>5. Seen(h) <= Seen(h)' /\ Seen(h) \in Nat /\ Seen(h)' \in Nat
    BY <2>2, <2>3, <2>4 DEF Seen
  <2> QED BY <2>5 DEF CountInv, BucketOK
<1> QED BY <1>1 DEF CountInv

\* A batch that is written is of rows that were never there.
LEMMA InsertedCount ==
  ASSUME BufferInv, BufferInv', CountInv, NEW R, R \subseteq Pending, Inserted(R),
         gone \subseteq gone', UNCHANGED <<hourly, ran>>
  PROVE  CountInv'
<1>1. R \cap DOMAIN born = {}
  <2>1. DOMAIN born \subseteq 1 .. flushed /\ flushed \in Nat /\ R \subseteq (flushed + 1) .. Len(log)
    BY DEF BufferInv, Counters, Settled, Pending
  <2>2. Len(log) \in Nat
    BY DEF BufferInv, RecordsTypeOK
  <2> QED BY <2>1, <2>2
<1>2. /\ DOMAIN born' = DOMAIN born \cup R /\ stored' = stored \cup R
      /\ \A i \in DOMAIN born : born'[i] = born[i]
  BY <1>1 DEF Inserted
<1>3. DOMAIN born' \subseteq stored' \cup gone'
  BY <1>2 DEF CountInv
<1> QED BY <1>2, <1>3, MoreRows

LEMMA SameRowsCount ==
  ASSUME BufferInv, BufferInv', CountInv, UNCHANGED <<born, hourly, ran>>,
         stored \cup gone \subseteq stored' \cup gone'
  PROVE  CountInv'
<1>1. DOMAIN born \subseteq stored' \cup gone'
  BY DEF CountInv
<1> QED BY <1>1, MoreRows

LEMMA StopsCount ==
  ASSUME BufferInv, BufferInv', CountInv, Stops
  PROVE  CountInv'
<1>1. Batch \subseteq Pending /\ UNCHANGED <<hourly, ran>>
  BY DEF Batch, Pending, BufferInv, RecordsTypeOK, Counters, Stops
<1>2. CASE Inserted(Batch) /\ gone' = gone \cup Queued
  BY <1>1, <1>2, InsertedCount
<1>3. CASE UNCHANGED <<stored, born>> /\ gone' = gone \cup Pending
  BY <1>1, <1>3, SameRowsCount
<1> QED BY <1>2, <1>3 DEF Stops

LEMMA BufferStepCount ==
  ASSUME BufferInv, BufferInv', CountInv, BufferStep
  PROVE  CountInv'
<1>1. CASE FlushCommits
  <2>1. Batch \subseteq Pending
    BY DEF Batch, Pending, BufferInv, RecordsTypeOK, Counters
  <2> QED BY <1>1, <2>1, InsertedCount DEF FlushCommits, Cleared
<1>2. CASE FlushFails
  BY <1>2, SameRowsCount DEF FlushFails, Cleared
<1>3. CASE AggregateHourly
  BY <1>3, AggregateHourlyCount
<1>4. CASE CleanupOldRequests
  <2>1. UNCHANGED <<born, hourly, ran>> /\ stored \cup gone \subseteq stored' \cup gone'
    BY <1>4 DEF CleanupOldRequests
  <2> QED BY <2>1, SameRowsCount
<1>5. CASE TakeItem \/ TakeTimesOut \/ Starts \/ Tick \/ \E k \in Keys : DeleteKey(k)
  <2>1. UNCHANGED <<born, hourly, ran, stored, gone>>
    BY <1>5 DEF TakeItem, TakeTimesOut, Starts, Tick, DeleteKey, tables
  <2> QED BY <2>1, SameRowsCount
<1> QED BY <1>1, <1>2, <1>3, <1>4, <1>5 DEF BufferStep

LEMMA CountInit == Init => CountInv
<1> SUFFICES ASSUME Init PROVE CountInv
  OBVIOUS
<1>1. ASSUME NEW h \in DOMAIN hourly PROVE BucketOK(h)
  <2>1. /\ hourly[h].requests = 0 /\ hourly[h].success = 0 /\ hourly[h].failure = 0
        /\ ran = {}
    BY DEF Init, BufferInit
  <2> QED BY <2>1 DEF BucketOK, Seen
<1> QED BY <1>1 DEF CountInv, Init, BufferInit

LEMMA CountNext == Inv /\ Inv' /\ CountInv /\ [Next]_vars => CountInv'
<1> SUFFICES ASSUME Inv, Inv', CountInv, [Next]_vars PROVE CountInv'
  OBVIOUS
<1>1. BufferInv /\ BufferInv' /\ RequestsTypeOK /\ keys \subseteq Keys
  BY DEF Inv, BufferInv, RecordsTypeOK
<1>2. ASSUME Touches PROVE CountInv'
  <2>1. UNCHANGED <<born, hourly, ran, stored, gone>>
    BY <1>2 DEF Touches, Reports, RecordRequests, CommitFault, bufferVars, tables
  <2> QED BY <1>1, <2>1, SameRowsCount
<1>3. ASSUME NEW r \in Requests, Endpoint(r) PROVE CountInv'
  BY <1>1, <1>2, <1>3, EndpointStep
<1>4. CASE BufferStep
  BY <1>1, <1>4, BufferStepCount
<1>5. CASE Shutdown
  BY <1>1, <1>5, StopsCount DEF Shutdown
<1>6. CASE UNCHANGED vars
  BY <1>2, <1>6 DEF vars, Touches
<1> QED BY <1>3, <1>4, <1>5, <1>6 DEF Next

LEMMA AlwaysCount == Spec => [](Inv /\ CountInv)
<1>1. Init => Inv /\ CountInv
  BY InitInv, CountInit
<1>2. Inv /\ CountInv /\ [Next]_vars => (Inv /\ CountInv)'
  BY NextInv, CountNext
<1> QED BY <1>1, <1>2, PTL DEF Spec

\* The three sums of the overview, as values of sums over the buckets.
LEMMA DashboardSums ==
  ASSUME CountInv
  PROVE  \E g, gs, gf :
           /\ Sums(g, [h \in DOMAIN hourly |-> hourly[h].requests], DOMAIN hourly)
           /\ Sums(gs, [h \in DOMAIN hourly |-> hourly[h].success], DOMAIN hourly)
           /\ Sums(gf, [h \in DOMAIN hourly |-> hourly[h].failure], DOMAIN hourly)
           /\ Dashboard(0).total = g[DOMAIN hourly]
           /\ Dashboard(0).success = gs[DOMAIN hourly]
           /\ Dashboard(0).errors = gf[DOMAIN hourly]
<1> DEFINE D == DOMAIN hourly
<1>1. IsFiniteSet(D)
  <2>1. HourOf(MaxNow) \in Nat
    BY HourTimes, BufferAssumption
  <2> QED BY <2>1, FS_Interval DEF CountInv
<1>2. {h \in D : h * Hour >= 0} = D
  <2>1. \A h \in D : h \in Nat
    BY DEF CountInv
  <2> QED BY <2>1, BufferAssumption
<1>3. \E g : Sums(g, [h \in D |-> hourly[h].requests], D) /\ Dashboard(0).total = g[D]
  <2> DEFINE IsSum(g) == g = [s \in SUBSET D |->
                               IF s = {} THEN 0
                               ELSE LET x == CHOOSE x \in s : TRUE
                                    IN hourly[x].requests + g[s \ {x}]]
  <2>1. PICK g : Sums(g, [h \in D |-> hourly[h].requests], D)
    BY <1>1, SumsExist
  <2>2. IsSum(g)
    BY <2>1 DEF Sums
  <2>3. IsSum(CHOOSE q : IsSum(q))
    BY <2>2
  <2>4. Sums(CHOOSE q : IsSum(q), [h \in D |-> hourly[h].requests], D)
    BY <2>3 DEF Sums
  <2>5. Dashboard(0).total = (CHOOSE q : IsSum(q))[D]
    BY <1>2 DEF Dashboard, MapThenSumSet, MapThenFoldSet
  <2> QED BY <2>4, <2>5
<1>4. \E g : Sums(g, [h \in D |-> hourly[h].success], D) /\ Dashboard(0).success = g[D]
  <2> DEFINE IsSum(g) == g = [s \in SUBSET D |->
                               IF s = {} THEN 0
                               ELSE LET x == CHOOSE x \in s : TRUE
                                    IN hourly[x].success + g[s \ {x}]]
  <2>1. PICK g : Sums(g, [h \in D |-> hourly[h].success], D)
    BY <1>1, SumsExist
  <2>2. IsSum(g)
    BY <2>1 DEF Sums
  <2>3. IsSum(CHOOSE q : IsSum(q))
    BY <2>2
  <2>4. Sums(CHOOSE q : IsSum(q), [h \in D |-> hourly[h].success], D)
    BY <2>3 DEF Sums
  <2>5. Dashboard(0).success = (CHOOSE q : IsSum(q))[D]
    BY <1>2 DEF Dashboard, MapThenSumSet, MapThenFoldSet
  <2> QED BY <2>4, <2>5
<1>5. \E g : Sums(g, [h \in D |-> hourly[h].failure], D) /\ Dashboard(0).errors = g[D]
  <2> DEFINE IsSum(g) == g = [s \in SUBSET D |->
                               IF s = {} THEN 0
                               ELSE LET x == CHOOSE x \in s : TRUE
                                    IN hourly[x].failure + g[s \ {x}]]
  <2>1. PICK g : Sums(g, [h \in D |-> hourly[h].failure], D)
    BY <1>1, SumsExist
  <2>2. IsSum(g)
    BY <2>1 DEF Sums
  <2>3. IsSum(CHOOSE q : IsSum(q))
    BY <2>2
  <2>4. Sums(CHOOSE q : IsSum(q), [h \in D |-> hourly[h].failure], D)
    BY <2>3 DEF Sums
  <2>5. Dashboard(0).errors = (CHOOSE q : IsSum(q))[D]
    BY <1>2 DEF Dashboard, MapThenSumSet, MapThenFoldSet
  <2> QED BY <2>4, <2>5
<1> QED BY <1>3, <1>4, <1>5

\* Bucket by bucket the bound is that of the invariant; the sums do the rest.
LEMMA CountedInHours ==
  ASSUME BufferInv, CountInv
  PROVE  CountedOnce
<1> DEFINE D    == DOMAIN hourly
           edge == {i \in DOMAIN born : born[i] % Hour = 0}
           of   == [i \in DOMAIN born |-> HourOf(born[i])]
           all  == [h \in D |-> hourly[h].requests]
           won  == [h \in D |-> hourly[h].success]
           lost == [h \in D |-> hourly[h].failure]
<1>1. IsFiniteSet(D)
  <2>1. HourOf(MaxNow) \in Nat
    BY HourTimes, BufferAssumption
  <2> QED BY <2>1, FS_Interval DEF CountInv
<1>2. all \in [D -> Nat] /\ won \in [D -> Nat] /\ lost \in [D -> Nat]
  BY DEF CountInv, BucketOK
<1>3. \A h \in D : all[h] = won[h] + lost[h]
  BY DEF CountInv, BucketOK
<1>4. /\ IsFiniteSet(DOMAIN born) /\ IsFiniteSet(edge)
      /\ Cardinality(DOMAIN born) \in Nat /\ Cardinality(edge) \in Nat
  BY RowsFinite
<1>5. ASSUME NEW h \in D
      PROVE  all[h] <= Cardinality(Part(DOMAIN born, of, {h})) + Cardinality(Part(edge, of, {h}))
  <2>1. Part(DOMAIN born, of, {h}) = InHour(h)
    BY DEF Part, InHour
  <2>2. AtStart(h) \subseteq Part(edge, of, {h})
    <3> SUFFICES ASSUME NEW i \in AtStart(h) PROVE HourOf(born[i]) = h /\ born[i] % Hour = 0
      BY DEF Part, AtStart
    <3>1. h \in Nat /\ born[i] = Hour * h
      BY DEF AtStart, CountInv
    <3>2. HourOf(Hour * h) = h /\ (Hour * h) % Hour = 0
      BY <3>1, BufferAssumption DEF HourOf
    <3> QED BY <3>1, <3>2
  <2>3. /\ IsFiniteSet(Part(edge, of, {h})) /\ Cardinality(Part(edge, of, {h})) \in Nat
        /\ Cardinality(InHour(h)) \in Nat /\ Cardinality(AtStart(h)) \in Nat
    BY RowsFinite DEF Part, InHour, AtStart
  <2>4. Cardinality(AtStart(h)) <= Cardinality(Part(edge, of, {h}))
    BY <2>2, <2>3, FS_Subset
  <2>5. hourly[h].requests <= Seen(h) /\ hourly[h].requests \in Nat
    BY DEF CountInv, BucketOK
  <2>6. Seen(h) \in Nat /\ Seen(h) <= Cardinality(InHour(h)) + Cardinality(AtStart(h))
    BY <2>3 DEF Seen
  <2> HIDE DEF of, edge
  <2> QED BY <2>1, <2>3, <2>4, <2>5, <2>6
<1> HIDE DEF D, edge, of, all, won, lost
<1>6. PICK g, gs, gf : /\ Sums(g, all, D) /\ Sums(gs, won, D) /\ Sums(gf, lost, D)
                       /\ Dashboard(0).total = g[D]
                       /\ Dashboard(0).success = gs[D]
                       /\ Dashboard(0).errors = gf[D]
  BY DashboardSums DEF D, all, won, lost
<1>7. g[D] = gs[D] + gf[D]
  BY <1>1, <1>2, <1>3, <1>6, SumOfTwo
<1>8. g[D] \in Nat /\ g[D] <= Cardinality(DOMAIN born) + Cardinality(edge)
  BY <1>1, <1>2, <1>4, <1>5, <1>6, SumOfParts
<1>9. Cardinality(DOMAIN born) = Summary(0).total + Cardinality(gone \cap DOMAIN born)
  <2>1. {i \in stored : born[i] >= 0} = stored
    BY DEF BufferInv, RecordsTypeOK
  <2>2. Summary(0).total = Cardinality(stored)
    BY <2>1 DEF Summary
  <2>3. /\ stored \cup (gone \cap DOMAIN born) = DOMAIN born
        /\ stored \cap (gone \cap DOMAIN born) = {}
    BY DEF BufferInv, RecordsTypeOK, Settled, CountInv
  <2>4. /\ IsFiniteSet(stored) /\ Cardinality(stored) \in Nat
        /\ IsFiniteSet(gone \cap DOMAIN born) /\ Cardinality(gone \cap DOMAIN born) \in Nat
    BY <2>3, RowsFinite
  <2>5. Cardinality(DOMAIN born) = Cardinality(stored) + Cardinality(gone \cap DOMAIN born) - 0
    <3>1. Cardinality(stored \cap (gone \cap DOMAIN born)) = 0
      BY <2>3, FS_EmptySet
    <3>2. Cardinality(stored \cup (gone \cap DOMAIN born)) =
            Cardinality(stored) + Cardinality(gone \cap DOMAIN born)
              - Cardinality(stored \cap (gone \cap DOMAIN born))
      BY <2>4, FS_Union
    <3> QED BY <2>3, <3>1, <3>2
  <2> QED BY <2>2, <2>4, <2>5
<1> QED BY <1>6, <1>7, <1>8, <1>9 DEF CountedOnce, edge

\* The overview shows no more requests than the summary and the retention account
\* for, except those made in the first tick of an hour, and its successes and
\* errors add up.
THEOREM CountedOnceAlways == Spec => []CountedOnce
<1>1. Inv /\ CountInv => CountedOnce
  BY CountedInHours DEF Inv
<1> QED BY <1>1, AlwaysCount, PTL
=============================================================================
