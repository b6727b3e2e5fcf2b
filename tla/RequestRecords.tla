--------------------------- MODULE RequestRecords ---------------------------
(***************************************************************************)
(* The endpoints of the proxy and what each of them reports: the direct    *)
(* paths of chat, image, transcription and speech requests, the retry      *)
(* loops of images, transcriptions and speech, and embeddings, over the    *)
(* analytics buffer.  (The retry loop of chat is module FallbackRouter.)   *)
(*                                                                         *)
(* A request chooses a key, calls its provider, reports to the analytics   *)
(* queue (memory) and adds usage and cooldown rows to its session, which   *)
(* commits at the end of the response or rolls back on an exception.       *)
(***************************************************************************)
EXTENDS AnalyticsBuffer

CONSTANTS
  Requests,
  KindsOf,   \* the endpoints a request may call, each with its path
  Candidates \* models in the pool of a retry loop

\* A record names its request.
ASSUME RecordsAssumption == Requests \subseteq Content /\ Candidates \in Nat

VARIABLES
  kind,      \* endpoint and path of a request
  phase,     \* "new", "routing", "calling", "streaming", "committing", "done"
  key,       \* the key it calls with
  tried,     \* the keys of its reported failed calls: one cooldown row each, of another model
             \* each, visible to its own session only
  answered,  \* its provider has answered without an error
  hungUp,    \* history: its client has left during the stream
  usage,     \* its usage rows: "none", "flushed", "committed"
  reply      \* HTTP status of the response

requestVars == <<kind, phase, key, tried, answered, hungUp, usage, reply>>
vars == <<bufferVars, requestVars>>

Init ==
  /\ BufferInit
  /\ kind \in {f \in [Requests -> UNION {KindsOf[r] : r \in Requests}] :
                \A r \in Requests : f[r] \in KindsOf[r]}
  /\ phase = [r \in Requests |-> "new"]
  /\ key = [r \in Requests |-> NoKey]
  /\ tried = [r \in Requests |-> <<>>]
  /\ answered = [r \in Requests |-> FALSE]
  /\ hungUp = [r \in Requests |-> FALSE]
  /\ usage = [r \in Requests |-> "none"]
  /\ reply = [r \in Requests |-> 0]

-----------------------------------------------------------------------------
\* AnalyticsService.record_request for request r.
RecordOf(r, type, k, s, fits) ==
  [type |-> type, key |-> k, status |-> s, fits |-> fits, what |-> r]

Report(r, k, s, fits) == RecordRequests(<<RecordOf(r, "endpoint", k, s, fits)>>)

Unreported == UNCHANGED bufferVars

\* The request ends with an exception, or with nothing to commit: what its
\* session has flushed is rolled back.
EndsCommitted(r, status) ==
  /\ phase' = [phase EXCEPT ![r] = "done"]
  /\ reply' = [reply EXCEPT ![r] = status]
  /\ usage' = [usage EXCEPT ![r] = IF @ = "flushed" THEN "committed" ELSE @]
  /\ UNCHANGED <<kind, key, tried, answered, hungUp>>
Ends(r, status) ==
  /\ phase' = [phase EXCEPT ![r] = "done"]
  /\ reply' = [reply EXCEPT ![r] = status]
  /\ usage' = [usage EXCEPT ![r] = IF @ = "flushed" THEN "none" ELSE @]
  /\ UNCHANGED <<kind, key, tried, answered, hungUp>>

\* The provider answered: usage rows are flushed, then the success reported.
\* Where get_db commits, the response (status 200) leaves before the commit;
\* where the handler commits, it leaves after it (status 0 until then).
Succeeds(r, status) ==
  /\ phase[r] = "calling"
  /\ Report(r, key[r], "success", TRUE)
  /\ answered' = [answered EXCEPT ![r] = TRUE]
  /\ usage' = [usage EXCEPT ![r] = "flushed"]
  /\ phase' = [phase EXCEPT ![r] = "committing"]
  /\ reply' = [reply EXCEPT ![r] = status]
  /\ UNCHANGED <<kind, key, tried, hungUp>>

\* The commit of the handler or of get_db, and the commit that fails.
Commits(r) ==
  /\ phase[r] = "committing" /\ worker # "down"
  /\ \/ /\ phase' = [phase EXCEPT ![r] = "done"]
        /\ usage' = [usage EXCEPT ![r] = IF @ = "flushed" THEN "committed" ELSE @]
        /\ reply' = [reply EXCEPT ![r] = 200]
        /\ UNCHANGED <<kind, key, tried, answered, hungUp>> /\ Unreported
     \/ /\ faults < MaxFaults /\ faults' = faults + 1
        /\ Ends(r, IF reply[r] = 0 THEN 500 ELSE reply[r])
        /\ UNCHANGED <<log, taken, flushed, worker, waited, age, begun, now, tables, keys>>

Chosen(r, k, next) ==
  /\ key' = [key EXCEPT ![r] = k]
  /\ phase' = [phase EXCEPT ![r] = next]

-----------------------------------------------------------------------------
\* Direct paths: catalog row, provider and key are looked up; the model name
\* comes from the request, so the record of an unknown one may not fit.
LookupFails(r) ==
  /\ phase[r] = "new"
  /\ \/ \E fits \in BOOLEAN : Report(r, NoKey, "error", fits) /\ Ends(r, 404)
     \/ Report(r, NoKey, "error", TRUE) /\ (Ends(r, 404) \/ Ends(r, 503))

\* Two rows for one model name, an undecryptable key, an exception of the provider that
\* no handler catches, a database error of a lookup, of set_cooldown or of the usage
\* rows: 500 and no record.
Unhandled(r) ==
  /\ phase[r] \in {"new", "routing", "calling"} /\ worker # "down"
  /\ Ends(r, 500) /\ Unreported

Lookup(r, next) ==
  \/ LookupFails(r)
  \/ /\ phase[r] = "new" /\ worker # "down"
     /\ \E k \in keys : Chosen(r, k, next)
     /\ UNCHANGED <<kind, tried, answered, hungUp, usage, reply>> /\ Unreported

DirectChat(r) ==
  /\ kind[r] = "chat"
  /\ Lookup(r, "calling") \/ Succeeds(r, 200) \/ Unhandled(r)

\* A stream by model name: neither usage nor a record, however it ends.
DirectChatStream(r) ==
  /\ kind[r] = "chat-stream"
  /\ \/ Lookup(r, "streaming")
     \/ phase[r] = "new" /\ Unhandled(r)
     \/ /\ phase[r] = "streaming" /\ worker # "down" /\ Unreported
        /\ Ends(r, 200)

DirectImage(r) ==
  /\ kind[r] = "image"
  /\ \/ Lookup(r, "calling") \/ Succeeds(r, 0)
     \/ Unhandled(r)
     \/ phase[r] = "calling" /\ Report(r, key[r], "error", TRUE) /\ Ends(r, 502)

DirectTranscription(r) ==
  /\ kind[r] = "audio"
  /\ Lookup(r, "calling") \/ Succeeds(r, 0) \/ Unhandled(r)

\* Speech reports a success and flushes its usage before the provider is
\* called; the stream runs after that, and only it knows how it ended.
Announces(r, k) ==
  /\ worker # "down" /\ k \in keys
  /\ Report(r, k, "success", TRUE)
  /\ Chosen(r, k, "streaming")
  /\ usage' = [usage EXCEPT ![r] = "flushed"]
  /\ reply' = [reply EXCEPT ![r] = 200]
  /\ UNCHANGED <<kind, tried, answered, hungUp>>

\* The stream ends, and get_db commits; or the provider or the commit fails.  A client
\* that hangs up cancels the generator, not the response: StreamingResponse returns,
\* and get_db commits what the provider has not finished.
SpeechStreamEnds(r) ==
  /\ phase[r] = "streaming" /\ worker # "down" /\ Unreported
  /\ \/ /\ phase' = [phase EXCEPT ![r] = "done"]
        /\ \/ answered' = [answered EXCEPT ![r] = TRUE] /\ UNCHANGED hungUp
           \/ hungUp' = [hungUp EXCEPT ![r] = TRUE] /\ UNCHANGED answered
        /\ usage' = [usage EXCEPT ![r] = "committed"]
        /\ UNCHANGED <<kind, key, tried, reply>>
     \/ Ends(r, 200)

DirectSpeech(r) ==
  /\ kind[r] = "speech"
  /\ \/ LookupFails(r)
     \/ phase[r] = "new" /\ (Unhandled(r) \/ \E k \in keys : Announces(r, k))
     \/ SpeechStreamEnds(r)

-----------------------------------------------------------------------------
\* The retry loops.  A cooldown flushed by the request keeps its own
\* select_fallback from the model that failed (FallbackRouter's NoRepeat), not from
\* its key, which other models of the platform share; 429 rolls it back.
NoCandidate(r) ==
  /\ phase[r] \in {"new", "routing"}
  /\ Report(r, NoKey, "error", TRUE) /\ Ends(r, 429)

SelectFallback(r) ==
  /\ phase[r] \in {"new", "routing"} /\ worker # "down"
  /\ Len(tried[r]) < Candidates
  /\ \E k \in keys : Chosen(r, k, "calling")
  /\ UNCHANGED <<kind, tried, answered, hungUp, usage, reply>> /\ Unreported

\* The except clause: set_cooldown puts a record of type "rate_limit", the loop its own
\* one behind it, and the flush may then raise.
Failures(r) ==
  <<RecordOf(r, "rate_limit", key[r], "error", TRUE), RecordOf(r, "endpoint", key[r], "error", TRUE)>>

\* Mutant of FailsOver: the loop leaves the report to set_cooldown.
FailsOverOnce(r) ==
  /\ phase[r] = "calling"
  /\ RecordRequests(<<Failures(r)[1]>>)
  /\ tried' = [tried EXCEPT ![r] = Append(@, key[r])]
  /\ phase' = [phase EXCEPT ![r] = "routing"]
  /\ UNCHANGED <<kind, key, answered, hungUp, usage, reply>>

FailsOver(r) ==
  /\ phase[r] = "calling"
  /\ RecordRequests(Failures(r))
  /\ tried' = [tried EXCEPT ![r] = Append(@, key[r])]
  /\ \/ phase' = [phase EXCEPT ![r] = "routing"] /\ UNCHANGED reply
     \/ phase' = [phase EXCEPT ![r] = "done"] /\ reply' = [reply EXCEPT ![r] = 500]
  /\ UNCHANGED <<kind, key, answered, hungUp, usage>>

AutoImageAnnounced(r) ==
  /\ kind[r] = "image-auto"
  /\ \/ NoCandidate(r) \/ SpeechStreamEnds(r)
     \/ phase[r] = "new" /\ (Unhandled(r) \/ \E k \in keys : Announces(r, k))
AutoImage(r) ==
  /\ kind[r] = "image-auto"
  /\ \/ NoCandidate(r) \/ SelectFallback(r) \/ FailsOver(r) \/ Succeeds(r, 0)
     \/ Unhandled(r)

AutoTranscription(r) ==
  /\ kind[r] = "audio-auto"
  /\ \/ NoCandidate(r) \/ SelectFallback(r) \/ FailsOver(r) \/ Succeeds(r, 0)
     \/ Unhandled(r)

\* The generator is only made inside the try, so its except clause never sees
\* the provider fail and the first candidate is the last.
AutoSpeech(r) ==
  /\ kind[r] = "speech-auto"
  /\ \/ NoCandidate(r) \/ SpeechStreamEnds(r)
     \/ phase[r] = "new" /\ (Unhandled(r) \/ \E k \in keys : Announces(r, k))

-----------------------------------------------------------------------------
\* EmbeddingService.embed: route or look up, then one call.  A RuntimeError of
\* any step is reported without a key and under the requested model name.
Embed(r) ==
  /\ phase[r] = "new" /\ worker # "down"
  /\ \E k \in keys : Chosen(r, k, "calling")
  /\ UNCHANGED <<kind, tried, answered, hungUp, usage, reply>> /\ Unreported

CreateEmbeddings(r) ==
  /\ kind[r] = "embed"
  /\ \/ Embed(r) \/ Unhandled(r)
     \/ /\ phase[r] \in {"new", "calling"}
        /\ \E fits \in BOOLEAN : Report(r, NoKey, "error", fits)
        /\ Ends(r, 503)
     \/ /\ phase[r] = "calling"
        /\ Report(r, NoKey, "success", TRUE)
        /\ answered' = [answered EXCEPT ![r] = TRUE]
        /\ phase' = [phase EXCEPT ![r] = "done"]
        /\ reply' = [reply EXCEPT ![r] = 200]
        /\ UNCHANGED <<kind, key, tried, hungUp, usage>>

-----------------------------------------------------------------------------
\* The process goes down: every request in flight goes with it.
Shutdown ==
  /\ Stops
  /\ phase' = [r \in Requests |-> IF phase[r] = "new" THEN "new" ELSE "done"]
  /\ usage' = [r \in Requests |-> IF usage[r] = "flushed" THEN "none" ELSE usage[r]]
  /\ UNCHANGED <<kind, key, tried, answered, hungUp, reply>>

Endpoint(r) ==
  \/ DirectChat(r) \/ DirectChatStream(r) \/ DirectImage(r)
  \/ DirectTranscription(r) \/ DirectSpeech(r)
  \/ AutoImage(r) \/ AutoTranscription(r) \/ AutoSpeech(r)
  \/ CreateEmbeddings(r) \/ Commits(r)

Next ==
  \/ \E r \in Requests : Endpoint(r)
  \/ BufferStep /\ UNCHANGED requestVars
  \/ Shutdown

\* The worker task is scheduled whenever it can run, and time passes.
Fairness ==
  /\ WF_bufferVars(TakeItem) /\ WF_bufferVars(TakeTimesOut)
  /\ WF_bufferVars(FlushCommits \/ FlushFails) /\ WF_bufferVars(Tick)

Spec == Init /\ [][Next]_vars /\ Fairness
=============================================================================
