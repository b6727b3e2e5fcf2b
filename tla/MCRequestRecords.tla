-------------------------- MODULE MCRequestRecords --------------------------
(***************************************************************************)
(* Two keys and a batch of two.  Either two requests in the last tick of   *)
(* the calendar, where only the worker's timers run, or one request and    *)
(* the whole calendar: two runs of the hourly job with an hour of two      *)
(* ticks.                                                                  *)
(***************************************************************************)
EXTENDS RequestRecordsProperties

CONSTANTS r1, r2, k1, k2, none

MCKeys == {k1, k2}
MCKinds == {"chat", "chat-stream", "image", "audio", "speech",
            "image-auto", "audio-auto", "speech-auto", "embed"}

\* A request of kind "none" does not come.
MCRequests == {r1, r2}
MCKindsOf == [r \in MCRequests |-> IF r = r1 THEN MCKinds ELSE {"embed", "none"}]

\* To the log the two loops are one.
MCInit ==
  /\ Init
  /\ \/ now = MaxNow /\ kind[r2] = "embed"
     \/ now = 1 /\ kind[r2] = "none" /\ kind[r1] # "audio-auto"

MCSpec == MCInit /\ [][Next]_vars /\ Fairness
=============================================================================
