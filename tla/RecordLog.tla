------------------------------ MODULE RecordLog ------------------------------
(***************************************************************************)
(* What the request log promises, however it is buffered.  Records are     *)
(* numbered as they are handed over.  A record is pending until it becomes *)
(* a row or is gone, once and for all: the log may lose a record, but it   *)
(* never stores one twice, invents one or brings one back.                 *)
(***************************************************************************)
EXTENDS Naturals

VARIABLES
  handed,  \* how many records were handed over
  stored,  \* the rows of the table
  gone     \* lost before they were stored, or deleted after the retention

logVars == <<handed, stored, gone>>

Unsettled == (1 .. handed) \ (stored \cup gone)

Init == handed = 0 /\ stored = {} /\ gone = {}

\* One or more records.
HandOver ==
  /\ handed' \in Nat /\ handed' > handed
  /\ UNCHANGED <<stored, gone>>

\* A write, a loss, or a crash in the middle of a write, which may do both.
Settle ==
  /\ \E kept, lost \in SUBSET Unsettled :
       /\ kept \cap lost = {}
       /\ stored' = stored \cup kept
       /\ gone' = gone \cup lost
  /\ UNCHANGED handed

Expire ==
  /\ \E old \in SUBSET stored :
       /\ stored' = stored \ old
       /\ gone' = gone \cup old
  /\ UNCHANGED handed

Next == HandOver \/ Settle \/ Expire

Spec == Init /\ [][Next]_logVars
=============================================================================
