----------------------------- MODULE AdminTasks -----------------------------
(***************************************************************************)
(* The calls and scripts that administer the tables, and the session each  *)
(* of them works in.                                                       *)
(*                                                                         *)
(* A task reads rows, waits (for the database, a provider or models.dev)   *)
(* and writes; its writes reach the tables when its session commits.  At   *)
(* the isolation level of the database, READ COMMITTED, a query sees what  *)
(* is committed when it runs and an UPDATE waits for the rows it changes,  *)
(* so a flush and its commit are one step here.  Of two writers neither is *)
(* told that the rows it has read have changed.                            *)
(***************************************************************************)
EXTENDS Naturals

CONSTANTS
  Tasks,
  MaxTasks   \* bound: tasks that are begun

ASSUME TasksAssumption == MaxTasks \in Nat

VARIABLES
  task,      \* what each task is doing, with its local variables
  begun      \* how many were begun

taskVars == <<task, begun>>

Idle == [op |-> "idle"]

TasksInit ==
  /\ task = [t \in Tasks |-> Idle]
  /\ begun = 0

Begin(t, job) ==
  /\ task[t] = Idle /\ begun < MaxTasks
  /\ begun' = begun + 1
  /\ task' = [task EXCEPT ![t] = job]

Continue(t, job) ==
  /\ task' = [task EXCEPT ![t] = job]
  /\ UNCHANGED begun

End(t) == Continue(t, Idle)

\* An exception, a refused statement or the end of the process: the session
\* rolls back.
Fail(t) == task[t] # Idle /\ End(t)

\* The session writes an attribute only if it is set to another value than the
\* one that was loaded (autoflush is off, nothing is reloaded).
Written(current, loaded, wanted) == IF wanted = loaded THEN current ELSE wanted
=============================================================================
