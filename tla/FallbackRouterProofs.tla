------------------------- MODULE FallbackRouterProofs -------------------------
(***************************************************************************)
(* Theorems about FallbackRouter, for every number of requests, models,    *)
(* keys and connections, and for every administrator.                      *)
(***************************************************************************)
EXTENDS FallbackRouterProperties, FiniteSetTheorems, TLAPS

Holding  == {"stickyModel", "stickyKey", "cooldown", "key"}
Routed   == {"rpm", "rpd", "admit", "call", "penalize", "insert", "update"}

\* A request past the choice of a candidate has one, past the choice of a key a key.
RouteOK ==
  \A r \in Requests :
    /\ pc[r] \in Holding \cup Routed => route[r].model \in Models
    /\ pc[r] \in Routed => route[r].key \in Keys

\* Type correctness with what its induction needs.
TypeInv == TypeOK /\ RouteOK

Writing == {"penalize", "insert", "update"}
Passed  == {"key", "rpm", "rpd", "admit", "call"}

\* A failure of r is a row its session sees, or the one it is about to write.
FailuresVisible(r) ==
  /\ pc[r] \notin Finished =>
       \A p \in failed[r] : p \in Visible(r) \/ (pc[r] \in Writing /\ p = PK(r))
  /\ pc[r] = "update" => PK(r) \in Visible(r)

\* A candidate that passed the cooldown check has not failed for r.
PassedIsFresh(r) ==
  pc[r] \in Passed /\ ~route[r].sticky => \A p \in failed[r] : p[1] # route[r].model

\* What the session of r has inserted, or is about to, are failures of r.
FlushedIsFailed(r) ==
  /\ flushed[r] \subseteq failed[r]
  /\ pc[r] \in Writing => PK(r) \in failed[r]

\* The sticky path looks at a sticky route.
StickyPath(r) == pc[r] \in {"stickyModel", "stickyKey"} => route[r].sticky

LoopInv(r) == FailuresVisible(r) /\ PassedIsFresh(r) /\ FlushedIsFailed(r) /\ StickyPath(r)

Inductive == TypeInv /\ \A r \in Requests : LoopInv(r)

-----------------------------------------------------------------------------

\* The server starts with no request under way and empty tables.
LEMMA InitTypeInv == Init => TypeInv
  BY RequestAssumption, SentinelAssumption
  DEF Init, TypeInv, TypeOK, RouteOK, NoRoute, Phases, Holding, Routed

\* The exceptional end of a request keeps the types of everything it writes.
LEMMA RollbackType ==
  ASSUME TypeInv, NEW r \in Requests, NEW phase \in Finished, Rollback(r, phase), UNCHANGED walk
  PROVE  /\ pc' \in [Requests -> Phases]
         /\ conn' \in SUBSET Requests
         /\ flushed' \in [Requests -> SUBSET CooldownPK]
         /\ touched' \in [Requests -> SUBSET CooldownPK]
         /\ RouteOK'
  BY DEF TypeInv, TypeOK, RouteOK, Rollback, Goto, walk, Finished, Phases, Holding, Routed

\* Every action of a request keeps the type invariant.
LEMMA StepTypeInv ==
  ASSUME TypeInv, NEW r \in Requests, Step(r) \/ PoolTimeout(r) \/ Disconnect(r)
  PROVE  TypeInv'
<1> USE DEF TypeInv, TypeOK
<1>1. CASE Connect(r)
  BY <1>1 DEF Connect, RouteOK, walk, tables, config
<1>2. CASE PoolTimeout(r)
  BY <1>2, RollbackType DEF PoolTimeout, Finished, walk, tables, config
<1>3. CASE Select(r)
  <2>1. CASE pc' = [pc EXCEPT ![r] = "chain"] /\ UNCHANGED route
    BY <1>3, <2>1 DEF Select, RouteOK, tx, tables, config, Phases, Walking, Holding, Routed
  <2>2. ASSUME NEW m \in Models, pc' = [pc EXCEPT ![r] = "stickyModel"],
               route' = [route EXCEPT ![r] = [model |-> m, key |-> NoKey, sticky |-> TRUE]]
        PROVE  TypeInv'
    <3>1. /\ pc' \in [Requests -> Phases]
          /\ route' \in [Requests -> [model : Models \cup {NoModel}, key : Keys \cup {NoKey},
                                      sticky : BOOLEAN]]
      BY <2>2 DEF Phases, Walking
    <3>2. RouteOK'
      BY <2>2 DEF RouteOK, Phases, Walking, Holding, Routed
    <3>3. QED
      BY <1>3, <3>1, <3>2 DEF Select, tx, tables, config
  <2>3. QED
    BY <1>3, <2>1, <2>2 DEF Select, Goto
<1>4. CASE StickyModel(r)
  <2>1. sticky' \in [StickyKeys -> ModelIds \cup {NoModelId}]
    BY <1>4 DEF StickyModel, PopSticky
  <2>2. QED
    BY <1>4, <2>1 DEF StickyModel, RouteOK, Goto, walk, tx, tables, config,
                      Phases, Walking, Holding, Routed
<1>5. CASE StickyKey(r)
  <2>1. sticky' \in [StickyKeys -> ModelIds \cup {NoModelId}]
    BY <1>5 DEF StickyKey, PopSticky
  <2>2. CASE UNCHANGED route /\ Goto(r, "chain")
    BY <1>5, <2>1, <2>2 DEF StickyKey, RouteOK, Goto, tx, tables, config,
                            Phases, Walking, Holding, Routed
  <2>3. ASSUME NEW k \in enabled, route' = [route EXCEPT ![r].key = k], Goto(r, "admit")
        PROVE  TypeInv'
    <3>1. route' \in [Requests -> [model : Models \cup {NoModel}, key : Keys \cup {NoKey},
                                   sticky : BOOLEAN]]
      BY <2>3
    <3>2. RouteOK'
      BY <1>5, <2>3 DEF StickyKey, RouteOK, Goto, Holding, Routed
    <3>3. QED
      BY <1>5, <2>1, <2>3, <3>1, <3>2 DEF StickyKey, Goto, tx, tables, config, Phases, Walking
  <2>4. QED
    BY <1>5, <2>2, <2>3 DEF StickyKey
<1>6. CASE QueryChain(r)
  BY <1>6 DEF QueryChain, RouteOK, Goto, tx, tables, config, Phases, Walking, Holding, Routed
<1>7. CASE CheckProvider(r)
  <2>1. PICK f \in FirstRows(rows[r]) :
          /\ rows'  = [rows EXCEPT ![r] = @ \ {f}]
          /\ route' = [route EXCEPT ![r] = [model |-> RowModel[f], key |-> NoKey,
                                            sticky |-> FALSE]]
          /\ IF PlatformOf[RowModel[f]] \in registry THEN Goto(r, "cooldown") ELSE UNCHANGED pc
    BY <1>7 DEF CheckProvider
  <2>2. RowModel[f] \in Models
    BY <2>1, TableAssumption DEF FirstRows
  <2>3. route' \in [Requests -> [model : Models \cup {NoModel}, key : Keys \cup {NoKey},
                                 sticky : BOOLEAN]]
    BY <2>1, <2>2
  <2>4. pc' \in [Requests -> Phases] /\ rows' \in [Requests -> SUBSET FallbackRows]
    BY <2>1 DEF Goto, Phases, Walking
  <2>5. RouteOK'
    BY <1>7, <2>1, <2>2 DEF CheckProvider, RouteOK, Goto, Holding, Routed
  <2>6. QED
    BY <1>7, <2>3, <2>4, <2>5 DEF CheckProvider, tx, tables, config
<1>8. CASE CheckCooldown(r)
  BY <1>8, RollbackType DEF CheckCooldown, RouteOK, Goto, walk, tx, tables, config,
                            Phases, Walking, Finished, Holding, Routed
<1>9. CASE CheckKey(r)
  <2>1. CASE UNCHANGED route /\ Goto(r, "provider")
    BY <1>9, <2>1 DEF CheckKey, RouteOK, Goto, tx, tables, config,
                      Phases, Walking, Holding, Routed
  <2>2. ASSUME NEW k \in enabled, route' = [route EXCEPT ![r].key = k], Goto(r, "rpm")
        PROVE  TypeInv'
    <3>1. route' \in [Requests -> [model : Models \cup {NoModel}, key : Keys \cup {NoKey},
                                   sticky : BOOLEAN]]
      BY <2>2
    <3>2. RouteOK'
      BY <1>9, <2>2 DEF CheckKey, RouteOK, Goto, Holding, Routed
    <3>3. QED
      BY <1>9, <2>2, <3>1, <3>2 DEF CheckKey, Goto, tx, tables, config, Phases, Walking
  <2>3. QED
    BY <1>9, <2>1, <2>2 DEF CheckKey
<1>10. CASE CheckRpm(r)
  BY <1>10 DEF CheckRpm, RouteOK, Goto, walk, tx, tables, config, Phases, Walking, Holding, Routed
<1>11. CASE CheckRpd(r)
  BY <1>11 DEF CheckRpd, RouteOK, Goto, walk, tx, tables, config, Phases, Walking, Holding, Routed
<1>12. CASE Reject(r)
  BY <1>12, RollbackType DEF Reject, Finished, walk, tables, config
<1>13. CASE Admit(r)
  <2>1. ModelIdOf[route[r].model] \in ModelIds
    BY <1>13, TableAssumption DEF Admit, RouteOK, Routed
  <2>2. sticky' \in [StickyKeys -> ModelIds \cup {NoModelId}]
    BY <1>13, <2>1 DEF Admit, StickyValue
  <2>3. CASE Rollback(r, "crashed")
    BY <1>13, <2>2, <2>3, RollbackType DEF Admit, Finished, walk, tables, config
  <2>4. CASE Goto(r, "call") /\ UNCHANGED tx
    BY <1>13, <2>2, <2>4 DEF Admit, RouteOK, Goto, walk, tx, tables, config,
                             Phases, Walking, Holding, Routed
  <2>5. QED
    BY <1>13, <2>3, <2>4 DEF Admit
<1>14. CASE CallSucceeds(r)
  BY <1>14 DEF CallSucceeds, RouteOK, Goto, walk, tx, tables, config,
               Phases, Walking, Holding, Routed
<1>15. CASE CallFails(r)
  <2>1. PK(r) \in CooldownPK
    BY <1>15 DEF CallFails, PK, CooldownPK, RouteOK, Routed
  <2>2. sticky' \in [StickyKeys -> ModelIds \cup {NoModelId}]
    BY <1>15 DEF CallFails, PopSticky
  <2>3. failed' \in [Requests -> SUBSET CooldownPK]
    BY <1>15, <2>1 DEF CallFails
  <2>4. QED
    BY <1>15, <2>2, <2>3 DEF CallFails, RouteOK, Goto, tx, tables, config,
                             Phases, Walking, Holding, Routed
<1>16. CASE Penalize(r)
  BY <1>16 DEF Penalize, RouteOK, Goto, walk, tx, tables, config, Phases, Walking, Holding, Routed
<1>17. CASE FlushInsert(r)
  <2>1. PK(r) \in CooldownPK
    BY <1>17 DEF FlushInsert, PK, CooldownPK, RouteOK, Routed
  <2>2. CASE Rollback(r, "crashed")
    BY <1>17, <2>2, RollbackType DEF FlushInsert, Finished, walk, tables, config
  <2>3. CASE /\ flushed' = [flushed EXCEPT ![r] = @ \cup {PK(r)}]
             /\ AfterFlush(r)
             /\ UNCHANGED <<conn, touched>>
    BY <1>17, <2>1, <2>3 DEF FlushInsert, AfterFlush, RouteOK, Goto, walk, tables, config,
                             Phases, Walking, Holding, Routed
  <2>4. QED
    BY <1>17, <2>2, <2>3 DEF FlushInsert
<1>18. CASE FlushUpdate(r)
  <2>1. PK(r) \in CooldownPK
    BY <1>18 DEF FlushUpdate, PK, CooldownPK, RouteOK, Routed
  <2>2. QED
    BY <1>18, <2>1 DEF FlushUpdate, AfterFlush, RouteOK, Goto, walk, tables, config,
                       Phases, Walking, Holding, Routed
<1>19. CASE Commit(r)
  BY <1>19, RollbackType DEF Commit, Visible, Finished, walk, config
<1>20. CASE Disconnect(r)
  BY <1>20, RollbackType DEF Disconnect, Finished, walk, tables, config
<1>21. CASE DeadlockVictim(r)
  BY <1>21, RollbackType DEF DeadlockVictim, Finished, walk, tables, config
<1>22. QED
  BY <1>1, <1>2, <1>3, <1>4, <1>5, <1>6, <1>7, <1>8, <1>9, <1>10, <1>11, <1>12, <1>13,
     <1>14, <1>15, <1>16, <1>17, <1>18, <1>19, <1>20, <1>21 DEF Step

\* The rest of the program writes its own variables, and no request's.
LEMMA EnvironmentFrame ==
  ASSUME TypeInv, Environment
  PROVE  /\ UNCHANGED <<pc, walk, tx, cooldowns>>
         /\ TypeInv'
<1>1. CASE \E k \in Keys : ToggleKey(k) \/ ValidateKey(k)
  <2>1. /\ UNCHANGED <<pc, walk, tx, tables, sticky, registry, loading, live>> /\ Edit
        /\ enabled' \in SUBSET Keys /\ usable' \in SUBSET Keys
    BY <1>1 DEF TypeInv, TypeOK, ToggleKey, ValidateKey
  <2> QED BY <2>1, RequestAssumption DEF TypeInv, TypeOK, RouteOK, Edit, walk, tx, tables
<1>2. CASE \E f \in FallbackRows : ToggleRow(f)
  BY <1>2, RequestAssumption DEF TypeInv, TypeOK, RouteOK, Edit, ToggleRow, walk, tx, tables
<1>3. CASE ReloadStarts
  BY <1>3, RequestAssumption, TableAssumption
  DEF TypeInv, TypeOK, RouteOK, Edit, ReloadStarts, Registry!Empties, walk, tx, tables
<1>4. CASE \E l \in loading : ReloadEnds(l)
  BY <1>4, TableAssumption
  DEF TypeInv, TypeOK, RouteOK, ReloadEnds, Registry!Loads, walk, tx, tables
<1>5. CASE \E s \in StickyKeys : StickyExpires(s)
  BY <1>5 DEF TypeInv, TypeOK, RouteOK, StickyExpires, walk, tx, tables, config
<1>6. CASE \E p \in cooldowns : PenaltyLapses(p)
  BY <1>6, RequestAssumption DEF TypeInv, TypeOK, RouteOK, Edit, PenaltyLapses, walk, tx
<1>7. CASE \E q \in minute : MinutePasses(q)
  BY <1>7 DEF TypeInv, TypeOK, RouteOK, MinutePasses, walk, tx, config
<1>8. CASE \E q \in day : DayPasses(q)
  BY <1>8 DEF TypeInv, TypeOK, RouteOK, DayPasses, walk, tx, config
<1>9. QED
  BY <1>1, <1>2, <1>3, <1>4, <1>5, <1>6, <1>7, <1>8 DEF Environment

\* No step, of a request or of the environment, breaks the type invariant.
LEMMA NextTypeInv == TypeInv /\ [Next]_vars => TypeInv'
<1> SUFFICES ASSUME TypeInv, [Next]_vars PROVE TypeInv'
  OBVIOUS
<1>1. CASE UNCHANGED vars
  BY <1>1 DEF TypeInv, TypeOK, RouteOK, vars, walk, tx, tables, config
<1>2. CASE Next
  BY <1>2, StepTypeInv, EnvironmentFrame DEF Next
<1>3. QED
  BY <1>1, <1>2

\* The type invariant holds in every reachable state.
LEMMA AlwaysTypeInv == Spec => []TypeInv
  BY InitTypeInv, NextTypeInv, PTL DEF Spec

\* Every variable keeps its type, whatever requests, providers and administrators do.
THEOREM TypeCorrect == Spec => []TypeOK
<1>1. TypeInv => TypeOK
  BY DEF TypeInv
<1>2. QED
  BY <1>1, AlwaysTypeInv, PTL

-----------------------------------------------------------------------------
(* The loop: what a request has seen fail, and what its session shows it. *)

\* What LoopInv(q) reads of q is as before, and committed cooldowns stay.
SameRequest(q) ==
  /\ pc'[q] = pc[q] /\ route'[q] = route[q]
  /\ failed'[q] = failed[q] /\ flushed'[q] = flushed[q]
  /\ cooldowns \subseteq cooldowns'

\* A request whose loop state is untouched keeps its loop invariant.
LEMMA SameRequestLoopInv ==
  ASSUME NEW q \in Requests, LoopInv(q), SameRequest(q) PROVE LoopInv(q)'
  BY DEF LoopInv, SameRequest, FailuresVisible, PassedIsFresh, FlushedIsFailed, StickyPath, Visible, PK

\* A request touches the loop state of no other one.
LEMMA StepFrame ==
  ASSUME TypeInv, NEW r \in Requests, Step(r) \/ PoolTimeout(r) \/ Disconnect(r),
         NEW q \in Requests, q # r
  PROVE  SameRequest(q)
<1> USE DEF TypeInv, TypeOK, SameRequest, Goto, Rollback, walk, tx, tables
<1>1. CASE Connect(r) \/ PoolTimeout(r) \/ Select(r) \/ StickyModel(r) \/ StickyKey(r)
  BY <1>1 DEF Connect, PoolTimeout, Select, StickyModel, StickyKey
<1>2. CASE QueryChain(r) \/ CheckProvider(r) \/ CheckCooldown(r) \/ CheckKey(r)
  BY <1>2 DEF QueryChain, CheckProvider, CheckCooldown, CheckKey
<1>3. CASE CheckRpm(r) \/ CheckRpd(r) \/ Reject(r) \/ Admit(r)
  BY <1>3 DEF CheckRpm, CheckRpd, Reject, Admit
<1>4. CASE CallSucceeds(r) \/ CallFails(r) \/ Penalize(r)
  BY <1>4 DEF CallSucceeds, CallFails, Penalize
<1>5. CASE FlushInsert(r) \/ FlushUpdate(r)
  BY <1>5 DEF FlushInsert, FlushUpdate, AfterFlush
<1>6. CASE Commit(r)
  BY <1>6 DEF Commit, Visible
<1>7. CASE Disconnect(r) \/ DeadlockVictim(r)
  BY <1>7 DEF Disconnect, DeadlockVictim
<1>8. QED
  BY <1>1, <1>2, <1>3, <1>4, <1>5, <1>6, <1>7 DEF Step

\* A rollback ends the request: nothing is visible of it and nothing is asked of it.
LEMMA RollbackLoopInv ==
  ASSUME TypeInv, NEW r \in Requests, NEW phase \in Finished, Rollback(r, phase), UNCHANGED walk
  PROVE  LoopInv(r)'
  BY DEF TypeInv, TypeOK, Rollback, Goto, walk, LoopInv, FailuresVisible, PassedIsFresh,
         FlushedIsFailed, StickyPath, Finished, Writing, Passed

\* Steps that leave failures and session alone, and either keep the candidate or
\* have none yet.
LEMMA QuietLoopInv ==
  ASSUME TypeInv, NEW r \in Requests, LoopInv(r),
         failed' = failed, flushed' = flushed, cooldowns' = cooldowns,
         pc[r] \notin Finished \cup Writing, pc'[r] \notin Writing,
         \/ pc'[r] \notin Passed
         \/ route'[r].sticky
         \/ /\ pc[r] \in Passed /\ route'[r].model = route[r].model
            /\ route'[r].sticky = route[r].sticky,
         pc'[r] \in {"stickyModel", "stickyKey"} => route'[r].sticky
  PROVE  LoopInv(r)'
  BY DEF LoopInv, FailuresVisible, PassedIsFresh, FlushedIsFailed, StickyPath, Visible, Writing, Passed

\* Every action of a request keeps the loop invariant of that request.
LEMMA StepLoopInv ==
  ASSUME Inductive, NEW r \in Requests, Step(r) \/ PoolTimeout(r) \/ Disconnect(r)
  PROVE  LoopInv(r)'
<1>t. TypeInv /\ LoopInv(r)
  BY DEF Inductive
<1> USE <1>t DEF TypeInv, TypeOK, Goto, walk, tx, tables
<1>1. CASE Connect(r)
  BY <1>1, SameRequestLoopInv DEF Connect, SameRequest
<1>2. CASE \/ PoolTimeout(r) \/ Reject(r) \/ Disconnect(r) \/ DeadlockVictim(r)
  BY <1>2, RollbackLoopInv DEF PoolTimeout, Reject, Disconnect, DeadlockVictim, Finished
<1>3. CASE Select(r) \/ StickyModel(r) \/ QueryChain(r) \/ CheckProvider(r)
  <2>1. CASE Select(r) \/ QueryChain(r)
    BY <2>1, QuietLoopInv DEF Select, QueryChain, LoopInv, StickyPath, Finished, Writing, Passed
  <2>2. CASE StickyModel(r)
    BY <2>2, QuietLoopInv DEF StickyModel, LoopInv, StickyPath, Finished, Writing, Passed
  <2>3. CASE CheckProvider(r)
    <3>1. /\ pc[r] = "provider" /\ pc'[r] \in {"provider", "cooldown"}
          /\ UNCHANGED <<failed, flushed, cooldowns>>
      BY <2>3 DEF CheckProvider
    <3> QED BY <3>1, QuietLoopInv DEF Finished, Writing, Passed
  <2> QED BY <1>3, <2>1, <2>2, <2>3
<1>4. CASE StickyKey(r)
  <2>1. route[r].sticky
    BY <1>4 DEF StickyKey, LoopInv, StickyPath
  <2>2. route'[r].sticky
    BY <1>4, <2>1 DEF StickyKey
  <2>3. /\ failed' = failed /\ flushed' = flushed /\ cooldowns' = cooldowns
        /\ pc[r] = "stickyKey" /\ pc'[r] \in {"admit", "chain"}
    BY <1>4 DEF StickyKey
  <2>4. QED
    BY <2>2, <2>3, QuietLoopInv DEF Finished, Writing, Passed
<1>5. CASE CheckCooldown(r)
  <2>1. CASE Rollback(r, "crashed")
    BY <1>5, <2>1, RollbackLoopInv DEF CheckCooldown, Finished
  <2>2. CASE Goto(r, "provider") /\ UNCHANGED tx
    BY <1>5, <2>2, QuietLoopInv DEF CheckCooldown, Finished, Writing, Passed
  <2>3. CASE {p \in Visible(r) : p[1] = route[r].model} = {} /\ Goto(r, "key") /\ UNCHANGED tx
    <3>1. \A p \in failed[r] : p \in Visible(r)
      BY <1>5 DEF CheckCooldown, LoopInv, FailuresVisible, Finished, Writing
    <3>2. \A p \in failed[r] : p[1] # route[r].model
      BY <2>3, <3>1
    <3>3. QED
      BY <1>5, <2>3, <3>1, <3>2
      DEF CheckCooldown, LoopInv, FailuresVisible, PassedIsFresh, FlushedIsFailed, StickyPath, Visible,
          Finished, Writing
  <2>4. QED
    BY <1>5, <2>1, <2>2, <2>3 DEF CheckCooldown
<1>6. CASE CheckKey(r)
  BY <1>6, QuietLoopInv DEF CheckKey, Finished, Writing, Passed
<1>7. CASE CheckRpm(r) \/ CheckRpd(r) \/ CallSucceeds(r)
  BY <1>7, QuietLoopInv DEF CheckRpm, CheckRpd, CallSucceeds, Finished, Writing, Passed
<1>8. CASE Admit(r)
  <2>1. CASE Rollback(r, "crashed")
    BY <1>8, <2>1, RollbackLoopInv DEF Admit, Finished
  <2>2. CASE Goto(r, "call") /\ UNCHANGED tx
    BY <1>8, <2>2, QuietLoopInv DEF Admit, Finished, Writing, Passed
  <2>3. QED
    BY <1>8, <2>1, <2>2 DEF Admit
<1>9. CASE CallFails(r)
  BY <1>9 DEF CallFails, LoopInv, FailuresVisible, PassedIsFresh, FlushedIsFailed, StickyPath, Visible, PK,
              Finished, Writing, Passed
<1>10. CASE Penalize(r)
  BY <1>10 DEF Penalize, LoopInv, FailuresVisible, PassedIsFresh, FlushedIsFailed, StickyPath, Visible, PK,
               Finished, Writing, Passed
<1>11. CASE FlushInsert(r)
  <2>1. CASE Rollback(r, "crashed")
    BY <1>11, <2>1, RollbackLoopInv DEF FlushInsert, Finished
  <2>2. CASE flushed' = [flushed EXCEPT ![r] = @ \cup {PK(r)}] /\ AfterFlush(r)
    BY <1>11, <2>2 DEF FlushInsert, AfterFlush, LoopInv, FailuresVisible, PassedIsFresh,
                       FlushedIsFailed, StickyPath, Visible, PK, Finished, Writing, Passed
  <2>3. QED
    BY <1>11, <2>1, <2>2 DEF FlushInsert
<1>12. CASE FlushUpdate(r)
  <2>1. PK(r) \in Visible(r) /\ \A p \in failed[r] : p \in Visible(r)
    BY <1>12 DEF FlushUpdate, LoopInv, FailuresVisible, Finished, Writing
  <2>2. pc'[r] \in {"commit", "select"}
    BY <1>12 DEF FlushUpdate, AfterFlush
  <2>3. QED
    BY <1>12, <2>1, <2>2 DEF FlushUpdate, LoopInv, FailuresVisible, PassedIsFresh,
                             FlushedIsFailed, StickyPath, Visible, Finished, Writing, Passed
<1>13. CASE Commit(r)
  BY <1>13, RollbackLoopInv DEF Commit, Finished
<1>14. QED
  BY <1>1, <1>2, <1>3, <1>4, <1>5, <1>6, <1>7, <1>8, <1>9, <1>10, <1>11, <1>12, <1>13 DEF Step

\* A request that has not arrived has seen nothing fail.
LEMMA InitInductive == Init => Inductive
  BY InitTypeInv DEF Init, Inductive, LoopInv, FailuresVisible, PassedIsFresh, FlushedIsFailed,
                     StickyPath, Writing, Passed

\* No step breaks the loop invariant of any request.
LEMMA NextInductive == Inductive /\ [Next]_vars => Inductive'
<1> SUFFICES ASSUME Inductive, [Next]_vars PROVE Inductive'
  OBVIOUS
<1>1. TypeInv'
  BY NextTypeInv DEF Inductive
<1>2. ASSUME NEW q \in Requests PROVE LoopInv(q)'
  <2>1. CASE UNCHANGED vars \/ Environment
    <3>1. SameRequest(q)
      BY <2>1, EnvironmentFrame DEF Inductive, SameRequest, vars, walk, tx, tables
    <3>2. QED
      BY <3>1, SameRequestLoopInv DEF Inductive
  <2>2. ASSUME NEW r \in Requests, Step(r) \/ PoolTimeout(r) \/ Disconnect(r)
        PROVE  LoopInv(q)'
    <3>1. CASE q = r
      BY <2>2, <3>1, StepLoopInv
    <3>2. CASE q # r
      BY <2>2, <3>2, StepFrame, SameRequestLoopInv DEF Inductive
    <3>3. QED
      BY <3>1, <3>2
  <2>3. QED
    BY <2>1, <2>2 DEF Next
<1>3. QED
  BY <1>1, <1>2 DEF Inductive

\* The loop invariant holds in every reachable state.
LEMMA AlwaysInductive == Spec => []Inductive
  BY InitInductive, NextInductive, PTL DEF Spec

\* The walk never goes back to a model that failed for the same request, so the
\* "while True" of proxy/api.py makes at most one chain call per catalog row.
THEOREM NoRepeatAlways == Spec => []NoRepeat
<1>1. Inductive => NoRepeat
  BY DEF Inductive, LoopInv, PassedIsFresh, Passed, NoRepeat, FailedModels
<1>2. QED
  BY <1>1, AlwaysInductive, PTL

-----------------------------------------------------------------------------
(* Committed cooldowns are the failures of the answered requests. *)

\* At the start nothing is committed and nothing answered.
LEMMA InitCooldownsExact == Init => CooldownsExact
  BY DEF Init, CooldownsExact

\* Only Commit(r) commits cooldowns or makes a request answered.
LEMMA StepCommits ==
  ASSUME TypeInv, NEW r \in Requests, Step(r) \/ PoolTimeout(r) \/ Disconnect(r), ~Commit(r)
  PROVE  cooldowns' = cooldowns /\ pc[r] # "answered" /\ pc'[r] # "answered"
<1> USE DEF TypeInv, TypeOK, Goto, Rollback, tables
<1>1. CASE Connect(r) \/ PoolTimeout(r) \/ Select(r) \/ StickyModel(r) \/ StickyKey(r)
  BY <1>1 DEF Connect, PoolTimeout, Select, StickyModel, StickyKey
<1>2. CASE QueryChain(r) \/ CheckProvider(r) \/ CheckCooldown(r) \/ CheckKey(r)
  BY <1>2 DEF QueryChain, CheckProvider, CheckCooldown, CheckKey
<1>3. CASE CheckRpm(r) \/ CheckRpd(r) \/ Reject(r) \/ Admit(r)
  BY <1>3 DEF CheckRpm, CheckRpd, Reject, Admit
<1>4. CASE CallSucceeds(r) \/ CallFails(r) \/ Penalize(r)
  BY <1>4 DEF CallSucceeds, CallFails, Penalize
<1>5. CASE FlushInsert(r) \/ FlushUpdate(r)
  BY <1>5 DEF FlushInsert, FlushUpdate, AfterFlush
<1>6. CASE Disconnect(r) \/ DeadlockVictim(r)
  BY <1>6 DEF Disconnect, DeadlockVictim, Deadlocked, WaitsFor
<1>7. QED
  BY <1>1, <1>2, <1>3, <1>4, <1>5, <1>6 DEF Step

\* The commit of get_db adds the failures of the request it answers, and no others.
LEMMA NextCooldownsExact == CooldownsExact /\ Inductive /\ [Next]_vars => CooldownsExact'
<1> SUFFICES ASSUME CooldownsExact, Inductive, [Next]_vars PROVE CooldownsExact'
  OBVIOUS
<1> DEFINE Of(p) == \E q \in Requests : pc[q] = "answered" /\ p \in failed[q]
<1>1. \A p : p \in cooldowns <=> Of(p)
  BY DEF CooldownsExact
<1>2. SUFFICES \A p : p \in cooldowns' <=> Of(p)'
  BY DEF CooldownsExact
<1>3. CASE UNCHANGED vars \/ Environment
  BY <1>1, <1>3, EnvironmentFrame DEF Inductive, vars, walk, tx, tables
<1>4. ASSUME NEW r \in Requests, Step(r) \/ PoolTimeout(r) \/ Disconnect(r)
      PROVE  \A p : p \in cooldowns' <=> Of(p)'
  <2>1. \A q \in Requests \ {r} : pc'[q] = pc[q] /\ failed'[q] = failed[q]
    BY <1>4, StepFrame DEF Inductive, SameRequest
  <2>2. CASE Commit(r)
    <3>1. /\ cooldowns' = cooldowns \cup flushed[r]
          /\ pc[r] = "commit" /\ pc'[r] = "answered" /\ failed'[r] = failed[r]
      BY <2>2 DEF Commit, Rollback, Goto, Visible, walk, Inductive, TypeInv, TypeOK
    <3>2. flushed[r] \subseteq failed[r] /\ failed[r] \subseteq cooldowns \cup flushed[r]
      BY <3>1 DEF Inductive, LoopInv, FailuresVisible, FlushedIsFailed, Visible,
                  Finished, Writing
    <3>3. QED
      BY <1>1, <2>1, <3>1, <3>2
  <2>3. CASE ~Commit(r)
    <3>1. cooldowns' = cooldowns /\ pc[r] # "answered" /\ pc'[r] # "answered"
      BY <1>4, <2>3, StepCommits DEF Inductive
    <3>2. QED
      BY <1>1, <2>1, <3>1
  <2>4. QED
    BY <2>2, <2>3
<1>5. QED
  BY <1>3, <1>4 DEF Next

\* A cooldown is committed exactly when its failing request is answered: 429 and
\* 500 lose the failures they have seen, an answered request loses none.
THEOREM CooldownsExactAlways == Spec => []CooldownsExact
  BY AlwaysInductive, InitCooldownsExact, NextCooldownsExact, PTL DEF Spec

-----------------------------------------------------------------------------
(* Sticky entries are backed by a request that chose them. *)

Backing == {"call", "commit", "answered"}

\* A request that backs an entry goes on backing it, unless its call fails.
LEMMA StepBacking ==
  ASSUME TypeInv, Streams = {}, NEW r \in Requests, pc[r] \in Backing, ~CallFails(r),
         Step(r) \/ PoolTimeout(r) \/ Disconnect(r)
  PROVE  pc'[r] \in Backing /\ route'[r] = route[r] /\ UNCHANGED sticky
<1>1. \/ CallSucceeds(r) \/ Commit(r)
  BY DEF Backing, Step, Connect, PoolTimeout, Select, StickyModel, StickyKey, QueryChain,
         CheckProvider, CheckCooldown, CheckKey, CheckRpm, CheckRpd, Reject, Admit, Penalize,
         FlushInsert, FlushUpdate, Disconnect, DeadlockVictim, Deadlocked, WaitsFor
<1>2. QED
  BY <1>1 DEF CallSucceeds, Commit, Rollback, Goto, walk, TypeInv, TypeOK, Backing

\* Without streams and with keys that decrypt, no failed call leaves its model in
\* the sticky dictionary: the entry of a request that failed is gone by then.
THEOREM StickyBackedAlways ==
  ASSUME Streams = {}, Undecryptable = {}
  PROVE  Spec => []StickyBacked
<1>1. Init => StickyBacked
  BY DEF Init, StickyBacked
<1>2. StickyBacked /\ TypeInv /\ [Next]_vars => StickyBacked'
  <2> SUFFICES ASSUME StickyBacked, TypeInv, [Next]_vars, NEW s \in StickyKeys,
                      sticky'[s] # NoModelId
               PROVE  \E q \in Requests :
                        /\ StickyKeyOf[q] = s /\ pc'[q] \in Backing
                        /\ ModelIdOf[route'[q].model] = sticky'[s]
    BY DEF StickyBacked, Backing
  <2>1. CASE sticky'[s] = sticky[s]
    <3>1. PICK q \in Requests : /\ StickyKeyOf[q] = s /\ pc[q] \in Backing
                                /\ ModelIdOf[route[q].model] = sticky[s]
      BY <2>1 DEF StickyBacked, Backing
    <3>2. CASE UNCHANGED vars \/ Environment
      BY <2>1, <3>1, <3>2, EnvironmentFrame DEF vars, walk
    <3>3. ASSUME NEW r \in Requests, Step(r) \/ PoolTimeout(r) \/ Disconnect(r), q # r
          PROVE  pc'[q] = pc[q] /\ route'[q] = route[q]
      BY <3>3, StepFrame DEF SameRequest
    <3>4. ASSUME Step(q) \/ PoolTimeout(q) \/ Disconnect(q)
          PROVE  pc'[q] \in Backing /\ route'[q] = route[q]
      <4>1. ~CallFails(q)
        BY <3>1 DEF CallFails, PopSticky
      <4>2. QED
        BY <3>1, <3>4, <4>1, StepBacking
    <3>5. QED
      BY <2>1, <3>1, <3>2, <3>3, <3>4 DEF Next
  <2>2. CASE sticky'[s] # sticky[s]
    <3>1. PICK r \in Requests : Admit(r)
      <4>1. ~UNCHANGED vars
        BY <2>2 DEF vars
      <4>2. ~Environment
        BY <2>2 DEF Environment, ToggleKey, ValidateKey, ToggleRow, ReloadStarts, ReloadEnds,
                    StickyExpires, PenaltyLapses, MinutePasses, DayPasses, TypeInv, TypeOK
      <4>3. QED
        BY <2>2, <4>1, <4>2, ZenonT(40)
        DEF Next, Step, Connect, PoolTimeout, Select, StickyModel, StickyKey, QueryChain,
            CheckProvider, CheckCooldown, CheckKey, CheckRpm, CheckRpd, Reject, CallSucceeds,
            CallFails, Penalize, FlushInsert, FlushUpdate, Commit, Disconnect, DeadlockVictim,
            PopSticky, TypeInv, TypeOK
    <3>2. StickyKeyOf[r] = s /\ sticky'[s] = ModelIdOf[route[r].model]
      BY <2>2, <3>1 DEF Admit, StickyValue, TypeInv, TypeOK
    <3>3. pc'[r] = "call" /\ route' = route
      BY <3>1 DEF Admit, Goto, walk, TypeInv, TypeOK
    <3>4. QED
      BY <3>2, <3>3 DEF Backing
  <2>3. QED
    BY <2>1, <2>2
<1>3. QED
  BY <1>1, <1>2, AlwaysTypeInv, PTL DEF Spec

-----------------------------------------------------------------------------
(***************************************************************************)
(* How far concurrent requests can exceed a rate limit: a call that passed *)
(* the check is counted as load of its window until it is committed or has *)
(* failed, and every such call holds a connection of the pool.             *)
(***************************************************************************)

InSession == {"stickyKey", "provider", "cooldown", "key", "rpm", "rpd", "admit", "call",
              "penalize", "insert", "update", "commit"}

\* Requests past their first query hold a connection, and there are PoolSize of them.
ConnInv ==
  /\ Cardinality(conn) <= PoolSize
  /\ \A r \in Requests : pc[r] \in InSession => r \in conn

\* Only answered requests have usage rows.
WindowInv == \A q \in minute \cup day : pc[q] = "answered"

\* Requests past the check, in one of the phases, that may still record a usage row.
Admitted(phases, m, k) ==
  {q \in conn : /\ pc[q] \in phases \/ (pc[q] = "commit" /\ q \notin Streams)
                /\ route[q].model = m /\ route[q].key = k /\ ~route[q].sticky}

PastRpm == {"rpd", "admit", "call"}
PastRpd == {"admit", "call"}

MinuteLoad(m, k) == ChainUse(minute, m, k) \cup Admitted(PastRpm, m, k)
DayLoad(m, k)    == ChainUse(day, m, k) \cup Admitted(PastRpd, m, k)

LoadInv ==
  \A m \in Models, k \in Keys :
    /\ Rpm[m] > 0 => Cardinality(MinuteLoad(m, k)) <= Rpm[m] + PoolSize - 1
    /\ Rpd[m] > 0 => Cardinality(DayLoad(m, k)) <= Rpd[m] + PoolSize - 1

LimitInv == ConnInv /\ WindowInv /\ LoadInv

-----------------------------------------------------------------------------
(* Cardinalities *)

\* A part of a set of requests has at most as many members.
LEMMA SubsetCardinality ==
  ASSUME NEW S \in SUBSET Requests, NEW T \in SUBSET S
  PROVE  Cardinality(T) \in Nat /\ Cardinality(S) \in Nat /\ Cardinality(T) <= Cardinality(S)
  BY RequestAssumption, FS_Subset, FS_CardinalityType

\* Two sets of requests together have at most the sum of their members.
LEMMA UnionCardinality ==
  ASSUME NEW S \in SUBSET Requests, NEW T \in SUBSET Requests
  PROVE  Cardinality(S \cup T) <= Cardinality(S) + Cardinality(T)
<1>1. IsFiniteSet(S) /\ IsFiniteSet(T) /\ IsFiniteSet(S \cap T)
  BY RequestAssumption, FS_Subset
<1>2. Cardinality(S \cup T) = Cardinality(S) + Cardinality(T) - Cardinality(S \cap T)
  BY <1>1, FS_Union
<1>3. QED
  BY <1>1, <1>2, FS_CardinalityType

-----------------------------------------------------------------------------

\* At the start no connection is taken and no usage recorded.
LEMMA InitLimitInv == Init => LimitInv
<1> SUFFICES ASSUME Init PROVE LimitInv
  OBVIOUS
<1>1. ConnInv /\ WindowInv
  <2>1. Cardinality(conn) = 0 /\ minute \cup day = {}
    BY FS_EmptySet DEF Init
  <2>2. \A r \in Requests : pc[r] = "arrived"
    BY DEF Init
  <2>3. Cardinality(conn) <= PoolSize
    BY <2>1, RequestAssumption
  <2>4. QED
    BY <2>1, <2>2, <2>3 DEF ConnInv, WindowInv, InSession
<1>2. ASSUME NEW m \in Models, NEW k \in Keys
      PROVE  MinuteLoad(m, k) = {} /\ DayLoad(m, k) = {}
  BY DEF Init, MinuteLoad, DayLoad, ChainUse, Admitted
<1>3. LoadInv
  <2>1. ASSUME NEW m \in Models, NEW k \in Keys
        PROVE  /\ Cardinality(MinuteLoad(m, k)) = 0 /\ Cardinality(DayLoad(m, k)) = 0
               /\ Rpm[m] \in Nat /\ Rpd[m] \in Nat
    BY <1>2, FS_EmptySet, TableAssumption
  <2>2. QED
    BY <2>1, RequestAssumption DEF LoadInv
<1>4. QED
  BY <1>1, <1>3 DEF LimitInv

\* A step of r takes at most one connection, its own, and only while one is free; it
\* adds at most its own usage row, when it commits.
LEMMA StepConn ==
  ASSUME TypeInv, ConnInv, NEW r \in Requests, Step(r) \/ PoolTimeout(r) \/ Disconnect(r)
  PROVE  /\ conn' \subseteq conn \cup {r}
         /\ conn' \subseteq conn \/ Cardinality(conn) < PoolSize
         /\ conn \ {r} \subseteq conn'
         /\ pc'[r] \in InSession => r \in conn'
         /\ minute' \subseteq minute \cup {r} /\ day' \subseteq day \cup {r}
         /\ ~Commit(r) => minute' = minute /\ day' = day
         /\ pc[r] # "answered"
<1> USE DEF TypeInv, TypeOK, ConnInv, InSession, Goto, Rollback, tx, tables
<1>1. CASE Connect(r) \/ PoolTimeout(r) \/ Select(r) \/ StickyModel(r) \/ StickyKey(r)
  BY <1>1 DEF Connect, PoolTimeout, Select, StickyModel, StickyKey
<1>2. CASE QueryChain(r) \/ CheckProvider(r) \/ CheckCooldown(r) \/ CheckKey(r)
  BY <1>2 DEF QueryChain, CheckProvider, CheckCooldown, CheckKey
<1>3. CASE CheckRpm(r) \/ CheckRpd(r) \/ Reject(r) \/ Admit(r)
  BY <1>3 DEF CheckRpm, CheckRpd, Reject, Admit
<1>4. CASE CallSucceeds(r) \/ CallFails(r) \/ Penalize(r)
  BY <1>4 DEF CallSucceeds, CallFails, Penalize
<1>5. CASE FlushInsert(r) \/ FlushUpdate(r)
  BY <1>5 DEF FlushInsert, FlushUpdate, AfterFlush
<1>6. CASE Commit(r)
  BY <1>6 DEF Commit
<1>7. CASE Disconnect(r) \/ DeadlockVictim(r)
  BY <1>7 DEF Disconnect, DeadlockVictim, Deadlocked, WaitsFor
<1>8. QED
  BY <1>1, <1>2, <1>3, <1>4, <1>5, <1>6, <1>7 DEF Step

\* Commit records the usage of plain requests only, and answers.
LEMMA CommitUse ==
  ASSUME TypeInv, NEW r \in Requests, Commit(r)
  PROVE  /\ pc[r] = "commit" /\ pc'[r] = "answered" /\ route' = route
         /\ r \in Streams => minute' = minute /\ day' = day
  BY DEF Commit, Rollback, Goto, walk, TypeInv, TypeOK

\* How a request comes to be past a check: through the check, or on from there.
LEMMA StepAdmitted ==
  ASSUME Inductive, NEW r \in Requests, Step(r) \/ PoolTimeout(r) \/ Disconnect(r),
         pc'[r] \in PastRpm \/ (pc'[r] = "commit" /\ r \notin Streams),
         ~route'[r].sticky
  PROVE  /\ route'[r] = route[r]
         /\ \/ CheckRpm(r) /\ pc'[r] = "rpd" /\ UnderLimit(Rpm[route[r].model], minute, r)
            \/ CheckRpd(r) /\ pc'[r] = "admit" /\ UnderLimit(Rpd[route[r].model], day, r)
            \/ pc[r] = "admit" /\ pc'[r] = "call"
            \/ pc[r] = "call" /\ pc'[r] = "commit"
<1>1. TypeInv /\ StickyPath(r)
  BY DEF Inductive, LoopInv
<1> USE <1>1 DEF TypeInv, TypeOK, PastRpm, Goto, Rollback, walk
<1>2. CASE Connect(r) \/ PoolTimeout(r) \/ Select(r) \/ StickyModel(r)
  BY <1>2 DEF Connect, PoolTimeout, Select, StickyModel
<1>3. CASE StickyKey(r)
  <2>1. route[r].sticky
    BY <1>3 DEF StickyKey, StickyPath
  <2>2. route'[r].sticky
    BY <1>3, <2>1 DEF StickyKey
  <2>3. QED
    BY <2>2
<1>4. CASE QueryChain(r) \/ CheckProvider(r) \/ CheckCooldown(r) \/ CheckKey(r)
  BY <1>4 DEF QueryChain, CheckProvider, CheckCooldown, CheckKey
<1>5. CASE CheckRpm(r) \/ CheckRpd(r) \/ Reject(r) \/ Admit(r)
  BY <1>5 DEF CheckRpm, CheckRpd, Reject, Admit
<1>6. CASE CallSucceeds(r) \/ CallFails(r) \/ Penalize(r)
  BY <1>6 DEF CallSucceeds, CallFails, Penalize
<1>7. CASE FlushInsert(r) \/ FlushUpdate(r) \/ Commit(r)
  BY <1>7 DEF FlushInsert, FlushUpdate, AfterFlush, Commit
<1>8. CASE Disconnect(r) \/ DeadlockVictim(r)
  BY <1>8 DEF Disconnect, DeadlockVictim
<1>9. QED
  BY <1>2, <1>3, <1>4, <1>5, <1>6, <1>7, <1>8 DEF Step

\* Load of the minute window grows only by a check that saw the window under the limit.
LEMMA StepMinuteLoad ==
  ASSUME Inductive, ConnInv, WindowInv, NEW m \in Models, NEW k \in Keys, NEW r \in Requests,
         Step(r) \/ PoolTimeout(r) \/ Disconnect(r)
  PROVE  \/ MinuteLoad(m, k)' \subseteq MinuteLoad(m, k)
         \/ /\ CheckRpm(r) /\ PK(r) = <<m, k>> /\ UnderLimit(Rpm[m], minute, r)
            /\ minute' = minute /\ UNCHANGED <<route, conn>>
<1> DEFINE Pass == /\ CheckRpm(r) /\ PK(r) = <<m, k>> /\ UnderLimit(Rpm[m], minute, r)
                   /\ minute' = minute /\ UNCHANGED <<route, conn>>
<1>t. TypeInv
  BY DEF Inductive
<1> SUFFICES ASSUME ~Pass, NEW q \in MinuteLoad(m, k)' PROVE q \in MinuteLoad(m, k)
  OBVIOUS
<1>1. q \in Requests
  BY <1>t, NextTypeInv DEF MinuteLoad, ChainUse, Admitted, TypeInv, TypeOK, Next
<1>2. CASE q # r
  <2>1. pc'[q] = pc[q] /\ route'[q] = route[q]
    BY <1>1, <1>2, <1>t, StepFrame DEF SameRequest
  <2>2. (q \in conn' => q \in conn) /\ (q \in minute' => q \in minute)
    BY <1>2, <1>t, StepConn
  <2>3. QED
    BY <2>1, <2>2 DEF MinuteLoad, ChainUse, Admitted
<1>3. CASE q = r
  <2>1. CASE r \in minute'
    <3>1. Commit(r) /\ r \in conn
      BY <2>1, <1>t, StepConn, CommitUse DEF WindowInv, ConnInv, InSession
    <3>2. pc[r] = "commit" /\ r \notin Streams /\ route' = route
      BY <2>1, <3>1, <1>t, CommitUse, StepConn DEF WindowInv
    <3>3. route'[r].model = m /\ route'[r].key = k /\ ~route'[r].sticky
      BY <1>3 DEF MinuteLoad, ChainUse, Admitted
    <3>4. QED
      BY <1>3, <3>1, <3>2, <3>3 DEF MinuteLoad, Admitted
  <2>2. CASE r \notin minute'
    <3>1. /\ pc'[r] \in PastRpm \/ (pc'[r] = "commit" /\ r \notin Streams)
          /\ route'[r].model = m /\ route'[r].key = k /\ ~route'[r].sticky
      BY <1>3, <2>2 DEF MinuteLoad, ChainUse, Admitted
    <3>2. /\ route'[r] = route[r]
          /\ CheckRpm(r) => PK(r) = <<m, k>> /\ UnderLimit(Rpm[m], minute, r)
          /\ \/ CheckRpm(r)
             \/ pc[r] \in {"rpd", "admit"}
             \/ pc[r] = "call" /\ pc'[r] = "commit"
      BY <3>1, StepAdmitted DEF CheckRpd, CheckRpm, PK
    <3>3. ~CheckRpm(r)
      BY <3>2 DEF CheckRpm, walk, tx, tables
    <3>4. pc[r] \in PastRpm /\ r \in conn
      BY <3>2, <3>3 DEF PastRpm, ConnInv, InSession
    <3>5. QED
      BY <1>3, <3>1, <3>2, <3>4 DEF MinuteLoad, Admitted
  <2>3. QED
    BY <2>1, <2>2
<1>4. QED
  BY <1>2, <1>3

\* The same for the window of a day.
LEMMA StepDayLoad ==
  ASSUME Inductive, ConnInv, WindowInv, NEW m \in Models, NEW k \in Keys, NEW r \in Requests,
         Step(r) \/ PoolTimeout(r) \/ Disconnect(r)
  PROVE  \/ DayLoad(m, k)' \subseteq DayLoad(m, k)
         \/ /\ CheckRpd(r) /\ PK(r) = <<m, k>> /\ UnderLimit(Rpd[m], day, r)
            /\ day' = day /\ UNCHANGED <<route, conn>>
<1> DEFINE Pass == /\ CheckRpd(r) /\ PK(r) = <<m, k>> /\ UnderLimit(Rpd[m], day, r)
                   /\ day' = day /\ UNCHANGED <<route, conn>>
<1>t. TypeInv
  BY DEF Inductive
<1> SUFFICES ASSUME ~Pass, NEW q \in DayLoad(m, k)' PROVE q \in DayLoad(m, k)
  OBVIOUS
<1>1. q \in Requests
  BY <1>t, NextTypeInv DEF DayLoad, ChainUse, Admitted, TypeInv, TypeOK, Next
<1>2. CASE q # r
  <2>1. pc'[q] = pc[q] /\ route'[q] = route[q]
    BY <1>1, <1>2, <1>t, StepFrame DEF SameRequest
  <2>2. (q \in conn' => q \in conn) /\ (q \in day' => q \in day)
    BY <1>2, <1>t, StepConn
  <2>3. QED
    BY <2>1, <2>2 DEF DayLoad, ChainUse, Admitted
<1>3. CASE q = r
  <2>1. CASE r \in day'
    <3>1. Commit(r) /\ r \in conn
      BY <2>1, <1>t, StepConn, CommitUse DEF WindowInv, ConnInv, InSession
    <3>2. pc[r] = "commit" /\ r \notin Streams /\ route' = route
      BY <2>1, <3>1, <1>t, CommitUse, StepConn DEF WindowInv
    <3>3. route'[r].model = m /\ route'[r].key = k /\ ~route'[r].sticky
      BY <1>3 DEF DayLoad, ChainUse, Admitted
    <3>4. QED
      BY <1>3, <3>1, <3>2, <3>3 DEF DayLoad, Admitted
  <2>2. CASE r \notin day'
    <3>1. /\ pc'[r] \in PastRpd \/ (pc'[r] = "commit" /\ r \notin Streams)
          /\ route'[r].model = m /\ route'[r].key = k /\ ~route'[r].sticky
      BY <1>3, <2>2 DEF DayLoad, ChainUse, Admitted
    <3>2. /\ route'[r] = route[r]
          /\ CheckRpd(r) => PK(r) = <<m, k>> /\ UnderLimit(Rpd[m], day, r)
          /\ \/ CheckRpd(r)
             \/ pc[r] = "admit"
             \/ pc[r] = "call" /\ pc'[r] = "commit"
      BY <3>1, StepAdmitted DEF CheckRpd, CheckRpm, PastRpm, PastRpd, PK
    <3>3. ~CheckRpd(r)
      BY <3>2 DEF CheckRpd, walk, tx, tables
    <3>4. pc[r] \in PastRpd /\ r \in conn
      BY <3>2, <3>3 DEF PastRpd, ConnInv, InSession
    <3>5. QED
      BY <1>3, <3>1, <3>2, <3>4 DEF DayLoad, Admitted
  <2>3. QED
    BY <2>1, <2>2
<1>4. QED
  BY <1>2, <1>3

\* A window under the limit and a full pool are at most limit + PoolSize - 1 requests.
LEMMA PassBound ==
  ASSUME TypeInv, ConnInv, NEW m \in Models, NEW k \in Keys, NEW limit \in Nat, limit > 0,
         NEW r \in Requests, PK(r) = <<m, k>>, NEW window \in SUBSET Requests,
         UnderLimit(limit, window, r),
         NEW L, L \subseteq ChainUse(window, m, k) \cup conn
  PROVE  Cardinality(L) <= limit + PoolSize - 1
<1> DEFINE U == ChainUse(window, m, k)
<1>1. /\ U \in SUBSET Used(window, r) /\ Used(window, r) \in SUBSET Requests
      /\ conn \in SUBSET Requests /\ U \in SUBSET Requests
  BY DEF ChainUse, Used, PK, TypeInv, TypeOK
<1>2. Cardinality(Used(window, r)) < limit
  BY DEF UnderLimit
<1>3. /\ Cardinality(U) \in Nat /\ Cardinality(Used(window, r)) \in Nat
      /\ Cardinality(U) <= Cardinality(Used(window, r))
  BY <1>1, SubsetCardinality
<1>4. /\ Cardinality(L) \in Nat /\ Cardinality(U \cup conn) \in Nat
      /\ Cardinality(L) <= Cardinality(U \cup conn)
  <2>1. U \cup conn \in SUBSET Requests /\ L \in SUBSET (U \cup conn)
    BY <1>1
  <2>2. QED
    BY <2>1, SubsetCardinality
<1>5. Cardinality(U \cup conn) <= Cardinality(U) + Cardinality(conn)
  BY <1>1, UnionCardinality
<1>6. Cardinality(conn) \in Nat /\ Cardinality(conn) <= PoolSize /\ PoolSize \in Nat
  BY <1>1, SubsetCardinality, RequestAssumption DEF ConnInv
<1>7. QED
  BY <1>2, <1>3, <1>4, <1>5, <1>6

\* Every action of a request keeps the limit invariant.
LEMMA StepLimitInv ==
  ASSUME Inductive, LimitInv, NEW r \in Requests, Step(r) \/ PoolTimeout(r) \/ Disconnect(r)
  PROVE  LimitInv'
<1>1. TypeInv /\ ConnInv /\ WindowInv /\ LoadInv
  BY DEF Inductive, LimitInv
<1>2. TypeInv'
  BY <1>1, NextTypeInv DEF Next
<1>3. ConnInv'
  <2>1. Cardinality(conn') <= PoolSize
    <3>1. conn \in SUBSET Requests /\ IsFiniteSet(conn)
      BY <1>1, RequestAssumption, FS_Subset DEF TypeInv, TypeOK
    <3>2. CASE conn' \subseteq conn
      <4>1. conn' \in SUBSET conn
        BY <3>2
      <4>2. /\ Cardinality(conn') \in Nat /\ Cardinality(conn) \in Nat
            /\ Cardinality(conn') <= Cardinality(conn)
        BY <3>1, <4>1, SubsetCardinality
      <4>3. QED
        BY <1>1, <4>2, RequestAssumption, SMT DEF ConnInv
    <3>3. CASE Cardinality(conn) < PoolSize
      <4>1. Cardinality(conn \cup {r}) <= Cardinality(conn) + 1 /\ Cardinality(conn) \in Nat
        <5>1. Cardinality({r}) = 1
          BY FS_Singleton
        <5>2. Cardinality(conn \cup {r}) <= Cardinality(conn) + Cardinality({r})
          BY <3>1, UnionCardinality
        <5>3. QED
          BY <3>1, <5>1, <5>2, FS_CardinalityType
      <4>2. Cardinality(conn') <= Cardinality(conn \cup {r}) /\ Cardinality(conn') \in Nat
            /\ Cardinality(conn \cup {r}) \in Nat
        <5>1. conn \cup {r} \in SUBSET Requests /\ conn' \in SUBSET (conn \cup {r})
          BY <1>1, <3>1, StepConn
        <5>2. QED
          BY <5>1, SubsetCardinality
      <4>3. QED
        BY <3>3, <4>1, <4>2, RequestAssumption
    <3>4. QED
      BY <1>1, <3>2, <3>3, StepConn
  <2>2. ASSUME NEW q \in Requests, pc'[q] \in InSession PROVE q \in conn'
    <3>1. CASE q = r
      BY <1>1, <2>2, <3>1, StepConn
    <3>2. CASE q # r
      BY <1>1, <2>2, <3>2, StepConn, StepFrame DEF ConnInv, SameRequest
    <3>3. QED
      BY <3>1, <3>2
  <2>3. QED
    BY <2>1, <2>2 DEF ConnInv
<1>4. WindowInv'
  <2> SUFFICES ASSUME NEW q \in (minute \cup day)' PROVE pc'[q] = "answered"
    BY DEF WindowInv
  <2>1. q \in Requests
    BY <1>2 DEF TypeInv, TypeOK
  <2>2. CASE q = r
    BY <1>1, <2>2, StepConn, CommitUse DEF WindowInv
  <2>3. CASE q # r
    BY <1>1, <2>1, <2>3, StepConn, StepFrame DEF WindowInv, SameRequest
  <2>4. QED
    BY <2>2, <2>3
<1>5. ASSUME NEW m \in Models, NEW k \in Keys, Rpm[m] > 0
      PROVE  Cardinality(MinuteLoad(m, k)') <= Rpm[m] + PoolSize - 1
  <2>1. Rpm[m] \in Nat /\ MinuteLoad(m, k) \in SUBSET Requests /\ minute \in SUBSET Requests
    BY <1>1, TableAssumption DEF MinuteLoad, ChainUse, Admitted, TypeInv, TypeOK
  <2>2. CASE MinuteLoad(m, k)' \subseteq MinuteLoad(m, k)
    <3>1. Cardinality(MinuteLoad(m, k)') <= Cardinality(MinuteLoad(m, k))
          /\ Cardinality(MinuteLoad(m, k)') \in Nat /\ Cardinality(MinuteLoad(m, k)) \in Nat
      BY <2>1, <2>2, SubsetCardinality
    <3>2. QED
      BY <1>1, <1>5, <2>1, <3>1, RequestAssumption DEF LoadInv
  <2>3. CASE /\ PK(r) = <<m, k>> /\ UnderLimit(Rpm[m], minute, r)
             /\ minute' = minute /\ UNCHANGED <<route, conn>>
    <3>1. MinuteLoad(m, k)' \subseteq ChainUse(minute, m, k) \cup conn
      BY <2>3 DEF MinuteLoad, ChainUse, Admitted
    <3>2. QED
      BY <1>1, <1>5, <2>1, <2>3, <3>1, PassBound
  <2>4. QED
    BY <1>1, <2>2, <2>3, StepMinuteLoad
<1>6. ASSUME NEW m \in Models, NEW k \in Keys, Rpd[m] > 0
      PROVE  Cardinality(DayLoad(m, k)') <= Rpd[m] + PoolSize - 1
  <2>1. Rpd[m] \in Nat /\ DayLoad(m, k) \in SUBSET Requests /\ day \in SUBSET Requests
    BY <1>1, TableAssumption DEF DayLoad, ChainUse, Admitted, TypeInv, TypeOK
  <2>2. CASE DayLoad(m, k)' \subseteq DayLoad(m, k)
    <3>1. Cardinality(DayLoad(m, k)') <= Cardinality(DayLoad(m, k))
          /\ Cardinality(DayLoad(m, k)') \in Nat /\ Cardinality(DayLoad(m, k)) \in Nat
      BY <2>1, <2>2, SubsetCardinality
    <3>2. QED
      BY <1>1, <1>6, <2>1, <3>1, RequestAssumption DEF LoadInv
  <2>3. CASE /\ PK(r) = <<m, k>> /\ UnderLimit(Rpd[m], day, r)
             /\ day' = day /\ UNCHANGED <<route, conn>>
    <3>1. DayLoad(m, k)' \subseteq ChainUse(day, m, k) \cup conn
      BY <2>3 DEF DayLoad, ChainUse, Admitted
    <3>2. QED
      BY <1>1, <1>6, <2>1, <2>3, <3>1, PassBound
  <2>4. QED
    BY <1>1, <2>2, <2>3, StepDayLoad
<1>7. QED
  BY <1>3, <1>4, <1>5, <1>6 DEF LimitInv, LoadInv

\* The windows of the rest of the program only slide.
LEMMA EnvironmentWindows ==
  ASSUME Environment PROVE minute' \subseteq minute /\ day' \subseteq day
  BY DEF Environment, ToggleKey, ValidateKey, ToggleRow, ReloadStarts, ReloadEnds,
         StickyExpires, PenaltyLapses, MinutePasses, DayPasses, tables

\* No step breaks the limit invariant: the environment only empties the windows.
LEMMA NextLimitInv == LimitInv /\ Inductive /\ [Next]_vars => LimitInv'
<1> SUFFICES ASSUME LimitInv, Inductive, [Next]_vars PROVE LimitInv'
  OBVIOUS
<1>1. CASE UNCHANGED vars \/ Environment
  <2>1. /\ UNCHANGED <<pc, route, conn>>
        /\ minute' \subseteq minute /\ day' \subseteq day
    BY <1>1, EnvironmentFrame, EnvironmentWindows DEF Inductive, vars, walk, tx, tables
  <2>2. ConnInv' /\ WindowInv'
    BY <2>1 DEF LimitInv, ConnInv, WindowInv
  <2>3. ASSUME NEW m \in Models, NEW k \in Keys
        PROVE  /\ MinuteLoad(m, k) \in SUBSET Requests /\ DayLoad(m, k) \in SUBSET Requests
               /\ MinuteLoad(m, k)' \in SUBSET MinuteLoad(m, k)
               /\ DayLoad(m, k)' \in SUBSET DayLoad(m, k)
               /\ Rpm[m] \in Nat /\ Rpd[m] \in Nat
    BY <2>1, TableAssumption DEF MinuteLoad, DayLoad, ChainUse, Admitted, Inductive, TypeInv, TypeOK
  <2>4. LoadInv'
    <3>1. ASSUME NEW m \in Models, NEW k \in Keys
          PROVE  /\ Cardinality(MinuteLoad(m, k)') <= Cardinality(MinuteLoad(m, k))
                 /\ Cardinality(DayLoad(m, k)') <= Cardinality(DayLoad(m, k))
                 /\ Cardinality(MinuteLoad(m, k)') \in Nat /\ Cardinality(MinuteLoad(m, k)) \in Nat
                 /\ Cardinality(DayLoad(m, k)') \in Nat /\ Cardinality(DayLoad(m, k)) \in Nat
      BY <2>3, SubsetCardinality
    <3>2. QED
      BY <2>3, <3>1, RequestAssumption DEF LimitInv, LoadInv
  <2>5. QED
    BY <2>2, <2>4 DEF LimitInv
<1>2. CASE Next /\ ~Environment
  BY <1>2, StepLimitInv DEF Next
<1>3. QED
  BY <1>1, <1>2

\* The limit invariant holds in every reachable state.
LEMMA AlwaysLimitInv == Spec => []LimitInv
  BY AlwaysInductive, InitLimitInv, NextLimitInv, PTL DEF Spec

\* Calls of a key that the chain let through, in the last minute or day, exceed the
\* limit of the model by less than the number of connections of the pool.
THEOREM OvershootBoundedAlways == Spec => []OvershootBounded
<1>1. TypeInv /\ LimitInv => OvershootBounded
  <2> SUFFICES ASSUME TypeInv, LimitInv, NEW m \in Models, NEW k \in Keys
               PROVE  /\ Rpm[m] > 0 => Cardinality(ChainUse(minute, m, k)) <= Rpm[m] + PoolSize - 1
                      /\ Rpd[m] > 0 => Cardinality(ChainUse(day, m, k)) <= Rpd[m] + PoolSize - 1
    BY DEF OvershootBounded
  <2>1. /\ MinuteLoad(m, k) \in SUBSET Requests /\ DayLoad(m, k) \in SUBSET Requests
        /\ ChainUse(minute, m, k) \in SUBSET MinuteLoad(m, k)
        /\ ChainUse(day, m, k) \in SUBSET DayLoad(m, k)
        /\ Rpm[m] \in Nat /\ Rpd[m] \in Nat
    BY TableAssumption DEF MinuteLoad, DayLoad, ChainUse, Admitted, TypeInv, TypeOK
  <2>2. /\ Cardinality(ChainUse(minute, m, k)) <= Cardinality(MinuteLoad(m, k))
        /\ Cardinality(ChainUse(day, m, k)) <= Cardinality(DayLoad(m, k))
        /\ Cardinality(ChainUse(minute, m, k)) \in Nat /\ Cardinality(MinuteLoad(m, k)) \in Nat
        /\ Cardinality(ChainUse(day, m, k)) \in Nat /\ Cardinality(DayLoad(m, k)) \in Nat
    BY <2>1, SubsetCardinality
  <2>3. QED
    BY <2>1, <2>2, RequestAssumption DEF LimitInv, LoadInv
<1>2. QED
  BY <1>1, AlwaysTypeInv, AlwaysLimitInv, PTL
=============================================================================
