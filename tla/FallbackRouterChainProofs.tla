----------------------- MODULE FallbackRouterChainProofs -----------------------
(***************************************************************************)
(* Theorems about the walk of the fallback chain while nothing is          *)
(* reconfigured: what 429 means, and that walks take their row locks in    *)
(* the order of the chain.                                                 *)
(***************************************************************************)
EXTENDS FallbackRouterProofs

\* Nobody has edited anything: the tables the walk reads are those of the start.
Unedited ==
  /\ edits = 0 /\ registry = Platforms /\ loading = {} /\ enabled = Keys /\ usable = Keys
  /\ live = FallbackRows

\* Providers that always answer are in no failure.
ReliableNeverFails == \A r \in Requests : \A p \in failed[r] : p[1] \notin Reliable

\* Inductive and CooldownsExact with the two above.
Steady == Inductive /\ CooldownsExact /\ Unedited /\ ReliableNeverFails

\* Rows of the chain of r that the walk has taken.
Taken(r) == Eligible[r] \ rows[r]

Examining == {"cooldown", "key", "rpm", "rpd"}

\* A row the walk has taken and left behind would not have answered.
NoWorkingRowLeft(r) ==
  /\ pc[r] = "provider" => \A f \in Taken(r) : ~Works(r, f)
  /\ pc[r] \in Examining =>
       \A f \in Taken(r) : Works(r, f) => RowModel[f] = route[r].model
  /\ pc[r] = "rejected" => \A f \in FallbackRows : ~Works(r, f)

ChainInv == Steady /\ \A r \in Requests : NoWorkingRowLeft(r)

-----------------------------------------------------------------------------
(* Nothing reconfigured *)

\* At the start everything is as it was created.
LEMMA InitSteady == Init => Steady
  BY InitInductive, InitCooldownsExact DEF Init, Steady, Unedited, ReliableNeverFails

\* A request writes no table that administrators write.
LEMMA StepConfig ==
  ASSUME NEW r \in Requests, Step(r) \/ PoolTimeout(r) \/ Disconnect(r)
  PROVE  UNCHANGED config
<1>1. CASE Connect(r) \/ PoolTimeout(r) \/ Select(r) \/ StickyModel(r) \/ StickyKey(r)
  BY <1>1 DEF Connect, PoolTimeout, Select, StickyModel, StickyKey
<1>2. CASE QueryChain(r) \/ CheckProvider(r) \/ CheckCooldown(r) \/ CheckKey(r)
  BY <1>2 DEF QueryChain, CheckProvider, CheckCooldown, CheckKey
<1>3. CASE CheckRpm(r) \/ CheckRpd(r) \/ Reject(r) \/ Admit(r)
  BY <1>3 DEF CheckRpm, CheckRpd, Reject, Admit
<1>4. CASE CallSucceeds(r) \/ CallFails(r) \/ Penalize(r) \/ FlushInsert(r) \/ FlushUpdate(r)
  BY <1>4 DEF CallSucceeds, CallFails, Penalize, FlushInsert, FlushUpdate
<1>5. CASE Commit(r) \/ Disconnect(r) \/ DeadlockVictim(r)
  BY <1>5 DEF Commit, Disconnect, DeadlockVictim
<1>6. QED
  BY <1>1, <1>2, <1>3, <1>4, <1>5 DEF Step

\* With no edit left the environment cannot change the configuration: the second half
\* of a reload needs the first.
LEMMA EnvironmentUnedited ==
  ASSUME MaxEdits = 0, Unedited, Environment
  PROVE  Unedited'
<1>1. ~Edit
  BY DEF Unedited, Edit
<1>2. ~\E l \in loading : ReloadEnds(l)
  BY DEF Unedited
<1>3. CASE \/ \E s \in StickyKeys : StickyExpires(s)
           \/ \E q \in minute : MinutePasses(q)
           \/ \E q \in day : DayPasses(q)
  BY <1>3 DEF Unedited, StickyExpires, MinutePasses, DayPasses, config
<1>4. QED
  BY <1>1, <1>2, <1>3
  DEF Environment, ToggleKey, ValidateKey, ToggleRow, ReloadStarts, PenaltyLapses

\* failed grows only by CallFails, which a reliable model does not take.
LEMMA StepReliable ==
  ASSUME TypeInv, ReliableNeverFails, NEW r \in Requests,
         Step(r) \/ PoolTimeout(r) \/ Disconnect(r)
  PROVE  ReliableNeverFails'
<1>1. CASE CallFails(r)
  BY <1>1 DEF CallFails, ReliableNeverFails, PK, TypeInv, TypeOK
<1>2. CASE ~CallFails(r)
  <2>1. UNCHANGED failed
    <3>1. CASE Connect(r) \/ PoolTimeout(r) \/ Select(r) \/ StickyModel(r) \/ StickyKey(r)
      BY <3>1 DEF Connect, PoolTimeout, Select, StickyModel, StickyKey, walk
    <3>2. CASE QueryChain(r) \/ CheckProvider(r) \/ CheckCooldown(r) \/ CheckKey(r)
      BY <3>2 DEF QueryChain, CheckProvider, CheckCooldown, CheckKey, walk
    <3>3. CASE CheckRpm(r) \/ CheckRpd(r) \/ Reject(r) \/ Admit(r)
      BY <3>3 DEF CheckRpm, CheckRpd, Reject, Admit, walk
    <3>4. CASE CallSucceeds(r) \/ Penalize(r) \/ FlushInsert(r) \/ FlushUpdate(r)
      BY <3>4 DEF CallSucceeds, Penalize, FlushInsert, FlushUpdate, walk
    <3>5. CASE Commit(r) \/ Disconnect(r) \/ DeadlockVictim(r)
      BY <3>5 DEF Commit, Disconnect, DeadlockVictim, walk
    <3>6. QED
      BY <1>2, <3>1, <3>2, <3>3, <3>4, <3>5 DEF Step
  <2>2. QED
    BY <2>1 DEF ReliableNeverFails
<1>3. QED
  BY <1>1, <1>2

\* No step leaves the steady state.
LEMMA NextSteady ==
  ASSUME MaxEdits = 0, Steady, [Next]_vars
  PROVE  Steady'
<1>1. Inductive' /\ CooldownsExact'
  BY NextInductive, NextCooldownsExact DEF Steady
<1>2. CASE UNCHANGED vars
  BY <1>1, <1>2 DEF Steady, Unedited, ReliableNeverFails, vars, walk, config
<1>3. CASE Environment
  <2>1. UNCHANGED failed
    BY <1>3, EnvironmentFrame DEF Steady, Inductive, walk
  <2>2. QED
    BY <1>1, <1>3, <2>1, EnvironmentUnedited DEF Steady, ReliableNeverFails
<1>4. ASSUME NEW r \in Requests, Step(r) \/ PoolTimeout(r) \/ Disconnect(r)
      PROVE  Unedited' /\ ReliableNeverFails'
  BY <1>4, StepConfig, StepReliable DEF Steady, Inductive, Unedited, config
<1>5. QED
  BY <1>1, <1>2, <1>3, <1>4 DEF Steady, Next

\* With nothing reconfigured the steady state lasts.
LEMMA AlwaysSteady == ASSUME MaxEdits = 0 PROVE Spec => []Steady
  BY InitSteady, NextSteady, PTL DEF Spec

\* What a request works on is private to it: others change neither the rows it has
\* still to examine nor the cooldown rows it has updated.
LEMMA StepRowsFrame ==
  ASSUME TypeInv, NEW r \in Requests, Step(r) \/ PoolTimeout(r) \/ Disconnect(r),
         NEW q \in Requests, q # r
  PROVE  rows'[q] = rows[q] /\ touched'[q] = touched[q]
<1> USE DEF TypeInv, TypeOK, Rollback, walk, tx
<1>1. CASE Connect(r) \/ PoolTimeout(r) \/ Select(r) \/ StickyModel(r) \/ StickyKey(r)
  BY <1>1 DEF Connect, PoolTimeout, Select, StickyModel, StickyKey
<1>2. CASE QueryChain(r) \/ CheckProvider(r) \/ CheckCooldown(r) \/ CheckKey(r)
  BY <1>2 DEF QueryChain, CheckProvider, CheckCooldown, CheckKey
<1>3. CASE CheckRpm(r) \/ CheckRpd(r) \/ Reject(r) \/ Admit(r)
  BY <1>3 DEF CheckRpm, CheckRpd, Reject, Admit
<1>4. CASE CallSucceeds(r) \/ CallFails(r) \/ Penalize(r)
  BY <1>4 DEF CallSucceeds, CallFails, Penalize
<1>5. CASE FlushInsert(r) \/ FlushUpdate(r)
  BY <1>5 DEF FlushInsert, FlushUpdate
<1>6. CASE Commit(r) \/ Disconnect(r) \/ DeadlockVictim(r)
  BY <1>6 DEF Commit, Disconnect, DeadlockVictim
<1>7. QED
  BY <1>1, <1>2, <1>3, <1>4, <1>5, <1>6 DEF Step

-----------------------------------------------------------------------------
(* 429 means that no candidate worked *)

\* Whether a row works depends on nothing a request writes.
LEMMA WorksStays ==
  ASSUME Unedited, Unedited', NEW r \in Requests, NEW f \in FallbackRows
  PROVE  Works(r, f)' <=> Works(r, f)
  BY DEF Unedited, Works

\* No session sees a cooldown of a reliable model.
LEMMA VisibleUnreliable ==
  ASSUME Steady, NEW r \in Requests, NEW p \in Visible(r)
  PROVE  p[1] \notin Reliable
<1>1. CASE p \in cooldowns
  BY <1>1 DEF Steady, CooldownsExact, ReliableNeverFails
<1>2. CASE p \in flushed[r]
  BY <1>2 DEF Steady, Inductive, LoopInv, FlushedIsFailed, ReliableNeverFails
<1>3. QED
  BY <1>1, <1>2 DEF Visible

\* What NoWorkingRowLeft(q) reads of q is as before.
LEMMA SameNoWorkingRowLeft ==
  ASSUME Unedited, Unedited', NEW q \in Requests, NoWorkingRowLeft(q), TypeInv,
         pc'[q] = pc[q], route'[q] = route[q], rows'[q] = rows[q]
  PROVE  NoWorkingRowLeft(q)'
<1>1. Taken(q)' = Taken(q) /\ Taken(q) \subseteq FallbackRows
  BY RequestAssumption DEF Taken
<1>2. QED
  BY <1>1, WorksStays DEF NoWorkingRowLeft

\* Every action of a request that walks leaves behind only rows that do not work.
LEMMA StepNoWorkingRowLeft ==
  ASSUME Steady, Unedited', NEW r \in Requests, NoWorkingRowLeft(r),
         Step(r) \/ PoolTimeout(r) \/ Disconnect(r)
  PROVE  NoWorkingRowLeft(r)'
<1>t. /\ TypeInv /\ LoopInv(r)
      /\ Eligible[r] \subseteq FallbackRows
  BY RequestAssumption DEF Steady, Inductive
<1>w. \A f \in FallbackRows : Works(r, f)' <=> Works(r, f)
  BY WorksStays DEF Steady
<1> USE <1>t, <1>w DEF Goto
<1>1. CASE pc'[r] \notin Examining \cup {"provider", "rejected"}
  BY <1>1 DEF NoWorkingRowLeft
<1>2. CASE QueryChain(r)
  BY <1>2 DEF QueryChain, NoWorkingRowLeft, Taken, Examining, Steady, Unedited, TypeInv, TypeOK
<1>3. CASE CheckProvider(r)
  <2>1. PICK f \in FirstRows(rows[r]) :
          /\ rows'  = [rows EXCEPT ![r] = @ \ {f}]
          /\ route' = [route EXCEPT ![r] = [model |-> RowModel[f], key |-> NoKey,
                                            sticky |-> FALSE]]
          /\ IF PlatformOf[RowModel[f]] \in registry THEN Goto(r, "cooldown") ELSE UNCHANGED pc
    BY <1>3 DEF CheckProvider
  <2>2. Taken(r)' \subseteq Taken(r) \cup {f}
    BY <2>1 DEF Taken, TypeInv, TypeOK
  <2>3. \A g \in Taken(r) : ~Works(r, g)
    BY <1>3 DEF CheckProvider, NoWorkingRowLeft
  <2>4. f \in FallbackRows
    BY <2>1 DEF FirstRows, TypeInv, TypeOK
  <2>5. CASE PlatformOf[RowModel[f]] \in registry
    <3>1. pc'[r] = "cooldown" /\ route'[r].model = RowModel[f]
      BY <2>1, <2>5 DEF TypeInv, TypeOK
    <3>2. QED
      BY <2>2, <2>3, <2>4, <3>1 DEF NoWorkingRowLeft, Examining, Taken
  <2>6. CASE PlatformOf[RowModel[f]] \notin registry
    <3>1. pc'[r] = "provider"
      BY <1>3, <2>1, <2>6 DEF CheckProvider
    <3>2. ~Works(r, f)
      BY <2>6 DEF Works
    <3>3. QED
      BY <2>2, <2>3, <2>4, <3>1, <3>2 DEF NoWorkingRowLeft, Examining, Taken
  <2>7. QED
    BY <2>5, <2>6
<1>4. ASSUME pc[r] \in Examining, pc'[r] \in Examining, UNCHANGED rows,
             route'[r].model = route[r].model
      PROVE  NoWorkingRowLeft(r)'
  BY <1>4 DEF NoWorkingRowLeft, Examining, Taken
<1>5. ASSUME pc[r] \in Examining, pc'[r] = "provider", UNCHANGED rows,
             \A f \in FallbackRows : RowModel[f] = route[r].model => ~Works(r, f)
      PROVE  NoWorkingRowLeft(r)'
  BY <1>5 DEF NoWorkingRowLeft, Examining, Taken
<1>6. CASE CheckCooldown(r)
  <2> DEFINE found == {p \in Visible(r) : p[1] = route[r].model}
  <2>1. CASE Goto(r, "key")
    BY <1>4, <1>6, <2>1 DEF CheckCooldown, Examining, walk, TypeInv, TypeOK
  <2>2. CASE Cardinality(found) = 1 /\ Goto(r, "provider")
    <3>1. found # {}
      <4>1. Cardinality({}) # 1
        BY FS_EmptySet, SMT
      <4>2. QED
        BY <2>2, <4>1
    <3>2. route[r].model \notin Reliable
      BY <3>1, VisibleUnreliable
    <3>3. QED
      BY <1>5, <1>6, <2>2, <3>2 DEF CheckCooldown, Examining, walk, Works, TypeInv, TypeOK
  <2>3. CASE Rollback(r, "crashed")
    BY <1>1, <2>3 DEF Rollback, Examining, TypeInv, TypeOK
  <2>4. QED
    BY <1>6, <2>1, <2>2, <2>3 DEF CheckCooldown
<1>7. CASE CheckKey(r)
  <2> DEFINE found == {k \in enabled \cap usable : KeyPlatform[k] = PlatformOf[route[r].model]}
  <2>1. CASE found = {} /\ Goto(r, "provider")
    BY <1>5, <1>7, <2>1 DEF CheckKey, Examining, Works, TypeInv, TypeOK
  <2>2. ASSUME NEW k \in found, route' = [route EXCEPT ![r].key = k], Goto(r, "rpm")
        PROVE  NoWorkingRowLeft(r)'
    BY <1>4, <1>7, <2>2 DEF CheckKey, Examining, TypeInv, TypeOK
  <2>3. QED
    BY <1>7, <2>1, <2>2 DEF CheckKey
<1>8. CASE CheckRpm(r) \/ CheckRpd(r)
  <2>1. CASE pc'[r] = "provider"
    <3>1. Rpm[route[r].model] # 0 \/ Rpd[route[r].model] # 0
      BY <1>8, <2>1 DEF CheckRpm, CheckRpd, UnderLimit, TypeInv, TypeOK
    <3>2. QED
      BY <1>5, <1>8, <2>1, <3>1 DEF CheckRpm, CheckRpd, Examining, walk, Works
  <2>2. CASE pc'[r] # "provider"
    BY <1>1, <1>4, <1>8, <2>2 DEF CheckRpm, CheckRpd, Examining, walk, TypeInv, TypeOK
  <2>3. QED
    BY <2>1, <2>2
<1>9. CASE Reject(r)
  <2>1. Taken(r) = Eligible[r] /\ pc'[r] = "rejected"
    BY <1>9 DEF Reject, Rollback, Taken, TypeInv, TypeOK
  <2>2. QED
    BY <1>9, <2>1 DEF Reject, NoWorkingRowLeft, Works, Examining
<1>10. CASE Connect(r)
  BY <1>10, SameNoWorkingRowLeft DEF Connect, walk, Steady
<1>11. CASE \/ PoolTimeout(r) \/ Select(r) \/ StickyModel(r) \/ StickyKey(r) \/ Admit(r)
            \/ CallSucceeds(r) \/ CallFails(r) \/ Penalize(r) \/ Disconnect(r)
            \/ DeadlockVictim(r)
  <2>1. pc'[r] \notin Examining \cup {"provider", "rejected"}
    BY <1>11 DEF PoolTimeout, Select, StickyModel, StickyKey, Admit, CallSucceeds, CallFails,
                 Penalize, Disconnect, DeadlockVictim, Rollback, Examining, TypeInv, TypeOK
  <2>2. QED
    BY <1>1, <2>1
<1>12. CASE FlushInsert(r) \/ FlushUpdate(r) \/ Commit(r)
  <2>1. pc'[r] \notin Examining \cup {"provider", "rejected"}
    BY <1>12 DEF FlushInsert, FlushUpdate, Commit, AfterFlush, Rollback, Examining,
                 TypeInv, TypeOK
  <2>2. QED
    BY <1>1, <2>1
<1>13. QED
  BY <1>2, <1>3, <1>6, <1>7, <1>8, <1>9, <1>10, <1>11, <1>12 DEF Step

\* With nothing reconfigured a request is refused with 429 only when no row of its
\* chain would have answered it: no cooldown, key check or limit hides one that works.
THEOREM RejectedOnlyWhenNoneWorkAlways ==
  ASSUME MaxEdits = 0
  PROVE  Spec => []RejectedOnlyWhenNoneWork
<1>1. Init => ChainInv
  BY InitSteady DEF Init, ChainInv, NoWorkingRowLeft, Examining
<1>2. ChainInv /\ [Next]_vars => ChainInv'
  <2> SUFFICES ASSUME ChainInv, [Next]_vars PROVE ChainInv'
    OBVIOUS
  <2> USE DEF ChainInv
  <2>1. Steady' /\ Unedited /\ Unedited' /\ TypeInv
    BY NextSteady DEF Steady, Inductive
  <2>2. ASSUME NEW q \in Requests PROVE NoWorkingRowLeft(q)'
    <3>1. CASE UNCHANGED vars \/ Environment
      BY <2>1, <3>1, SameNoWorkingRowLeft, EnvironmentFrame DEF vars, walk
    <3>2. ASSUME NEW r \in Requests, Step(r) \/ PoolTimeout(r) \/ Disconnect(r)
          PROVE  NoWorkingRowLeft(q)'
      <4>1. CASE q = r
        BY <2>1, <3>2, <4>1, StepNoWorkingRowLeft
      <4>2. CASE q # r
        BY <2>1, <3>2, <4>2, StepFrame, StepRowsFrame, SameNoWorkingRowLeft DEF SameRequest
      <4>3. QED
        BY <4>1, <4>2
    <3>3. QED
      BY <3>1, <3>2 DEF Next
  <2>3. QED
    BY <2>1, <2>2
<1>3. ChainInv => RejectedOnlyWhenNoneWork
  BY DEF ChainInv, NoWorkingRowLeft, RejectedOnlyWhenNoneWork
<1>4. QED
  BY <1>1, <1>2, <1>3, PTL DEF Spec

-----------------------------------------------------------------------------
(* Row locks are taken in the order of the chain *)

\* One chain for everybody: a row per model, a priority per row, and nothing that
\* takes a request past the walk or a candidate out of it for a time.
OneChain ==
  /\ MaxEdits = 0
  /\ \A r \in Requests : StickyKeyOf[r] = NoSticky
  /\ \A m \in Models : Rpm[m] = 0 /\ Rpd[m] = 0
  /\ \A f, g \in FallbackRows :
       f # g => RowModel[f] # RowModel[g] /\ Priority[f] # Priority[g]

\* The place of a model in the chain.
Level(m) == Priority[CHOOSE f \in FallbackRows : RowModel[f] = m]

\* Cooldown rows that r has locked until its transaction ends.
Held(r) == flushed[r] \cup touched[r]

Keyless(m) == ~\E k \in Keys : KeyPlatform[k] = PlatformOf[m]

\* The walk of r will not choose f, now or later in its transaction: it sees a
\* cooldown of the model, or there is no key for it.
Hopeless(r, f) ==
  (\E p \in Visible(r) : p[1] = RowModel[f]) \/ Keyless(RowModel[f])

Chosen == {"rpm", "rpd", "admit", "call", "penalize", "insert", "update"}
Walks  == {"provider", "cooldown", "key"} \cup Chosen

\* The walk goes down the chain: what it has still to examine comes after what it
\* has taken, and all of that but the candidate is hopeless.
WalkDescends(r) ==
  /\ pc[r] \in Walks =>
       /\ rows[r] \subseteq Eligible[r]
       /\ \A f \in rows[r], g \in Taken(r) : Priority[g] < Priority[f]
  /\ pc[r] = "provider" => \A f \in Taken(r) : Hopeless(r, f)
  /\ pc[r] \in Walks \ {"provider"} =>
       \E f \in Taken(r) :
         /\ RowModel[f] = route[r].model
         /\ \A g \in Taken(r) \ {f} : Hopeless(r, g)

\* Up to a lock it holds, the whole chain of r is hopeless for it.
WalkedOut(r) ==
  pc[r] \notin Finished =>
    \A p \in Held(r) :
      /\ \E f \in FallbackRows : RowModel[f] = p[1]
      /\ \A f \in Eligible[r] : Priority[f] <= Level(p[1]) => Hopeless(r, f)

\* So the next candidate, and the next lock, are further down than all locks held.
LocksDescend(r) ==
  /\ pc[r] \in {"key"} \cup Chosen =>
       \A p \in Held(r) : Level(p[1]) < Level(route[r].model) \/ Keyless(route[r].model)
  /\ pc[r] \in Chosen => ~Keyless(route[r].model)

OffSticky(r) == ~route[r].sticky /\ pc[r] \notin {"stickyModel", "stickyKey"}

LockInv(r) == OffSticky(r) /\ WalkDescends(r) /\ WalkedOut(r) /\ LocksDescend(r)

OrderInv == Steady /\ \A r \in Requests : LockInv(r)

\* The level of a row's model is the row's priority.
LEMMA LevelOfRow ==
  ASSUME OneChain, NEW f \in FallbackRows
  PROVE  Level(RowModel[f]) = Priority[f] /\ Priority[f] \in Nat
  BY TableAssumption DEF OneChain, Level

\* What is hopeless stays so while the session sees at least what it saw.
LEMMA HopelessStays ==
  ASSUME NEW r \in Requests, NEW f, Hopeless(r, f), Visible(r) \subseteq Visible(r)'
  PROVE  Hopeless(r, f)'
  BY DEF Hopeless, Keyless

\* What LockInv(q) reads of q is as before, and committed cooldowns stay.
LEMMA SameLockInv ==
  ASSUME NEW q \in Requests, LockInv(q), SameRequest(q),
         rows'[q] = rows[q], touched'[q] = touched[q]
  PROVE  LockInv(q)'
<1>1. /\ Taken(q)' = Taken(q) /\ Held(q)' = Held(q)
      /\ Visible(q) \subseteq Visible(q)'
      /\ pc'[q] = pc[q] /\ route'[q] = route[q]
  BY DEF SameRequest, Taken, Held, Visible
<1>2. \A f : Hopeless(q, f) => Hopeless(q, f)'
  BY <1>1, HopelessStays
<1>3. OffSticky(q)' /\ LocksDescend(q)'
  BY <1>1 DEF LockInv, OffSticky, LocksDescend, Keyless, Level
<1>4. WalkDescends(q)'
  BY <1>1, <1>2 DEF LockInv, WalkDescends
<1>5. WalkedOut(q)'
  BY <1>1, <1>2 DEF LockInv, WalkedOut, Level
<1>6. QED
  BY <1>3, <1>4, <1>5 DEF LockInv

\* A request that has ended holds no lock and walks no more.
LEMMA RollbackLockInv ==
  ASSUME TypeInv, NEW r \in Requests, NEW phase \in Finished, Rollback(r, phase),
         UNCHANGED walk, LockInv(r)
  PROVE  LockInv(r)'
  BY DEF TypeInv, TypeOK, Rollback, Goto, walk, LockInv, OffSticky, WalkDescends, WalkedOut,
         LocksDescend, Finished, Walks, Chosen

\* Steps that leave the session alone keep the locks it holds where they are.
LEMMA QuietWalkedOut ==
  ASSUME NEW r \in Requests, WalkedOut(r), pc[r] \notin Finished,
         flushed' = flushed, touched' = touched, cooldowns' = cooldowns
  PROVE  /\ WalkedOut(r)' /\ Held(r)' = Held(r)
         /\ \A f : Hopeless(r, f)' <=> Hopeless(r, f)
<1>1. Held(r)' = Held(r) /\ Visible(r)' = Visible(r)
  BY DEF Held, Visible
<1>2. \A f : Hopeless(r, f)' <=> Hopeless(r, f)
  BY <1>1 DEF Hopeless, Keyless
<1>3. QED
  BY <1>1, <1>2 DEF WalkedOut, Level

\* Steps of a walk that keep the candidate and the rows.
LEMMA QuietDescends ==
  ASSUME NEW r \in Requests, LockInv(r),
         flushed' = flushed, touched' = touched, cooldowns' = cooldowns,
         rows' = rows, route'[r].model = route[r].model, route'[r].sticky = route[r].sticky,
         pc[r] \in Walks \ {"provider"}, pc'[r] \in Walks \ {"provider"},
         pc'[r] \in {"key"} \cup Chosen => pc[r] \in {"key"} \cup Chosen,
         pc'[r] \in Chosen => pc[r] \in Chosen \/ ~Keyless(route[r].model)
  PROVE  LockInv(r)'
<1>1. WalkedOut(r)' /\ Held(r)' = Held(r) /\ \A f : Hopeless(r, f)' <=> Hopeless(r, f)
  BY QuietWalkedOut DEF LockInv, Walks, Chosen, Finished
<1>2. Taken(r)' = Taken(r)
  BY DEF Taken
<1>3. WalkDescends(r)'
  BY <1>1, <1>2 DEF LockInv, WalkDescends
<1>4. LocksDescend(r)'
  BY <1>1 DEF LockInv, LocksDescend, Keyless, Level, Chosen
<1>5. OffSticky(r)'
  BY DEF LockInv, OffSticky, Walks, Chosen
<1>6. QED
  BY <1>1, <1>3, <1>4, <1>5 DEF LockInv

\* A candidate that is left behind is hopeless, and with it all the walk has taken.
LEMMA LeaveCandidate ==
  ASSUME NEW r \in Requests, LockInv(r),
         flushed' = flushed, touched' = touched, cooldowns' = cooldowns,
         rows' = rows, route' = route,
         pc[r] \in Walks \ {"provider"}, pc'[r] = "provider",
         \A f : RowModel[f] = route[r].model => Hopeless(r, f)
  PROVE  LockInv(r)'
<1>1. WalkedOut(r)' /\ \A f : Hopeless(r, f)' <=> Hopeless(r, f)
  BY QuietWalkedOut DEF LockInv, Walks, Chosen, Finished
<1>2. Taken(r)' = Taken(r)
  BY DEF Taken
<1>3. WalkDescends(r)'
  BY <1>1, <1>2 DEF LockInv, WalkDescends, Walks
<1>4. QED
  BY <1>1, <1>3 DEF LockInv, LocksDescend, OffSticky, Chosen

\* A lock on the candidate is below all that the walk has taken, so the chain of r is
\* hopeless down to it once the session sees the row.
LEMMA LockedCandidate ==
  ASSUME OneChain, Steady, NEW r \in Requests, LockInv(r), pc[r] \in {"insert", "update"},
         Visible(r) \subseteq Visible(r)', PK(r) \in Visible(r)',
         Held(r)' = Held(r) \cup {PK(r)},
         pc'[r] \in {"select", "commit"}, route' = route
  PROVE  LockInv(r)'
<1>1. PICK c \in Taken(r) : /\ RowModel[c] = route[r].model
                            /\ \A g \in Taken(r) \ {c} : Hopeless(r, g)
  BY DEF LockInv, WalkDescends, Walks, Chosen
<1>2. /\ Eligible[r] \subseteq FallbackRows /\ c \in FallbackRows
      /\ \A f \in FallbackRows : Priority[f] \in Nat
  BY <1>1, RequestAssumption, TableAssumption DEF Taken
<1>3. Level(PK(r)[1]) = Priority[c] /\ RowModel[c] = PK(r)[1]
  BY <1>1, <1>2, LevelOfRow DEF PK
<1>4. ASSUME NEW f \in Eligible[r], Priority[f] <= Priority[c] PROVE Hopeless(r, f)'
  <2>1. CASE f = c
    BY <1>3, <2>1 DEF Hopeless
  <2>2. CASE f # c
    <3>1. f \notin rows[r]
      BY <1>1, <1>2, <1>4 DEF LockInv, WalkDescends, Walks, Chosen
    <3>2. QED
      BY <1>1, <2>2, <3>1, HopelessStays DEF Taken
  <2>3. QED
    BY <2>1, <2>2
<1>5. WalkedOut(r)'
  <2>1. \A f : Hopeless(r, f) => Hopeless(r, f)'
    BY HopelessStays
  <2>2. WalkedOut(r) /\ pc[r] \notin Finished
    BY DEF LockInv, Finished
  <2>3. QED
    BY <1>2, <1>3, <1>4, <2>1, <2>2 DEF WalkedOut, Level
<1>6. QED
  BY <1>5 DEF LockInv, OffSticky, WalkDescends, LocksDescend, Walks, Chosen

\* Taking the next row keeps the walk in order.
LEMMA CheckProviderLockInv ==
  ASSUME OneChain, Steady, NEW r \in Requests, LockInv(r), CheckProvider(r)
  PROVE  LockInv(r)'
<1>t. TypeInv /\ Unedited
  BY DEF Steady, Inductive
<1> USE <1>t DEF TypeInv, TypeOK
<1>1. PICK f \in FirstRows(rows[r]) :
        /\ rows'  = [rows EXCEPT ![r] = @ \ {f}]
        /\ route' = [route EXCEPT ![r] = [model |-> RowModel[f], key |-> NoKey,
                                          sticky |-> FALSE]]
        /\ IF PlatformOf[RowModel[f]] \in registry THEN Goto(r, "cooldown") ELSE UNCHANGED pc
  BY DEF CheckProvider
<1>2. f \in rows[r] /\ f \in FallbackRows /\ \A g \in rows[r] : Priority[f] <= Priority[g]
  BY <1>1 DEF FirstRows
<1>3. /\ pc[r] = "provider" /\ pc'[r] = "cooldown"
      /\ rows'[r] = rows[r] \ {f} /\ route'[r].model = RowModel[f] /\ ~route'[r].sticky
      /\ flushed' = flushed /\ touched' = touched /\ cooldowns' = cooldowns
  BY <1>1, <1>2, TableAssumption DEF CheckProvider, Unedited, Goto, tx, tables
<1>4. /\ rows[r] \subseteq Eligible[r] /\ Eligible[r] \subseteq FallbackRows
      /\ \A g \in rows[r], h \in Taken(r) : Priority[h] < Priority[g]
      /\ \A h \in Taken(r) : Hopeless(r, h)
  BY <1>3, RequestAssumption DEF LockInv, WalkDescends, Walks
<1>5. Taken(r)' = Taken(r) \cup {f}
  BY <1>2, <1>3, <1>4 DEF Taken
<1>6. WalkedOut(r)' /\ \A g : Hopeless(r, g)' <=> Hopeless(r, g)
  BY <1>3, QuietWalkedOut DEF LockInv, Finished
<1>7. ASSUME NEW g \in rows'[r], NEW h \in Taken(r)'
      PROVE  Priority[h] < Priority[g]
  <2>1. CASE h \in Taken(r)
    BY <1>3, <1>4, <1>7, <2>1
  <2>2. CASE h = f
    <3>1. /\ g \in FallbackRows /\ g # f /\ Priority[f] <= Priority[g]
          /\ Priority[f] \in Nat /\ Priority[g] \in Nat
      BY <1>2, <1>3, <1>4, <1>7, TableAssumption
    <3>2. Priority[f] # Priority[g]
      BY <1>2, <3>1 DEF OneChain
    <3>3. \A i, j \in Nat : i <= j /\ i # j => i < j
      OBVIOUS
    <3>4. Priority[f] < Priority[g]
      BY <3>1, <3>2, <3>3
    <3>5. QED
      BY <2>2, <3>4
  <2>3. QED
    BY <1>5, <1>7, <2>1, <2>2
<1>8. \E h \in Taken(r)' : /\ RowModel[h] = route'[r].model
                           /\ \A g \in Taken(r)' \ {h} : Hopeless(r, g)'
  BY <1>3, <1>4, <1>5, <1>6
<1>9. WalkDescends(r)'
  BY <1>3, <1>4, <1>7, <1>8 DEF WalkDescends
<1>10. QED
  BY <1>3, <1>6, <1>9 DEF LockInv, OffSticky, LocksDescend, Chosen

\* A candidate without a cooldown is further down than every lock held, or keyless.
LEMMA CheckCooldownLockInv ==
  ASSUME OneChain, Steady, NEW r \in Requests, LockInv(r), CheckCooldown(r)
  PROVE  LockInv(r)'
<1> DEFINE found == {p \in Visible(r) : p[1] = route[r].model}
<1>t. TypeInv
  BY DEF Steady, Inductive
<1> USE <1>t DEF TypeInv, TypeOK
<1>1. CASE Rollback(r, "crashed")
  BY <1>1, RollbackLockInv DEF CheckCooldown, Finished
<1>2. CASE Cardinality(found) = 1 /\ Goto(r, "provider") /\ UNCHANGED tx
  <2>1. found # {}
    <3>1. Cardinality({}) # 1
      BY FS_EmptySet, SMT
    <3>2. QED
      BY <1>2, <3>1
  <2>2. \A f : RowModel[f] = route[r].model => Hopeless(r, f)
    BY <2>1 DEF Hopeless
  <2>3. QED
    BY <1>2, <2>2, LeaveCandidate DEF CheckCooldown, Goto, walk, tx, tables, Walks
<1>3. CASE found = {} /\ Goto(r, "key") /\ UNCHANGED tx
  <2>1. /\ pc[r] = "cooldown" /\ pc'[r] = "key" /\ rows' = rows /\ route' = route
        /\ flushed' = flushed /\ touched' = touched /\ cooldowns' = cooldowns
    BY <1>3 DEF CheckCooldown, Goto, walk, tx, tables
  <2>2. PICK c \in Taken(r) : /\ RowModel[c] = route[r].model
                              /\ \A g \in Taken(r) \ {c} : Hopeless(r, g)
    BY <2>1 DEF LockInv, WalkDescends, Walks
  <2>3. c \in Eligible[r] /\ c \in FallbackRows
    BY <2>2, RequestAssumption DEF Taken
  <2>4. ASSUME NEW p \in Held(r), ~Keyless(route[r].model)
        PROVE  Level(p[1]) < Level(route[r].model)
    <3>1. ~Hopeless(r, c)
      BY <1>3, <2>2, <2>4 DEF Hopeless
    <3>2. ~(Priority[c] <= Level(p[1]))
      BY <2>1, <2>3, <2>4, <3>1 DEF LockInv, WalkedOut, Finished
    <3>3. PICK f \in FallbackRows : RowModel[f] = p[1]
      BY <2>1, <2>4 DEF LockInv, WalkedOut, Finished
    <3>4. Level(p[1]) \in Nat /\ Level(route[r].model) = Priority[c] /\ Priority[c] \in Nat
      BY <2>2, <2>3, <3>3, LevelOfRow
    <3>5. QED
      BY <3>2, <3>4
  <2>5. /\ WalkedOut(r)' /\ Held(r)' = Held(r)
        /\ \A f : Hopeless(r, f)' <=> Hopeless(r, f)
    BY <2>1, QuietWalkedOut DEF LockInv, Finished
  <2>6. LocksDescend(r)'
    BY <2>1, <2>4, <2>5 DEF LocksDescend, Keyless, Level, Chosen
  <2>7. WalkDescends(r)'
    BY <2>1, <2>5 DEF LockInv, WalkDescends, Walks, Taken
  <2>8. QED
    BY <2>1, <2>5, <2>6, <2>7 DEF LockInv, OffSticky
<1>4. QED
  BY <1>1, <1>2, <1>3 DEF CheckCooldown

\* A key is chosen where there is one; where there is none the candidate is hopeless.
LEMMA CheckKeyLockInv ==
  ASSUME OneChain, Steady, NEW r \in Requests, LockInv(r), CheckKey(r)
  PROVE  LockInv(r)'
<1> DEFINE found == {k \in enabled \cap usable : KeyPlatform[k] = PlatformOf[route[r].model]}
<1>t. TypeInv /\ Unedited
  BY DEF Steady, Inductive
<1> USE <1>t DEF TypeInv, TypeOK
<1>1. CASE found = {} /\ Goto(r, "provider") /\ UNCHANGED route
  <2>1. \A f : RowModel[f] = route[r].model => Hopeless(r, f)
    BY <1>1 DEF Hopeless, Keyless, Unedited
  <2>2. QED
    BY <1>1, <2>1, LeaveCandidate DEF CheckKey, Goto, walk, tx, tables, Walks
<1>2. ASSUME NEW k \in found, route' = [route EXCEPT ![r].key = k], Goto(r, "rpm")
      PROVE  LockInv(r)'
  <2>1. ~Keyless(route[r].model)
    BY <1>2 DEF Keyless
  <2>2. /\ pc[r] = "key" /\ pc'[r] = "rpm" /\ rows' = rows
        /\ flushed' = flushed /\ touched' = touched /\ cooldowns' = cooldowns
        /\ route'[r].model = route[r].model /\ route'[r].sticky = route[r].sticky
    BY <1>2 DEF CheckKey, Goto, tx, tables
  <2>3. QED
    BY <2>1, <2>2, QuietDescends DEF Walks, Chosen
<1>3. QED
  BY <1>1, <1>2 DEF CheckKey

\* Every action of a request keeps its locks in the order of the chain.
LEMMA StepLockInv ==
  ASSUME OneChain, Steady, NEW r \in Requests, LockInv(r),
         Step(r) \/ PoolTimeout(r) \/ Disconnect(r)
  PROVE  LockInv(r)'
<1>t. TypeInv /\ Unedited /\ LoopInv(r)
  BY DEF Steady, Inductive
<1> USE <1>t DEF TypeInv, TypeOK, Goto, walk, tx, tables
<1>1. CASE Connect(r)
  BY <1>1, SameLockInv DEF Connect, SameRequest
<1>2. CASE PoolTimeout(r) \/ Reject(r) \/ Commit(r) \/ Disconnect(r) \/ DeadlockVictim(r)
  BY <1>2, RollbackLockInv DEF PoolTimeout, Reject, Commit, Disconnect, DeadlockVictim, Finished
<1>3. CASE Select(r)
  <2>1. /\ StickyEntry(r) = NoModelId /\ StickyKeyOf[r] = NoSticky
    BY DEF OneChain, StickyEntry
  <2>2. pc'[r] = "chain" /\ route' = route
    BY <1>3, <2>1, TableAssumption, SentinelAssumption DEF Select
  <2>3. /\ flushed' = flushed /\ touched' = touched /\ cooldowns' = cooldowns
        /\ pc[r] \notin Finished
    BY <1>3 DEF Select, Finished
  <2>4. QED
    BY <2>2, <2>3, QuietWalkedOut
    DEF LockInv, OffSticky, WalkDescends, LocksDescend, Walks, Chosen
<1>4. CASE StickyModel(r) \/ StickyKey(r)
  BY <1>4 DEF StickyModel, StickyKey, LockInv, OffSticky
<1>5. CASE QueryChain(r)
  <2>1. /\ flushed' = flushed /\ touched' = touched /\ cooldowns' = cooldowns
        /\ pc[r] \notin Finished /\ pc'[r] = "provider" /\ route' = route
        /\ rows'[r] = Eligible[r] \cap live
    BY <1>5 DEF QueryChain, Finished
  <2>2. rows'[r] = Eligible[r] /\ Taken(r)' = {}
    BY <2>1, RequestAssumption DEF Unedited, Taken
  <2>3. QED
    BY <2>1, <2>2, QuietWalkedOut
    DEF LockInv, OffSticky, WalkDescends, LocksDescend, Walks, Chosen
<1>6. CASE CheckProvider(r) \/ CheckCooldown(r) \/ CheckKey(r)
  BY <1>6, CheckProviderLockInv, CheckCooldownLockInv, CheckKeyLockInv
<1>7. CASE CheckRpm(r) \/ CheckRpd(r)
  <2>1. route[r].model \in Models
    BY <1>7 DEF CheckRpm, CheckRpd, RouteOK, Routed
  <2>2. pc[r] \in {"rpm", "rpd"} /\ pc'[r] \in {"rpd", "admit"}
    BY <1>7, <2>1 DEF CheckRpm, CheckRpd, UnderLimit, OneChain
  <2>3. QED
    BY <1>7, <2>2, QuietDescends DEF CheckRpm, CheckRpd, Walks, Chosen
<1>8. CASE Admit(r)
  <2>1. CASE Rollback(r, "crashed")
    BY <1>8, <2>1, RollbackLockInv DEF Admit, Finished
  <2>2. CASE Goto(r, "call") /\ UNCHANGED tx
    BY <1>8, <2>2, QuietDescends DEF Admit, Walks, Chosen
  <2>3. QED
    BY <1>8, <2>1, <2>2 DEF Admit
<1>9. CASE CallSucceeds(r)
  <2>1. /\ flushed' = flushed /\ touched' = touched /\ cooldowns' = cooldowns
        /\ pc[r] \notin Finished /\ pc'[r] = "commit" /\ route' = route
    BY <1>9 DEF CallSucceeds, Finished
  <2>2. QED
    BY <2>1, QuietWalkedOut DEF LockInv, OffSticky, WalkDescends, LocksDescend, Walks, Chosen
<1>10. CASE CallFails(r)
  BY <1>10, QuietDescends DEF CallFails, Walks, Chosen
<1>11. CASE Penalize(r)
  BY <1>11, QuietDescends DEF Penalize, Walks, Chosen
<1>12. CASE FlushInsert(r)
  <2>1. CASE Rollback(r, "crashed")
    BY <1>12, <2>1, RollbackLockInv DEF FlushInsert, Finished
  <2>2. CASE /\ flushed' = [flushed EXCEPT ![r] = @ \cup {PK(r)}]
             /\ AfterFlush(r) /\ UNCHANGED <<conn, touched>>
    <3>1. /\ pc[r] = "insert" /\ pc'[r] \in {"select", "commit"} /\ route' = route
          /\ flushed'[r] = flushed[r] \cup {PK(r)}
          /\ touched' = touched /\ cooldowns' = cooldowns
      BY <1>12, <2>2 DEF FlushInsert, AfterFlush
    <3>2. /\ Visible(r) \subseteq Visible(r)' /\ PK(r) \in Visible(r)'
          /\ Held(r)' = Held(r) \cup {PK(r)}
      BY <3>1 DEF Visible, Held
    <3>3. QED
      BY <3>1, <3>2, LockedCandidate
  <2>3. QED
    BY <1>12, <2>1, <2>2 DEF FlushInsert
<1>13. CASE FlushUpdate(r)
  <2>1. /\ pc[r] = "update" /\ pc'[r] \in {"select", "commit"} /\ route' = route
        /\ touched'[r] = touched[r] \cup {PK(r)}
        /\ flushed' = flushed /\ cooldowns' = cooldowns
    BY <1>13 DEF FlushUpdate, AfterFlush
  <2>2. PK(r) \in Visible(r)
    BY <2>1 DEF LoopInv, FailuresVisible
  <2>3. Visible(r)' = Visible(r) /\ Held(r)' = Held(r) \cup {PK(r)}
    BY <2>1 DEF Visible, Held
  <2>4. QED
    BY <2>1, <2>2, <2>3, LockedCandidate
<1>14. QED
  BY <1>1, <1>2, <1>3, <1>4, <1>5, <1>6, <1>7, <1>8, <1>9, <1>10, <1>11, <1>12, <1>13 DEF Step

\* No step takes locks out of the order of the chain.
LEMMA NextOrderInv ==
  ASSUME OneChain, OrderInv, [Next]_vars
  PROVE  OrderInv'
<1>1. Steady' /\ TypeInv
  BY NextSteady DEF OrderInv, OneChain, Steady, Inductive
<1>2. ASSUME NEW q \in Requests PROVE LockInv(q)'
  <2>1. CASE UNCHANGED vars \/ Environment
    <3>1. SameRequest(q) /\ rows'[q] = rows[q] /\ touched'[q] = touched[q]
      BY <1>1, <2>1, EnvironmentFrame DEF SameRequest, vars, walk, tx, tables
    <3>2. QED
      BY <3>1, SameLockInv DEF OrderInv
  <2>2. ASSUME NEW r \in Requests, Step(r) \/ PoolTimeout(r) \/ Disconnect(r)
        PROVE  LockInv(q)'
    <3>1. CASE q = r
      BY <2>2, <3>1, StepLockInv DEF OrderInv
    <3>2. CASE q # r
      BY <1>1, <2>2, <3>2, StepFrame, StepRowsFrame, SameLockInv DEF OrderInv
    <3>3. QED
      BY <3>1, <3>2
  <2>3. QED
    BY <2>1, <2>2 DEF Next
<1>3. QED
  BY <1>1, <1>2 DEF OrderInv

\* Who waits for a lock waits for somebody further down the chain: of a set in which
\* everyone waits and is waited for, the request furthest up is waited for by nobody.
LEMMA OrderInvNoCycle ==
  ASSUME OneChain, OrderInv
  PROVE  NoLockCycle
<1> SUFFICES ASSUME NEW S \in SUBSET Requests, S # {},
                    \A x \in S : (\E y \in S : WaitsFor(x, y)) /\ (\E y \in S : WaitsFor(y, x))
             PROVE  FALSE
  BY DEF NoLockCycle, Deadlocked
<1> DEFINE Place(x) == Level(route[x].model)
           Places == {Place(x) : x \in S}
<1>1. ASSUME NEW x \in S
      PROVE  /\ Place(x) \in Nat
             /\ \A p \in Held(x) : Level(p[1]) < Place(x)
  <2>1. pc[x] \in {"insert", "update"}
    BY <1>1 DEF WaitsFor
  <2>2. PICK c \in Taken(x) : RowModel[c] = route[x].model
    BY <2>1 DEF OrderInv, LockInv, WalkDescends, Walks, Chosen
  <2>3. c \in FallbackRows
    BY <2>2, RequestAssumption DEF Taken
  <2>4. QED
    BY <2>1, <2>2, <2>3, LevelOfRow DEF OrderInv, LockInv, LocksDescend, Chosen
<1>2. PICK n \in Places : \A k \in Places : ~(k < n)
  <2>1. Places \subseteq Nat /\ Places # {}
    BY <1>1
  <2>2. PICK n \in Places : \A k \in Places : ~(<<k, n>> \in OpToRel(<, Nat))
    BY <2>1, NatLessThanWellFounded, WFMin
  <2>3. QED
    BY <2>1, <2>2 DEF OpToRel
<1>3. PICK x \in S : n = Place(x)
  BY <1>2
<1>4. PICK y \in S : WaitsFor(y, x)
  BY <1>3
<1>5. PK(y) \in Held(x) /\ PK(y)[1] = route[y].model
  BY <1>4 DEF WaitsFor, Held, PK
<1>6. Place(y) < Place(x)
  BY <1>1, <1>3, <1>5
<1>7. QED
  BY <1>2, <1>3, <1>6

\* With one chain for everybody, no sticky entries, limits or edits, no two requests
\* wait for each other: walks take their row locks from the top of the chain down.
THEOREM NoLockCycleAlways ==
  ASSUME OneChain
  PROVE  Spec => []NoLockCycle
<1>1. Init => OrderInv
  BY InitSteady
  DEF Init, OrderInv, LockInv, OffSticky, WalkDescends, WalkedOut, LocksDescend, NoRoute,
      Held, Walks, Chosen
<1>2. OrderInv /\ [Next]_vars => OrderInv'
  BY NextOrderInv
<1>3. OrderInv => NoLockCycle
  BY OrderInvNoCycle
<1>4. QED
  BY <1>1, <1>2, <1>3, PTL DEF Spec
=============================================================================
