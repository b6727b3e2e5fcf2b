------------------------------ MODULE ApiKeys ------------------------------
(***************************************************************************)
(* Administration of the provider keys: keys/api.py, KeysService and       *)
(* migrate_api_keys.  Keys are validated at their provider while their     *)
(* session waits; encryption, labels and prefixes are left out.            *)
(***************************************************************************)
EXTENDS AdminTasks, FiniteSets

CONSTANTS
  KeyIds,     \* ids that rows of api_keys may get
  Platforms,
  OldKeys,    \* the keys of the old SQLite database that can be decrypted
  OldRow,     \* their platform, enabled and status
  New         \* the origin of a key that was not migrated

Verdicts == {"healthy", "invalid", "error"}
Statuses == Verdicts \cup {"unknown"}

ASSUME KeysAssumption ==
  /\ New \notin OldKeys /\ IsFiniteSet(KeyIds) /\ IsFiniteSet(OldKeys)
  /\ OldRow \in [OldKeys -> [platform : Platforms, enabled : BOOLEAN, status : Statuses]]

VARIABLES
  keys,       \* rows of api_keys; `checked` stands for last_checked_at: it is the
              \* verdict of the check that was made at that time
  given,      \* history: ids that were ever given
  overlapped  \* history: keys whose checks have overlapped

keyVars == <<keys, given, overlapped>>

\* Ids are random and never given twice; which one it is does not matter.
Fresh  == KeyIds \ given
NextId == CHOOSE k \in Fresh : TRUE

KeyRow == [platform : Platforms, enabled : BOOLEAN, status : Statuses,
           checked : Verdicts \cup {"never"}, from : OldKeys \cup {New}]

KeysInit ==
  /\ \E ids \in SUBSET KeyIds :
       keys \in [ids -> {r \in KeyRow : r.from = New /\ r.status = "unknown" /\ r.checked = "never"}]
  /\ given = DOMAIN keys /\ overlapped = {}

\* Ids of the rows of a platform.
Of(platform) == {k \in DOMAIN keys : keys[k].platform = platform}

\* A session that updates a row which has been deleted raises StaleDataError,
\* and nothing of it is stored.
Stored(t, ids, row(_)) ==
  /\ ids \subseteq DOMAIN keys
  /\ keys' = [k \in DOMAIN keys |-> IF k \in ids THEN row(k) ELSE keys[k]]
  /\ End(t)

-----------------------------------------------------------------------------
\* create_key: flushed, then validated; the refresh that follows discards the
\* status and the time of the check before anything is written.
CreateKey(t) ==
  \E p \in Platforms :
    /\ Begin(t, [op |-> "create", platform |-> p])
    /\ UNCHANGED keyVars

CreateCommits(t) ==
  /\ task[t].op = "create"
  /\ Fresh # {}
  /\ LET k == NextId IN
       /\ keys' = [i \in DOMAIN keys \cup {k} |->
                     IF i = k THEN [platform |-> task[t].platform, enabled |-> TRUE,
                                    status |-> "unknown", checked |-> "never", from |-> New]
                     ELSE keys[i]]
       /\ given' = given \cup {k}
  /\ End(t) /\ UNCHANGED overlapped

\* validate_key and validate_all read their rows, ask the provider of each, and
\* commit at the end.
Checks(t, ids) ==
  /\ Begin(t, [op |-> "validate", loaded |-> [k \in ids |-> keys[k]]])
  /\ overlapped' = overlapped \cup
       {k \in ids : \E u \in Tasks : task[u].op = "validate" /\ k \in DOMAIN task[u].loaded}
  /\ UNCHANGED <<keys, given>>

ValidateKey(t) == \E k \in DOMAIN keys : Checks(t, {k})
ValidateAll(t) == Checks(t, DOMAIN keys)

\* (Mutants: a status that nobody reads; the whole row is written; a
\* check that raises leaves the status.)
CheckedValid(k, loaded, verdict) ==
  [keys[k] EXCEPT !.status = IF verdict = "healthy" THEN "valid" ELSE verdict]
CheckedWhole(k, loaded, verdict) == [loaded EXCEPT !.status = verdict, !.checked = verdict]
CheckedUnlessRaised(k, loaded, verdict) ==
  [keys[k] EXCEPT !.status = IF verdict = "error" THEN @ ELSE Written(@, loaded.status, verdict),
                  !.checked = verdict]
Checked(k, loaded, verdict) ==
  [keys[k] EXCEPT !.status = Written(@, loaded.status, verdict), !.checked = verdict]

ValidateCommits(t) ==
  /\ task[t].op = "validate"
  /\ LET loaded == task[t].loaded
     IN \E verdict \in [DOMAIN loaded -> Verdicts] :
          Stored(t, DOMAIN loaded, LAMBDA k : Checked(k, loaded[k], verdict[k]))
  /\ UNCHANGED <<given, overlapped>>

\* update_key and toggle_platform read their rows and set `enabled`.
Sets(t, ids, value) ==
  /\ Begin(t, [op |-> "set", loaded |-> [k \in ids |-> keys[k]], value |-> value])
  /\ UNCHANGED keyVars

UpdateKey(t)      == \E k \in DOMAIN keys, b \in BOOLEAN : Sets(t, {k}, b)
TogglePlatform(t) == \E p \in Platforms, b \in BOOLEAN : Sets(t, Of(p), b)

Switched(k, loaded, value) ==
  [keys[k] EXCEPT !.enabled = Written(@, loaded.enabled, value)]

SetCommits(t) ==
  /\ task[t].op = "set"
  /\ LET loaded == task[t].loaded
         value == task[t].value
     IN Stored(t, {k \in DOMAIN loaded : loaded[k].enabled # value},
               LAMBDA k : Switched(k, loaded[k], value))
  /\ UNCHANGED <<given, overlapped>>

\* delete_key; a key that requests refer to is refused by the database (Fail).
DeleteKey(t) ==
  \E k \in DOMAIN keys : Begin(t, [op |-> "delete", id |-> k]) /\ UNCHANGED keyVars

DeleteCommits(t) ==
  /\ task[t].op = "delete"
  /\ keys' = [k \in DOMAIN keys \ {task[t].id} |-> keys[k]]
  /\ End(t) /\ UNCHANGED <<given, overlapped>>

-----------------------------------------------------------------------------
\* migrate_api_keys, a script that is run again after it has failed, never twice
\* at a time.  It looks for each old key's platform in the table, not among the
\* keys it is about to add.
MigrateKeys(t) ==
  /\ \A u \in Tasks : task[u].op # "migrate-keys"
  /\ Begin(t, [op |-> "migrate-keys", todo |-> OldKeys, add |-> {}, met |-> {}])
  /\ UNCHANGED keyVars

\* (Mutants: keys that are to be added are found too; nothing is looked for.)
TakenOrAdded(t, platform) ==
  Of(platform) # {} \/ \E o \in task[t].add : OldRow[o].platform = platform
TakenNever(t, platform) == FALSE
Taken(t, platform) == Of(platform) # {}

MigrateLooks(t) ==
  /\ task[t].op = "migrate-keys"
  /\ \E o \in task[t].todo :
       LET p == OldRow[o].platform
       IN Continue(t, [task[t] EXCEPT !.todo = @ \ {o},
                         !.add = IF Taken(t, p) THEN @ ELSE @ \cup {o},
                         !.met = IF Of(p) = {} THEN @ ELSE @ \cup {p}])
  /\ UNCHANGED keyVars

MigrateCommits(t) ==
  /\ task[t].op = "migrate-keys" /\ task[t].todo = {}
  /\ Cardinality(task[t].add) <= Cardinality(Fresh)
  /\ LET id == CHOOSE f \in [task[t].add -> Fresh] :
                 \A o, q \in task[t].add : f[o] = f[q] => o = q
         new == {id[o] : o \in task[t].add}
         row(o) == [platform |-> OldRow[o].platform, enabled |-> OldRow[o].enabled,
                    status |-> OldRow[o].status, checked |-> "never", from |-> o]
     IN /\ keys' = [k \in DOMAIN keys \cup new |->
                      IF k \in new THEN row(CHOOSE o \in task[t].add : id[o] = k) ELSE keys[k]]
        /\ given' = given \cup new
  /\ End(t) /\ UNCHANGED overlapped

KeysNext ==
  \E t \in Tasks :
    \/ CreateKey(t) \/ CreateCommits(t)
    \/ ValidateKey(t) \/ ValidateAll(t) \/ ValidateCommits(t)
    \/ UpdateKey(t) \/ TogglePlatform(t) \/ SetCommits(t)
    \/ DeleteKey(t) \/ DeleteCommits(t)
    \/ MigrateKeys(t) \/ MigrateLooks(t) \/ MigrateCommits(t)
=============================================================================
