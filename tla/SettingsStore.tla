--------------------------- MODULE SettingsStore ---------------------------
(***************************************************************************)
(* settings/api.py and migrate_settings.  The primary key of the table is  *)
(* (key, id), so the database admits two rows of one key; every reader     *)
(* then fails with MultipleResultsFound.                                   *)
(***************************************************************************)
EXTENDS AdminTasks, FiniteSets

CONSTANTS
  Names,       \* setting keys, "api_key" among them
  Values,
  OldSettings  \* the settings of the old SQLite database, values by key

ASSUME SettingsAssumption ==
  /\ "api_key" \in Names
  /\ DOMAIN OldSettings \subseteq Names /\ \A n \in DOMAIN OldSettings : OldSettings[n] \in Values

VARIABLES
  settings,    \* rows of settings; `by` is the task that inserted the row
  collided     \* history: names that a task found absent while another task was
               \* about to insert them

settingVars == <<settings, collided>>

SettingsInit ==
  /\ settings \in SUBSET [name : Names, value : Values, by : {0}]
  /\ \A s, u \in settings : s.name = u.name => s = u
  /\ collided = {}

Rows(n) == {s \in settings : s.name = n}

\* The names a task has found absent and will insert.
Absent(t) == IF task[t].op = "put" THEN {n \in DOMAIN task[t].found : task[t].found[n] = {}} ELSE {}

\* update_settings and regenerate_api_key ask for values; migrate_settings asks
\* for the old ones and leaves what it finds.
Puts(t, wanted, keep) ==
  /\ Begin(t, [op |-> "put", wanted |-> wanted, keep |-> keep, by |-> begun + 1,
               found |-> [n \in {} |-> {}]])
  /\ UNCHANGED settingVars

UpdateSettings(t) ==
  \E ns \in (SUBSET Names) \ {{}} : \E wanted \in [ns -> Values] : Puts(t, wanted, FALSE)

RegenerateApiKey(t) ==
  \E v \in Values : Puts(t, [n \in {"api_key"} |-> v], FALSE)

MigrateSettings(t) ==
  /\ \A u \in Tasks : task[u].op = "put" => ~task[u].keep
  /\ Puts(t, OldSettings, TRUE)

\* (Mutant: the query is left out and the row is added.)
FindNothing(n) == {}
Find(n) == Rows(n)

\* One query for each name.
Looks(t) ==
  /\ task[t].op = "put"
  /\ \E n \in DOMAIN task[t].wanted \ DOMAIN task[t].found :
       /\ Cardinality(Find(n)) <= 1
       /\ Continue(t, [task[t] EXCEPT !.found =
                         [m \in DOMAIN @ \cup {n} |-> IF m = n THEN Find(n) ELSE @[m]]])
       /\ collided' = IF Rows(n) = {} /\ \E u \in Tasks \ {t} : n \in Absent(u)
                      THEN collided \cup {n} ELSE collided
  /\ UNCHANGED settings

\* A row is known by its name and by the task that inserted it; its UPDATE is
\* issued only for another value than the one that was found.
PutCommits(t) ==
  /\ task[t].op = "put" /\ DOMAIN task[t].found = DOMAIN task[t].wanted
  /\ LET wanted == task[t].wanted
         found  == task[t].found
         Replaces(s) == /\ s.name \in DOMAIN wanted /\ ~task[t].keep
                        /\ \E f \in found[s.name] : f.by = s.by /\ f.value # wanted[s.name]
     IN settings' = {IF Replaces(s) THEN [s EXCEPT !.value = wanted[s.name]] ELSE s : s \in settings}
                    \cup {[name |-> n, value |-> wanted[n], by |-> task[t].by] : n \in Absent(t)}
  /\ End(t) /\ UNCHANGED collided

SettingsNext ==
  \E t \in Tasks :
    \/ UpdateSettings(t) \/ RegenerateApiKey(t) \/ MigrateSettings(t)
    \/ Looks(t) \/ PutCommits(t)
=============================================================================
