------------------------ MODULE ProviderAdminProperties ------------------------
(***************************************************************************)
(* What ProviderAdmin is held to.  The first group holds; the last one is  *)
(* what the docstring of reload_from_db says and the code does not do.     *)
(***************************************************************************)
EXTENDS ProviderAdmin

Reloading == {"refresh", "clear", "load", "fill"}

\* No interleaving of creations, updates, toggles, deletions and syncs leaves an
\* enabled platform without its provider, although every reload first drops them
\* all and a load never replaces one: if the load of the last reload did not fail,
\* a platform that can be loaded is missing only while a reload is still to come.  A
\* call that fails after its commit and before its reload costs the platform it wrote,
\* until the next reload, and no other.
EnabledRoutable ==
  ~loadLost =>
    \A p \in Ids \ (Native \cup missed) :
      Loadable(table[p]) /\ providers[p] = NoUrl => \E t \in Tasks : pc[t] \in Reloading

\* A row that get() would answer from the cache was the table's at some time in the
\* last Ttl, although rows are queried, committed, invalidated and stored in any
\* order: a get() that stores rows it has read before an invalidation brings a stale
\* row back, but for no longer than that.
CacheRecent ==
  \A p \in Ids :
    cache[p] # NoRow /\ now < expiry => table[p] = cache[p] \/ now < left[p][cache[p]] + Ttl

\* The calls keep the registry as requests may rely on it, however their reloads
\* overlap and fail: a loaded platform is lost only when a reload empties the
\* registry, and appears only when one has loaded.
Registry == INSTANCE ProviderReloads
              WITH Platforms <- Ids, Reloads <- Tasks,
                   registry <- Native \cup {p \in Ids : providers[p] # NoUrl},
                   loading  <- {t \in Tasks : pc[t] \in {"load", "fill"}}

ImplementsReloads == Registry!Spec

-----------------------------------------------------------------------------

\* providers/registry.py:65 "Removes existing GenericOpenAIProvider entries and
\* re-loads from DB": when no call is under way, the last load did not fail and every
\* call that committed has come to its reload, the registry is what the table says.
RegistryFollowsTable ==
  ~loadLost /\ missed = {} /\ (\A t \in Tasks : pc[t] \in {"idle", "done"}) =>
    \A p \in Ids \ Native :
      providers[p] = IF Loadable(table[p]) THEN table[p].url ELSE NoUrl
=============================================================================
