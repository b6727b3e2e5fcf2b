--------------------------- MODULE ProviderReloads ---------------------------
(***************************************************************************)
(* What the rest of the program may rely on in ProviderRegistry: reloads,  *)
(* of which any number may overlap, empty the registry at once and fill it *)
(* again later.  A platform that is loaded is lost only to the start of a  *)
(* reload, and appears only by the end of one.                             *)
(***************************************************************************)

CONSTANTS
  Platforms,
  Native,    \* platforms that are registered in code
  Reloads    \* reloads that may happen

VARIABLES
  registry,  \* platforms in ProviderRegistry._providers
  loading    \* reloads that have emptied it and not yet loaded

reloadVars == <<registry, loading>>

Init ==
  /\ registry \in SUBSET Platforms /\ Native \subseteq registry
  /\ loading = {}

\* reload_from_db drops every loaded provider before its first await ...
Empties(l) ==
  /\ l \notin loading
  /\ registry' = Native
  /\ loading' = loading \cup {l}

\* ... and load_from_db adds what it has read, or nothing when it fails: it drops
\* none that another load has added.
Loads(l) ==
  /\ l \in loading
  /\ \E S \in SUBSET Platforms : registry' = registry \cup S
  /\ loading' = loading \ {l}

Next == \E l \in Reloads : Empties(l) \/ Loads(l)

Spec == Init /\ [][Next]_reloadVars
=============================================================================
