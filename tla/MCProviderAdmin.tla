---------------------------- MODULE MCProviderAdmin ----------------------------
(***************************************************************************)
(* Small instances of ProviderAdmin: a generic platform that the catalog   *)
(* knows with an API URL.                                                  *)
(***************************************************************************)
EXTENDS ProviderAdminProperties, FiniteSets, TLC

CONSTANTS p1, u1

MCCatalogUrl == [p \in Ids |-> u1]

\* Tasks are interchangeable: none is named by the specification.
TaskSymmetry == Permutations(Tasks)
=============================================================================
