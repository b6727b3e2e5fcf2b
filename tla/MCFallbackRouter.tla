--------------------------- MODULE MCFallbackRouter ---------------------------
(***************************************************************************)
(* Small instances of FallbackRouter.  Model names of the tables: m1, m2,  *)
(* m3 are catalog rows of platforms p1, p2, p3 in the order of the chain,  *)
(* k1, k2, k3 their keys; k4 is a second key of p1.                        *)
(***************************************************************************)
EXTENDS FallbackRouterProperties, TLC

CONSTANTS m1, m2, m3, k1, k2, k3, k4, p1, p2, p3, id1, id2, id3,
          f1, f2, f3, r1, r2, r3, r4, s1

\* Tables over the whole of their names, cut to the rows an instance uses.
AllPlatformOf  == (m1 :> p1) @@ (m2 :> p2) @@ (m3 :> p3)
AllKeyPlatform == (k1 :> p1) @@ (k2 :> p2) @@ (k3 :> p3) @@ (k4 :> p1)
AllRowModel    == (f1 :> m1) @@ (f2 :> m2) @@ (f3 :> m3)
AllPriority    == (f1 :> 1) @@ (f2 :> 2) @@ (f3 :> 3)
Cut(f, S)      == [x \in S |-> f[x]]

MCPlatformOf  == Cut(AllPlatformOf, Models)
MCKeyPlatform == Cut(AllKeyPlatform, Keys)
MCRowModel    == Cut(AllRowModel, FallbackRows)
MCPriority    == Cut(AllPriority, FallbackRows)

\* model_id per row.
UniqueId == Cut((m1 :> id1) @@ (m2 :> id2) @@ (m3 :> id3), Models)

NoLimit  == [m \in Models |-> 0]
OneOnM1  == [m \in Models |-> IF m = m1 THEN 1 ELSE 0]
OneOnM2  == [m \in Models |-> IF m = m2 THEN 1 ELSE 0]
TwoOnM2  == [m \in Models |-> IF m = m2 THEN 2 ELSE 0]

AllFit     == [r \in Requests |-> Models]
AllRows    == [r \in Requests |-> FallbackRows]

NoneSticky == [r \in Requests |-> NoSticky]
AllSticky  == [r \in Requests |-> s1]

PlainRequests == Permutations({r1, r2, r3})
=============================================================================
