-------------------------- MODULE MCAdministration --------------------------
(***************************************************************************)
(* Two tasks at a time over one area of the tables: keys, settings, the    *)
(* catalog, the chain or the migrated requests.  Tables that no task of    *)
(* the area writes start as small as they can be.                          *)
(***************************************************************************)
EXTENDS Administration, TLC

CONSTANTS t1, t2, k1, k2, k3, k4, k5, o1, o2

MCSymmetry == Permutations({t1, t2})

VARIABLE area

\* Two old keys of one platform.
MCOldRow == [o \in {o1, o2} |-> [platform |-> "p1", enabled |-> FALSE, status |-> "healthy"]]

MCOldSettings == [n \in {"api_key"} |-> "v1"]

\* Version 0 has an address for p1 and not for p2; version 1 has it the other way
\* round, and new features of m1.  An override makes p2 native, as for cloudflare.
MCCatalogOf == [v \in 0 .. 1 |->
  [platforms |-> [p \in {"p1", "p2"} |->
                    [url |-> IF (p = "p1") = (v = 0) THEN "cat" ELSE "none",
                     rest |-> IF v = 0 THEN "a" ELSE "b"]],
   models |-> [m \in {"m1"} |-> [features |-> IF v = 0 THEN "chat" ELSE "vision", window |-> "w1"]]]]
MCOverride == [p \in {"p1", "p2"} |->
                 IF p = "p2" THEN [native |-> TRUE] ELSE [f \in {} |-> ""]]
MCSeedPlatform == [p \in {"p1"} |-> [url |-> "own", rest |-> "a"]]
MCSeedWindow == [m \in {"m1"} |-> "w2"]
MCPoolsOf == [mf \in {"m1", "m2", "m3"} \X {"chat", "vision"} |->
                IF mf[2] = "vision" THEN {"chat", "vision"} ELSE {"chat"}]
MCSeedModel == [m \in {"m1", "m2"} |-> [features |-> "vision", window |-> "w2"]]
MCOldModels == [m \in {"m1", "m3"} |-> [features |-> "chat", window |-> "w1", enabled |-> FALSE]]

In(a, rows) == IF area = a THEN rows ELSE {<<>>}

MCInit ==
  /\ area \in {"keys", "settings", "catalog", "chain", "requests"}
  /\ keys \in In("keys", UNION {[ids -> [platform : {"p1"}, enabled : BOOLEAN, status : {"unknown"},
                                checked : {"never"}, from : {New}]] : ids \in {{}, {k1}, {k1, k2}}})
  /\ settings \in IF area = "settings" THEN SUBSET [name : Names, value : {"v1"}, by : {0}] ELSE {{}}
  /\ platforms \in In("catalog", [{"p1", "p2"} -> [url : {"own", "none"}, native : {FALSE},
                                                  rest : {"a"}, enabled : {TRUE}]])
  /\ models \in CASE area = "catalog" -> [{"m1"} -> [features : {"chat"}, window : {"w1"}, enabled : BOOLEAN]]
                  [] area = "chain" -> [{"m1"} -> [features : {"chat"}, window : {"w1"}, enabled : {TRUE}]]
                  [] OTHER -> {<<>>}
  /\ Init

MCNext ==
  /\ UNCHANGED area
  /\ \/ area = "keys" /\ OnKeys
     \/ area = "settings" /\ OnSettings
     \/ area = "catalog" /\ OnCatalog
     \/ area = "chain" /\ OnChain
     \/ area = "requests" /\ OnRequests
     \/ Failure

MCSpec == MCInit /\ [][MCNext]_<<vars, area>>

\* The script over the requests, run again.
RepeatSpec == (MCInit /\ area = "requests") /\ [][MCNext]_<<vars, area>>
=============================================================================
