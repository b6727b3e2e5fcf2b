----------------------- MODULE FallbackRouterProperties -----------------------
(***************************************************************************)
(* What FallbackRouter is held to.  The first group holds; the second      *)
(* states what comments of the code say and the code does not do.          *)
(***************************************************************************)
EXTENDS FallbackRouter

FailedModels(r) == {p[1] : p \in failed[r]}

-----------------------------------------------------------------------------

\* The retry loop of proxy/api.py never walks the chain back to a model that has
\* already failed for this request.  The loop is "while True": only the cooldown it
\* has flushed, in a session without autoflush, keeps it from going round for ever.
NoRepeat ==
  \A r \in Requests :
    pc[r] = "call" /\ ~route[r].sticky => route[r].model \notin FailedModels(r)

\* The committed cooldowns are exactly the failures of the requests that were
\* answered: a request that ends with 429 or 500 leaves none behind, one that is
\* answered loses none, and no request commits what another one has written.
CooldownsExact ==
  cooldowns = UNION {failed[r] : r \in {q \in Requests : pc[q] = "answered"}}

\* A sticky entry without streams and with keys that decrypt is backed by a request
\* of that sticky key which chose the model from the chain and whose call has
\* succeeded or is still to end: no failed call leaves its model behind.
StickyBacked ==
  \A s \in StickyKeys :
    sticky[s] # NoModelId =>
      \E r \in Requests :
        /\ StickyKeyOf[r] = s /\ pc[r] \in {"call", "commit", "answered"}
        /\ ModelIdOf[route[r].model] = sticky[s]

\* Check-then-act on the usage rows may exceed a limit, by no more than the
\* connection pool admits at a time: calls that came through the chain, committed
\* and in the window, are at most the limit and PoolSize - 1 more.
ChainUse(window, m, k) ==
  {q \in window : route[q].model = m /\ route[q].key = k /\ ~route[q].sticky}

OvershootBounded ==
  \A m \in Models, k \in Keys :
    /\ Rpm[m] > 0 => Cardinality(ChainUse(minute, m, k)) <= Rpm[m] + PoolSize - 1
    /\ Rpd[m] > 0 => Cardinality(ChainUse(day, m, k))    <= Rpd[m] + PoolSize - 1

\* A walk locks cooldown rows in the order of the chain, so with one chain, no sticky
\* entries, nothing reconfigured, and no limit on a row above one that may fail, no two
\* requests wait for each other.
NoLockCycle == \A r \in Requests : ~Deadlocked(r)

\* A fallback row of r that would have answered it: enabled, its provider loaded and
\* reliable, with a key that can be chosen and decrypted, and without limits.
Works(r, f) ==
  LET m == RowModel[f] IN
  /\ f \in Eligible[r] \cap live
  /\ m \in Reliable /\ PlatformOf[m] \in registry /\ Rpm[m] = 0 /\ Rpd[m] = 0
  /\ \E k \in enabled \cap usable : KeyPlatform[k] = PlatformOf[m]
  /\ \A k \in enabled : KeyPlatform[k] = PlatformOf[m] => k \notin Undecryptable

\* With nothing reconfigured, 429 means that the chain held no working candidate.
RejectedOnlyWhenNoneWork ==
  \A r \in Requests : pc[r] = "rejected" => \A f \in FallbackRows : ~Works(r, f)

\* Every request ends, whatever providers answer, rows lock and administrators do:
\* the retry loop terminates and no lock wait is for ever.
RequestsFinish == \A r \in Requests : <>(pc[r] \in Finished)

-----------------------------------------------------------------------------

\* proxy/api.py:182 "Clear sticky session so retry picks a different provider".
RetryPicksDifferent ==
  \A r \in Requests : pc[r] = "call" => route[r].model \notin FailedModels(r)

\* proxy/api.py:157 "cooldown in stream - prevents retry on next request": a request
\* that arrives is not sent to a model with a committed cooldown.
NextRequestAvoidsCooled ==
  [][\A r \in Requests :
       pc[r] = "arrived" /\ pc'[r] = "stickyModel" =>
         \A p \in cooldowns : p[1] # route'[r].model]_vars

\* proxy/api.py:125 "try each candidate until one works": a request does not fail
\* while a candidate of its chain works.
TriesUntilOneWorks ==
  \A r \in Requests : pc[r] = "crashed" => \A f \in FallbackRows : ~Works(r, f)

\* router/services.py:206 gives a cooldown an expires_at_ms: a walk does not skip a
\* model for a cooldown that has passed it.
LapsedCooldownIgnored ==
  [][\A r \in Requests :
       pc[r] = "cooldown" /\ pc'[r] = "provider" =>
         \E p \in (cooldowns \ lapsed) \cup flushed[r] : p[1] = route[r].model]_vars
=============================================================================
