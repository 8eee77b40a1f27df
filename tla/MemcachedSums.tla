----------------------------- MODULE MemcachedSums -----------------------------
(***************************************************************************)
(* Properties of Memcached that add up the hits of several calls.          *)
(***************************************************************************)
EXTENDS Memcached

\* The hits of some slots, one by one; their number is the sum of the addends.
HitsOf(slots) == UNION {{s} \X (1..HitsAddend(s[1])) : s \in slots}
Hits(slots) == Cardinality(HitsOf(slots))

Pending(k) ==
    {s \in Slot : s[2] \in todo[s[1]] /\ CacheKey(s[1], s[2]) = k}

\* Calls whose answer is given and whose task is not submitted yet.
Unsubmitted(k) ==
    {s \in Slot : /\ pc[s[1]] \in {"reply", "submit"} /\ HasKey(s[1], s[2])
                  /\ s[2] \notin overLocal[s[1]] /\ CacheKey(s[1], s[2]) = k}

\* Nothing is counted twice or overwritten: while memcached keeps a key, its
\* value is the sum of the hits of the increments it has executed on it
\* (cache_impl.go:161-177).
CounterIsSumOfHits ==
    \A k \in Key \ dropped : item[k] = Hits(CountedOn(k))

\* What the limit means with asynchronous increments (README.md:1070): a call is
\* answered OVER_LIMIT by memcached exactly when the hits counted before it read
\* the counter, with its own, exceed the limit.  Only hits still in flight at
\* that moment escape it.  Counters stay below 2^31, the range ParseInt accepts.
AnswerFitsCounter ==
    \A p \in Request, i \in Idx :
       LET hits == Hits(seen[p][i])
       IN  /\ code[p][i] # "none" /\ HasKey(p, i) /\ i \notin overLocal[p]
           /\ args[p].desc[i] \notin ShadowMode
           /\ faults = 0 /\ CacheKey(p, i) \notin dropped
           /\ hits < Word \div 2 /\ hits + HitsAddend(p) < Word
           => (code[p][i] = "OVER_LIMIT") <=> (hits + HitsAddend(p) > args[p].limit[i])

\* The local cache refuses a key only when its window is used up, or will be
\* once the increments on their way are carried out: the key is entered before
\* the hits that took it over the limit are counted (base_limiter.go:103-116,
\* cache_impl.go:139-144).
LocalRefusalIsDue ==
    faults = 0 => \A k \in Key \ dropped, p \in Request, i \in Idx :
       /\ localCache[k] > now
       /\ HasKey(p, i) /\ CacheKey(p, i) = k
       => item[k] + Hits(Pending(k)) + Hits(Unsubmitted(k)) > args[p].limit[i]
================================================================================
