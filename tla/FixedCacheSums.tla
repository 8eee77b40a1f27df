--------------------------- MODULE FixedCacheSums ------------------------------
(***************************************************************************)
(* Properties of FixedCache that add up the hits of several calls: what a  *)
(* window admits, and what the statistics say of it.                       *)
(***************************************************************************)
EXTENDS FixedCache

\* The overall answer is OK (the service takes the OR of the refusals).
Admitted(p) ==
    pc[p] = "done" /\ \A i \in Used(p) : status[p][i].code = "OK"

\* The enforced descriptors of admitted calls that count on key k.
AdmittedOn(k) ==
    {s \in Request \X Idx :
       /\ Admitted(s[1]) /\ HasKey(s[1], s[2])
       /\ CacheKey(s[1], s[2]) = k /\ k[1] \notin ShadowMode}

\* The hits of some slots, one by one; their number is the sum of the addends.
HitsOf(slots) == UNION {{s} \X (1..HitsAddend(s[1])) : s \in slots}
Hits(slots) == Cardinality(HitsOf(slots))

\* The hits admitted on one key, over all concurrent calls, never exceed the
\* largest limit a call was given for it: fixed_cache_impl.go decides on the value
\* INCRBY returned.  After Redis has expired the key, or its counter has left the
\* range of a uint32, nothing is promised for it any more.
QuotaRespected ==
    \A k \in Key \ expired :
       AdmittedOn(k) # {} /\ counter[k] < Word =>
         \E s \in AdmittedOn(k) : Hits(AdmittedOn(k)) <= args[s[1]].limit[s[2]]

\* A call that is admitted has counted all its hits on every one of its keys.  In
\* stop mode a call adds nothing to its other keys when one of them is over its
\* limit, or was when it was read; however other calls raise the counters between
\* that GET and the INCRBYs, the call must then be refused, or it would be free
\* (fixed_cache_impl.go:101-148).
AdmittedIsCounted ==
    \A p \in Request : Admitted(p) =>
       \A i \in Idx : HasKey(p, i) =>
          Counted(p, i) /\ IncrAmount(p, i) = HitsAddend(p)

(***************************************************************************)
(* Statistics, once every call that started has been answered.             *)
(***************************************************************************)
Quiescent == \A p \in Request : pc[p] \in {"idle", "done"}

SlotsOn(k) == {s \in Request \X Idx :
                 HasKey(s[1], s[2]) /\ CacheKey(s[1], s[2]) = k}

\* The windows of d that calls were counted in, and the limit of each.
Windows(d) == {k \in Key : k[1] = d /\ SlotsOn(k) # {}}
LimitOn(k) == LET s == CHOOSE s \in SlotsOn(k) : TRUE IN args[s[1]].limit[s[2]]

Unexpired(d) == \A k \in expired : k[1] # d

\* over_limit is exactly the number of hits beyond the limit of their window,
\* however the concurrent calls interleave and whether Redis or the local
\* cache refused them (README.md:831, base_limiter.go:92-97 and 159-174).
OverLimitStatExact ==
    Quiescent => \A d \in Descriptor : Unexpired(d) =>
       stats[d]["OverLimit"] =
         Cardinality(UNION {{k} \X ((LimitOn(k) + 1)..Hits(SlotsOn(k))) : k \in Windows(d)})

\* near_limit is exactly the number of hits above the near threshold and not
\* beyond the limit (README.md:830, base_limiter.go:170-188).
NearLimitStatExact ==
    Quiescent => \A d \in Descriptor : Unexpired(d) =>
       stats[d]["NearLimit"] =
         Cardinality(UNION {{k} \X {n \in (NearLimitThreshold(LimitOn(k)) + 1)..LimitOn(k) :
                                      n <= Hits(SlotsOn(k))} : k \in Windows(d)})
================================================================================
