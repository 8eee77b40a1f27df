----------------------------- MODULE MCFixedCache ------------------------------
(***************************************************************************)
(* Instances of FixedCache for TLC: two descriptors, one limited per       *)
(* second and one per minute (scaled to two seconds), at most two          *)
(* descriptors in a request.                                               *)
(***************************************************************************)
EXTENDS FixedCacheSums, FixedCacheQuota, TLC

CONSTANTS a, b, r1, r2, r3

MCDivider == [u \in Units |-> IF u = "SECOND" THEN 1 ELSE IF u = "MINUTE" THEN 2 ELSE 4]
MCUnit == (a :> "SECOND") @@ (b :> "MINUTE")

One(d, limit, hits) ==
    [n |-> 1, desc |-> <<d, NoLimit>>, limit |-> <<limit, 0>>, hitsAddend |-> hits]
Two(d, dLimit, e, eLimit, hits) ==
    [n |-> 2, desc |-> <<d, e>>, limit |-> <<dLimit, eLimit>>, hitsAddend |-> hits]

\* Windows that end while calls are in flight.  Limits of one hit: two hits at
\* once put a key into the local cache.  The per-second descriptor comes last in
\* one request and after a descriptor without a rule in another.
WindowCalls ==
    { One(b, 1, 0), Two(b, 1, a, 1, 2), Two(NoLimit, 0, a, 1, 1) }

\* Three calls within one window; the same descriptor twice in a request.
QuotaCalls ==
    { One(a, 3, 1), One(b, 1, 1), Two(a, 3, b, 1, 1), Two(b, 1, a, 3, 1),
      Two(a, 3, a, 3, 1), One(a, 3, 2) }

\* Stop mode reads the counters first only for two descriptors or more.  The
\* other calls use b up, or leave room for exactly one more hit.
StopCalls == { One(b, 2, 1), One(b, 2, 3), Two(a, 2, b, 2, 1) }

\* A call of two hits finds a counter one over its limit.
StopStatCalls == { One(b, 2, 3), Two(a, 2, b, 2, 1), Two(b, 2, a, 2, 2) }

\* Two requests over a shadow-mode rule and an enforced one.
ShadowCalls == { One(a, 1, 2), Two(a, 1, b, 1, 1) }

Symmetry == Permutations(Request)
================================================================================
