---------------------------- MODULE FixedCacheQuota ----------------------------
(***************************************************************************)
(* FixedCache implements Quota: whatever its concurrent calls do, each     *)
(* descriptor behaves as if it had taken its hits in one atomic step, the  *)
(* INCRBY, and been answered by that step.  A refusal by the local cache   *)
(* takes effect at the lookup.                                             *)
(***************************************************************************)
EXTENDS FixedCache

Slot == Request \X Idx

\* The question of a descriptor that has a limit.
AskedOf(p, i) ==
    IF HasKey(p, i)
    THEN {[ key |-> CacheKey(p, i), limit |-> args[p].limit[i],
            enforced |-> args[p].desc[i] \notin ShadowMode ]}
    ELSE {}

GrantOf(p, i) == IF Counted(p, i) THEN result[p][i] ELSE -1

VerdictOf(p, i) ==
    IF ~HasKey(p, i) THEN "none"
    ELSE IF i \in overLocal[p] /\ args[p].desc[i] \notin ShadowMode THEN "OVER_LIMIT"
    ELSE status[p][i].code

askedNow == [s \in Slot |-> AskedOf(s[1], s[2])]
grantNow == [s \in Slot |-> GrantOf(s[1], s[2])]
verdictNow == [s \in Slot |-> VerdictOf(s[1], s[2])]

Q == INSTANCE Quota WITH
       Slot <- Slot, Key <- Key, MaxHits <- Word - 1,
       used <- counter, reset <- expired,
       asked <- askedNow, grant <- grantNow, verdict <- verdictNow

\* DoLimit implements the abstract quota: every descriptor is answered by the value
\* its own atomic increment left the counter at, and the local cache refuses only
\* what is over its limit (fixed_cache_impl.go:49-212).
ImplementsQuota == Q!QuotaSpec
================================================================================
