------------------------------ MODULE BaseLimiter ------------------------------
(***************************************************************************)
(* The decision logic every cache backend shares                           *)
(* (src/src/limiter/base_limiter.go, src/src/utils/utilities.go): which    *)
(* window a key belongs to, what a descriptor is answered for a counter    *)
(* value, and by how much each statistic of the rule grows.  Everything    *)
(* here is a pure operator; the backends keep the state.                   *)
(***************************************************************************)
EXTENDS Integers

CONSTANTS
    Word,       \* number of values of a uint32, 2^32 in the program
    Divider,    \* seconds of each unit (scaled down in the model)
    NearNum,    \* nearLimitRatio as the fraction
    NearDen     \*   NearNum / NearDen

Units == {"SECOND", "MINUTE", "HOUR", "DAY"}

ASSUME WordAssumption == Word \in Nat \ {0}
ASSUME DividerAssumption == Divider \in [Units -> Nat \ {0}]
\* README.md:835: the ratio is on a "0-1 scale".
ASSUME RatioAssumption ==
    NearNum \in Nat /\ NearDen \in Nat \ {0} /\ NearNum <= NearDen

Uint32(n) == n % Word

UMax(a, b) == IF a > b THEN a ELSE b

UnitToDivider(unit) == Divider[unit]

\* Start of the window of a unit that contains the second t.
WindowStart(t, unit) == (t \div UnitToDivider(unit)) * UnitToDivider(unit)

\* Mutant: the seconds since the window began.
CalculateReset_Elapsed(unit, t) == t % UnitToDivider(unit)

CalculateReset(unit, t) == UnitToDivider(unit) - (t % UnitToDivider(unit))

NearLimitThreshold(requestsPerUnit) == (requestsPerUnit * NearNum) \div NearDen

(***************************************************************************)
(* LimitInfo: the limit of the rule and the value of its counter before    *)
(* and after the hits of this request.                                     *)
(***************************************************************************)
NewRateLimitInfo(requestsPerUnit, before, after) ==
    [ overLimitThreshold  |-> requestsPerUnit,
      nearLimitThreshold  |-> NearLimitThreshold(requestsPerUnit),
      limitBeforeIncrease |-> before,
      limitAfterIncrease  |-> after ]

\* Mutant: decides on the counter without the hits of this request.
IsOverLimitThresholdReached_Before(info) ==
    info.limitBeforeIncrease > info.overLimitThreshold

IsOverLimitThresholdReached(info) ==
    info.limitAfterIncrease > info.overLimitThreshold

(***************************************************************************)
(* Growth of the statistics.                                               *)
(***************************************************************************)
StatNames == {"OverLimit", "NearLimit", "OverLimitWithLocalCache",
              "WithinLimit", "ShadowMode"}

\* Mutant: charges the whole excess of the counter to every request.
OverLimitHits_WholeExcess(info, hits) ==
    Uint32(info.limitAfterIncrease - info.overLimitThreshold)

\* checkOverLimitThreshold, OverLimit part.
OverLimitHits(info, hits) ==
    IF info.limitBeforeIncrease >= info.overLimitThreshold
    THEN hits
    ELSE Uint32(info.limitAfterIncrease - info.overLimitThreshold)

\* Mutant: counts the whole near band.
NearHitsWhenOver_WholeBand(info) ==
    IF info.limitBeforeIncrease >= info.overLimitThreshold
    THEN 0
    ELSE Uint32(info.overLimitThreshold - info.nearLimitThreshold)

\* checkOverLimitThreshold, NearLimit part.
NearHitsWhenOver(info) ==
    IF info.limitBeforeIncrease >= info.overLimitThreshold
    THEN 0
    ELSE Uint32(info.overLimitThreshold
                - UMax(info.nearLimitThreshold, info.limitBeforeIncrease))

\* checkNearLimitThreshold.
NearHitsWhenWithin(info, hits) ==
    IF info.limitAfterIncrease <= info.nearLimitThreshold THEN 0
    ELSE IF info.limitBeforeIncrease >= info.nearLimitThreshold THEN hits
    ELSE Uint32(info.limitAfterIncrease - info.nearLimitThreshold)

IncreaseShadowModeStats(local, info, hits) ==
    IF local \/ info.limitBeforeIncrease >= info.overLimitThreshold
    THEN hits
    ELSE Uint32(info.limitAfterIncrease - info.overLimitThreshold)

(***************************************************************************)
(* GetResponseDescriptorStatus for a descriptor that has a limit: `local'  *)
(* says that the local cache holds its key.  The cases are exclusive.      *)
(***************************************************************************)
IsOverLimit(local, info) == local \/ IsOverLimitThresholdReached(info)

ResponseCode(local, info, shadow) ==
    IF IsOverLimit(local, info) /\ ~shadow THEN "OVER_LIMIT" ELSE "OK"

\* Mutant: not clamped at zero.
LimitRemaining_Unclamped(local, info) ==
    info.overLimitThreshold - info.limitAfterIncrease

LimitRemaining(local, info) ==
    IF IsOverLimit(local, info) THEN 0
    ELSE info.overLimitThreshold - info.limitAfterIncrease

\* Mutant: the last hit within the limit already enters the local cache.
SetsLocalCache_AtLimit(local, info) ==
    ~local /\ info.limitAfterIncrease >= info.overLimitThreshold

\* The key enters the local cache when the counter, not the cache, said no.
SetsLocalCache(local, info) == ~local /\ IsOverLimitThresholdReached(info)

StatIncrease(stat, local, info, hits, shadow) ==
    LET over == IsOverLimitThresholdReached(info)
    IN  CASE stat = "OverLimit" ->
                 IF local THEN hits
                 ELSE IF over THEN OverLimitHits(info, hits) ELSE 0
          [] stat = "NearLimit" ->
                 IF local THEN 0
                 ELSE IF over THEN NearHitsWhenOver(info)
                 ELSE NearHitsWhenWithin(info, hits)
          [] stat = "OverLimitWithLocalCache" -> IF local THEN hits ELSE 0
          [] stat = "WithinLimit" -> IF local \/ over THEN 0 ELSE hits
          [] stat = "ShadowMode" ->
                 IF (local \/ over) /\ shadow
                 THEN IncreaseShadowModeStats(local, info, hits) ELSE 0
================================================================================
