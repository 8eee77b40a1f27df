------------------------------ MODULE FixedCache -------------------------------
(***************************************************************************)
(* The Redis backend, fixedRateLimitCacheImpl                              *)
(* (src/src/redis/fixed_cache_impl.go): concurrent DoLimit calls, each the *)
(* goroutine of one ShouldRateLimit request, against one or two Redis      *)
(* servers and a process-local cache of keys known to be over the limit.   *)
(* A call takes one step per shared access: one lookup in the local cache, *)
(* one Redis command, one descriptor answered.                             *)
(***************************************************************************)
EXTENDS BaseLimiter, FiniteSets

CONSTANTS
    Request,            \* DoLimit calls; each happens at most once
    Descriptor,         \* descriptors of a request that match a rule
    NoLimit,            \* a descriptor without a rule: limits[i] == nil
    MaxDescriptors,     \* bound: descriptors in one request
    Unit,               \* the unit of the rule of each descriptor
    ShadowMode,         \* the descriptors whose rule is in shadow mode
    Calls,              \* what a call may be asked (request and its limits)
    PerSecondClient,    \* is there a Redis of its own for per-second limits?
    StopCacheKeyIncrementWhenOverlimit,
    LocalCacheEnabled,
    ExpirationJitterMaxSeconds,
    MaxTime,            \* bound: last second of the model
    MaxFailures         \* bound: calls that end in a Redis error

Idx == 1..MaxDescriptors

\* A request and the limits the configuration gave it.  The limit belongs to
\* the call: a reload, or a limit override in the request, changes it.
Call == [ n          : Idx,
          desc       : [Idx -> Descriptor \cup {NoLimit}],
          limit      : [Idx -> 0..(Word - 1)],
          hitsAddend : 0..(Word - 1) ]

ASSUME BoundsAssumption ==
    /\ MaxDescriptors \in Nat \ {0}
    /\ MaxTime \in Nat
    /\ MaxFailures \in Nat
    /\ ExpirationJitterMaxSeconds \in Nat
ASSUME RuleAssumption ==
    /\ NoLimit \notin Descriptor
    /\ Unit \in [Descriptor -> Units]
    /\ ShadowMode \subseteq Descriptor
    /\ Calls \subseteq Call
ASSUME ModeAssumption ==
    /\ PerSecondClient \in BOOLEAN
    /\ StopCacheKeyIncrementWhenOverlimit \in BOOLEAN
    /\ LocalCacheEnabled \in BOOLEAN

\* A cache key names a descriptor and the start of the window it counts.
Key == Descriptor \X (0..MaxTime)

Absent == 0         \* no such key
NoTTL == -1         \* a key INCRBY created and EXPIRE has not reached yet

VARIABLES
    now,         \* UnixNow(), in seconds
    counter,     \* Redis: value of each key (0 when absent)
    ttl,         \* Redis: Absent, NoTTL, or the second the key expires
    expired,     \* history: keys Redis has expired
    localCache,  \* freecache: Absent, or the second the entry expires
    stats,       \* statistics of the rule of each descriptor
    pc,          \* where each call is in DoLimit
    args,        \* the request and limits each call was given
    readAt,      \* the second GenerateCacheKeys read
    overAtStart, \* history: descriptors whose counter was over at that time
    idx,         \* index of the loop a call is in
    overLocal,   \* isOverLimitWithLocalCache
    cmd,         \* the Redis command each descriptor has next in the pipeline
    current,     \* currentCount, from the GETs
    result,      \* results, from the INCRBYs
    status       \* responseDescriptorStatuses

redis == <<counter, ttl, expired>>
given == <<args, readAt, overAtStart>>
frame == <<pc, given, idx, overLocal, cmd, current, result, status>>
vars == <<now, redis, localCache, stats, frame>>

PCs == {"idle", "local", "get", "incr", "reply", "done", "failed"}
Commands == {"none", "get", "got", "incrby", "expire", "sent"}
Codes == {"none", "OK", "OVER_LIMIT"}

NoStatus == [code |-> "none", remaining |-> 0, resetAt |-> 0]

(***************************************************************************)
(* What a call works on.                                                   *)
(***************************************************************************)
Used(p) == 1..args[p].n
HitsAddend(p) == UMax(1, args[p].hitsAddend)

\* cacheKey.Key # "": the descriptor has a limit.
HasKey(p, i) == i \in Used(p) /\ args[p].desc[i] # NoLimit

CacheKey(p, i) ==
    <<args[p].desc[i], WindowStart(readAt[p], Unit[args[p].desc[i]])>>

UsesPerSecondClient(p, i) ==
    PerSecondClient /\ HasKey(p, i) /\ Unit[args[p].desc[i]] = "SECOND"

\* The pipeline of the main client runs before the per-second one.
Before(p, j, i) ==
    IF UsesPerSecondClient(p, j) = UsesPerSecondClient(p, i)
    THEN j < i
    ELSE UsesPerSecondClient(p, i)

IsOverLimitWithLocalCache(k) == LocalCacheEnabled /\ localCache[k] > now

\* In stop mode the counters are read first when no key is known to be over
\* and there is more than one descriptor.
ReadsFirst(p, over) ==
    StopCacheKeyIncrementWhenOverlimit /\ args[p].n > 1 /\ over = {}

\* Mutant: hits that use a limit up exactly are taken to exceed it.
NearLimit_AtLimit(p, i) ==
    /\ ReadsFirst(p, overLocal[p])
    /\ HasKey(p, i)
    /\ Uint32(current[p][i] + HitsAddend(p)) >= args[p].limit[i]

\* nearlimitIndexes: these hits would take the counter over its limit.
NearLimit(p, i) ==
    /\ ReadsFirst(p, overLocal[p])
    /\ HasKey(p, i)
    /\ Uint32(current[p][i] + HitsAddend(p)) > args[p].limit[i]

\* Mutant: only the local cache stops the increments.
HitsAddendForRedis_LocalOnly(p) ==
    IF StopCacheKeyIncrementWhenOverlimit /\ overLocal[p] # {}
    THEN 0 ELSE HitsAddend(p)

HitsAddendForRedis(p) ==
    IF StopCacheKeyIncrementWhenOverlimit
       /\ (overLocal[p] # {} \/ \E i \in Idx : NearLimit(p, i))
    THEN 0 ELSE HitsAddend(p)

IncrAmount(p, i) ==
    IF NearLimit(p, i) THEN HitsAddend(p) ELSE HitsAddendForRedis(p)

LimitInfo(p, i) ==
    NewRateLimitInfo(args[p].limit[i],
                     Uint32(result[p][i] - HitsAddend(p)), result[p][i])

(***************************************************************************)
(* DoLimit.                                                                *)
(***************************************************************************)
Init ==
    /\ now = 0
    /\ counter = [k \in Key |-> 0]
    /\ ttl = [k \in Key |-> Absent]
    /\ expired = {}
    /\ localCache = [k \in Key |-> Absent]
    /\ stats = [d \in Descriptor |-> [s \in StatNames \cup {"TotalHits"} |-> 0]]
    /\ pc = [p \in Request |-> "idle"]
    /\ args \in [Request -> {[n |-> 1,
                              desc |-> [i \in Idx |-> NoLimit],
                              limit |-> [i \in Idx |-> 0],
                              hitsAddend |-> 0]}]
    /\ readAt = [p \in Request |-> 0]
    /\ overAtStart = [p \in Request |-> {}]
    /\ idx = [p \in Request |-> 1]
    /\ overLocal = [p \in Request |-> {}]
    /\ cmd = [p \in Request |-> [i \in Idx |-> "none"]]
    /\ current = [p \in Request |-> [i \in Idx |-> 0]]
    /\ result = [p \in Request |-> [i \in Idx |-> 0]]
    /\ status = [p \in Request |-> [i \in Idx |-> NoStatus]]

\* GenerateCacheKeys: one reading of the clock for all keys, total_hits of
\* every rule.
GenerateCacheKeys(p) ==
    /\ pc[p] = "idle"
    /\ \E c \in Calls :
         /\ args' = [args EXCEPT ![p] = c]
         /\ stats' = [d \in Descriptor |->
              [stats[d] EXCEPT !["TotalHits"] =
                 @ + UMax(1, c.hitsAddend)
                     * Cardinality({i \in 1..c.n : c.desc[i] = d})]]
         /\ overAtStart' = [overAtStart EXCEPT ![p] =
              {i \in 1..c.n :
                 /\ c.desc[i] # NoLimit
                 /\ counter[<<c.desc[i], WindowStart(now, Unit[c.desc[i]])>>]
                      > c.limit[i]}]
    /\ readAt' = [readAt EXCEPT ![p] = now]
    /\ pc' = [pc EXCEPT ![p] = "local"]
    /\ UNCHANGED <<now, redis, localCache,
                   idx, overLocal, cmd, current, result, status>>

\* The pipeline that follows the local lookups, and its commands: a command
\* per descriptor that has a key and is not known to be over the limit.
Pipeline(p, over, c) ==
    [i \in Idx |-> IF HasKey(p, i) /\ i \notin over THEN c ELSE "none"]

NextPhase(p, over) ==
    IF \A i \in Idx : HasKey(p, i) => i \in over THEN "reply"
    ELSE IF ReadsFirst(p, over) THEN "get" ELSE "incr"

FirstCommand(p, over) == IF ReadsFirst(p, over) THEN "get" ELSE "incrby"

\* One round of the loop over the local cache.
LookupLocalCache(p) ==
    LET i == idx[p]
        over == IF HasKey(p, i) /\ IsOverLimitWithLocalCache(CacheKey(p, i))
                THEN overLocal[p] \cup {i} ELSE overLocal[p]
    IN  /\ pc[p] = "local"
        /\ overLocal' = [overLocal EXCEPT ![p] = over]
        /\ \/ /\ i < args[p].n
              /\ idx' = [idx EXCEPT ![p] = i + 1]
              /\ UNCHANGED <<pc, cmd>>
           \/ /\ i = args[p].n
              /\ idx' = [idx EXCEPT ![p] = 1]
              /\ pc' = [pc EXCEPT ![p] = NextPhase(p, over)]
              /\ cmd' = [cmd EXCEPT ![p] =
                           Pipeline(p, over, FirstCommand(p, over))]
        /\ UNCHANGED <<now, redis, localCache, stats,
                       given, current, result, status>>

\* Command i is the next of its pipeline: those before it have been sent.
IsNext(p, i) ==
    \A j \in Idx : Before(p, j, i) => cmd[p][j] \in {"none", "got", "sent"}

Get(p, i) ==
    /\ pc[p] = "get"
    /\ cmd[p][i] = "get"
    /\ IsNext(p, i)
    /\ current' = [current EXCEPT ![p][i] = Uint32(counter[CacheKey(p, i)])]
    /\ \/ /\ \E j \in Idx : j # i /\ cmd[p][j] = "get"
          /\ cmd' = [cmd EXCEPT ![p][i] = "got"]
          /\ UNCHANGED pc
       \/ /\ \A j \in Idx : j # i => cmd[p][j] # "get"
          /\ cmd' = [cmd EXCEPT ![p] = Pipeline(p, {}, "incrby")]
          /\ pc' = [pc EXCEPT ![p] = "incr"]
    /\ UNCHANGED <<now, redis, localCache, stats,
                   given, idx, overLocal, result, status>>

\* Mutant: the answer rests on the count read before, not on INCRBY.
IncrByReply_Stale(p, i) == Uint32(current[p][i] + IncrAmount(p, i))

\* What the INCRBY of descriptor i answers.
IncrByReply(p, i) == Uint32(counter[CacheKey(p, i)] + IncrAmount(p, i))

\* Mutant: the per-second pipeline has no EXPIRE.
AfterIncrBy_NoPerSecond(p, i) ==
    IF UsesPerSecondClient(p, i) THEN "sent" ELSE "expire"

\* pipelineAppend puts an EXPIRE of the key right behind its INCRBY.
AfterIncrBy(p, i) == "expire"

IncrBy(p, i) ==
    LET k == CacheKey(p, i)
    IN  /\ pc[p] = "incr"
        /\ cmd[p][i] = "incrby"
        /\ IsNext(p, i)
        /\ counter' = [counter EXCEPT ![k] = @ + IncrAmount(p, i)]
        /\ ttl' = [ttl EXCEPT ![k] = IF @ = Absent THEN NoTTL ELSE @]
        /\ result' = [result EXCEPT ![p][i] = IncrByReply(p, i)]
        /\ cmd' = [cmd EXCEPT ![p][i] = AfterIncrBy(p, i)]
        /\ UNCHANGED <<now, expired, localCache, stats,
                       pc, given, idx, overLocal, current, status>>

\* Mutant: the jitter shortens the life of the key.
ExpirationSeconds_Shorter(d) ==
    {UnitToDivider(Unit[d]) - j :
       j \in 0..(UMax(1, ExpirationJitterMaxSeconds) - 1)}

\* UnitToDivider, and up to ExpirationJitterMaxSeconds - 1 seconds more.
ExpirationSeconds(d) ==
    {UnitToDivider(Unit[d]) + j :
       j \in 0..(UMax(1, ExpirationJitterMaxSeconds) - 1)}

\* EXPIRE of a key that is gone does nothing.
TTLAfterExpire(p, i, seconds) ==
    IF ttl[CacheKey(p, i)] = Absent THEN Absent ELSE now + seconds

Expire(p, i) ==
    LET k == CacheKey(p, i)
    IN  /\ pc[p] = "incr"
        /\ cmd[p][i] = "expire"
        /\ \E s \in ExpirationSeconds(args[p].desc[i]) :
             ttl' = [ttl EXCEPT ![k] = TTLAfterExpire(p, i, s)]
        /\ cmd' = [cmd EXCEPT ![p][i] = "sent"]
        /\ pc' = [pc EXCEPT ![p] =
                    IF \A j \in Idx : j # i => cmd[p][j] \in {"none", "sent"}
                    THEN "reply" ELSE @]
        /\ UNCHANGED <<now, counter, expired, localCache, stats,
                       given, idx, overLocal, current, result, status>>

\* GetResponseDescriptorStatus of one descriptor.
Status(p, i) ==
    LET d == args[p].desc[i]
        local == i \in overLocal[p]
    IN  IF HasKey(p, i)
        THEN [ code |-> ResponseCode(local, LimitInfo(p, i), d \in ShadowMode),
               remaining |-> LimitRemaining(local, LimitInfo(p, i)),
               resetAt |-> now + CalculateReset(Unit[d], now) ]
        ELSE [ code |-> "OK", remaining |-> 0, resetAt |-> 0 ]

\* The statistics of descriptor d after descriptor i of the call is answered.
StatsAfter(p, i, d) ==
    IF HasKey(p, i) /\ args[p].desc[i] = d
    THEN [s \in DOMAIN stats[d] |->
            IF s = "TotalHits" THEN stats[d][s]
            ELSE stats[d][s] + StatIncrease(s, i \in overLocal[p],
                    LimitInfo(p, i), HitsAddend(p), d \in ShadowMode)]
    ELSE stats[d]

\* One round of the loop that answers the descriptors.
Reply(p) ==
    LET i == idx[p]
        k == CacheKey(p, i)
    IN  /\ pc[p] = "reply"
        /\ status' = [status EXCEPT ![p][i] = Status(p, i)]
        /\ stats' = [d \in Descriptor |-> StatsAfter(p, i, d)]
        /\ localCache' =
             IF LocalCacheEnabled /\ HasKey(p, i)
                /\ SetsLocalCache(i \in overLocal[p], LimitInfo(p, i))
             THEN [localCache EXCEPT ![k] =
                     now + UnitToDivider(Unit[args[p].desc[i]])]
             ELSE localCache
        /\ \/ /\ i < args[p].n
              /\ idx' = [idx EXCEPT ![p] = i + 1]
              /\ UNCHANGED pc
           \/ /\ i = args[p].n
              /\ pc' = [pc EXCEPT ![p] = "done"]
              /\ UNCHANGED idx
        /\ UNCHANGED <<now, redis,
                       given, overLocal, cmd, current, result>>

\* PipeDo returns an error and checkError panics with a RedisError.  The
\* commands already taken have been executed, the others have not; the last
\* reply is read only after the last command.
Fail(p) ==
    /\ \/ pc[p] \in {"get", "incr"}
       \/ /\ pc[p] = "reply" /\ idx[p] = 1
          /\ \E i \in Idx : cmd[p][i] = "sent"
    /\ Cardinality({q \in Request : pc[q] = "failed"}) < MaxFailures
    /\ pc' = [pc EXCEPT ![p] = "failed"]
    /\ UNCHANGED <<now, redis, localCache, stats,
                   given, idx, overLocal, cmd, current, result, status>>

(***************************************************************************)
(* The environment: the clock, expiry in Redis, eviction from freecache.   *)
(***************************************************************************)
Tick ==
    /\ now < MaxTime
    /\ now' = now + 1
    /\ localCache' = [k \in Key |->
                        IF localCache[k] > now + 1 THEN localCache[k] ELSE Absent]
    /\ UNCHANGED <<redis, stats, frame>>

RedisExpire(k) ==
    /\ ttl[k] > 0 /\ ttl[k] <= now
    /\ counter' = [counter EXCEPT ![k] = 0]
    /\ ttl' = [ttl EXCEPT ![k] = Absent]
    /\ expired' = expired \cup {k}
    /\ UNCHANGED <<now, localCache, stats, frame>>

Evict(k) ==
    /\ localCache[k] # Absent
    /\ localCache' = [localCache EXCEPT ![k] = Absent]
    /\ UNCHANGED <<now, redis, stats, frame>>

Step(p) ==
    \/ LookupLocalCache(p)
    \/ \E i \in Idx : Get(p, i) \/ IncrBy(p, i) \/ Expire(p, i)
    \/ Reply(p)

Next ==
    \/ \E p \in Request : GenerateCacheKeys(p) \/ Step(p) \/ Fail(p)
    \/ Tick
    \/ \E k \in Key : RedisExpire(k) \/ Evict(k)

Spec == Init /\ [][Next]_vars

(***************************************************************************)
(* Properties.                                                             *)
(***************************************************************************)
TypeOK ==
    /\ now \in 0..MaxTime
    /\ counter \in [Key -> Nat]
    /\ ttl \in [Key -> Int]
    /\ expired \subseteq Key
    /\ localCache \in [Key -> Nat]
    /\ stats \in [Descriptor -> [StatNames \cup {"TotalHits"} -> Nat]]
    /\ pc \in [Request -> PCs]
    /\ args \in [Request -> Call]
    /\ readAt \in [Request -> 0..MaxTime]
    /\ overAtStart \in [Request -> SUBSET Idx]
    /\ idx \in [Request -> Idx]
    /\ overLocal \in [Request -> SUBSET Idx]
    /\ cmd \in [Request -> [Idx -> Commands]]
    /\ current \in [Request -> [Idx -> 0..(Word - 1)]]
    /\ result \in [Request -> [Idx -> 0..(Word - 1)]]
    /\ status \in [Request -> [Idx ->
                     [code : Codes, remaining : 0..(Word - 1), resetAt : Nat]]]

\* INCRBY of descriptor i has been executed.
Counted(p, i) == cmd[p][i] \in {"expire", "sent"}

\* Two INCRBYs on one key never account for the same unit of its counter: the
\* ranges (result - amount, result] are disjoint, so no two calls are told the
\* same remaining quota (fixed_cache_impl.go:191-206).
NoSharedQuota ==
    \A p, q \in Request : \A i, j \in Idx :
       /\ <<p, i>> # <<q, j>>
       /\ Counted(p, i) /\ Counted(q, j)
       /\ CacheKey(p, i) = CacheKey(q, j)
       /\ CacheKey(p, i) \notin expired
       /\ counter[CacheKey(p, i)] < Word
       => \/ result[p][i] <= result[q][j] - IncrAmount(q, j)
          \/ result[q][j] <= result[p][i] - IncrAmount(p, i)

\* A refusal from the local cache is right: the counter in Redis of that key
\* is over the limit of the call, as long as Redis has not expired the key
\* (base_limiter.go:111-123, README.md:968).
LocalCacheSound ==
    \A p \in Request : \A i \in overLocal[p] :
       CacheKey(p, i) \notin expired
         => counter[CacheKey(p, i)] > args[p].limit[i]

\* Redis never drops a counter while its window is open, whatever the jitter
\* and however late the first hit: EXPIRE is relative and at least a window long
\* (fixed_cache_impl.go:155-158).
CounterOutlivesWindow ==
    \A k \in expired : now >= k[2] + UnitToDivider(Unit[k[1]])

\* A key without a time to live is one whose EXPIRE some call still has to
\* send, or would have sent had its connection not failed
\* (fixed_cache_impl.go:35-38): no other way to leak a key.
OnlyFailuresLeakKeys ==
    \A k \in Key : ttl[k] = NoTTL =>
       \E p \in Request : \E i \in Idx :
          HasKey(p, i) /\ CacheKey(p, i) = k /\ cmd[p][i] = "expire"

\* A client that waits DurationUntilReset retries at the start of a window
\* that is later than the one it was counted in, even if the clock crossed a
\* window between the key and the answer (utilities.go:34-38).
ResetStartsLaterWindow ==
    \A p \in Request : \A i \in Idx :
       HasKey(p, i) /\ status[p][i].code # "none" =>
         LET d == args[p].desc[i]
             at == status[p][i].resetAt
         IN  at % UnitToDivider(Unit[d]) = 0 /\ at > CacheKey(p, i)[2]

\* In stop mode a call of several descriptors, one of which was over its
\* limit before the call began, takes no quota that another call could use: it
\* raises a counter only past the limit (fixed_cache_impl.go:101-124).
StopModeTakesNoQuota ==
    \A p \in Request :
       /\ StopCacheKeyIncrementWhenOverlimit /\ args[p].n > 1
       /\ overAtStart[p] # {}
       /\ \A i \in Idx : HasKey(p, i) => CacheKey(p, i) \notin expired
       => \A i \in Idx : Counted(p, i) /\ IncrAmount(p, i) > 0
                           => result[p][i] > args[p].limit[i]

\* "if the limit's value before adding the N hits was over the limit, then all
\* the N hits were over limit" (base_limiter.go:161-162): such an answer adds
\* all hits of the call to over_limit.
OverLimitChargedInFull ==
    [][\A p \in Request :
         LET i == idx[p]
             d == args[p].desc[i]
         IN  /\ status'[p] # status[p] /\ HasKey(p, i) /\ i \notin overLocal[p]
             /\ result[p][i] - IncrAmount(p, i) > args[p].limit[i]
             => stats'[d]["OverLimit"] = stats[d]["OverLimit"] + HitsAddend(p)]_vars
================================================================================
