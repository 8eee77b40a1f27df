------------------------------- MODULE Memcached -------------------------------
(***************************************************************************)
(* The memcached backend, rateLimitMemcacheImpl                            *)
(* (src/src/memcached/cache_impl.go).  A DoLimit call reads the counters   *)
(* with GetMulti, answers from what it read, and leaves the increments to  *)
(* a task that runAsync gives to an idle worker goroutine or to a new one. *)
(* Statistics are those of BaseLimiter and are left out.                   *)
(***************************************************************************)
EXTENDS BaseLimiter, FiniteSets

CONSTANTS
    Request,            \* DoLimit calls; each happens at most once
    Descriptor,         \* descriptors that match a rule
    NoLimit,            \* a descriptor without a rule: limits[i] == nil
    MaxDescriptors,     \* bound: descriptors in one request
    Unit,               \* the unit of the rule of each descriptor
    ShadowMode,         \* the descriptors whose rule is in shadow mode
    Calls,              \* what a call may be asked (request and its limits)
    NoJob,              \* a worker without a task
    LocalCacheEnabled,
    ExpirationJitterMaxSeconds,
    MaxTime,            \* bound: last second of the model
    MaxFaults           \* bound: errors of memcached, and evictions

Idx == 1..MaxDescriptors
Slot == Request \X Idx

Call == [ n          : Idx,
          desc       : [Idx -> Descriptor \cup {NoLimit}],
          limit      : [Idx -> 0..(Word - 1)],
          hitsAddend : 0..(Word - 1) ]

ASSUME BoundsAssumption ==
    /\ MaxDescriptors \in Nat \ {0} /\ MaxTime \in Nat /\ MaxFaults \in Nat
    /\ ExpirationJitterMaxSeconds \in Nat /\ LocalCacheEnabled \in BOOLEAN
ASSUME RuleAssumption ==
    /\ NoLimit \notin Descriptor /\ NoJob \notin Request
    /\ Unit \in [Descriptor -> Units]
    /\ ShadowMode \subseteq Descriptor
    /\ Calls \subseteq Call

Key == Descriptor \X (0..MaxTime)
Absent == 0

VARIABLES
    now,         \* UnixNow(), in seconds
    item,        \* memcached: value of each key (0 when absent)
    expiry,      \* memcached: the second the key expires (0 when absent)
    dropped,     \* history: keys memcached has expired or evicted
    faults,      \* history: number of errors and evictions
    localCache,  \* freecache: Absent, or the second the entry expires
    autoFlush,   \* AutoFlushForIntegrationTests
    pc,          \* where each call is in DoLimit
    args,        \* the request and limits each call was given
    readAt,      \* the second GenerateCacheKeys read
    after,       \* history: the calls that had returned when this one began
    idx,         \* index of the loop a call is in
    overLocal,   \* isOverLimitWithLocalCache
    toGet,       \* keysToGet that GetMulti has not read yet
    before,      \* limitBeforeIncrease
    seen,        \* history: the slots whose hits were in the counter read
    code,        \* the answer of each descriptor
    todo,        \* increments the task of a call still has to make
    dance,       \* the command it sends next: "incr", "add" or "again"
    counted,     \* history: slots whose hits were added to their counter
    worker,      \* goroutines of runAsync, named by the call that started them
    job,         \* the call whose task a worker runs
    processed,   \* tasksProcessedWithinOnePeriod > 0
    waitGroup    \* the counter of the WaitGroup

memcache == <<item, expiry, dropped, faults>>
given == <<autoFlush, args, readAt, after>>
frame == <<pc, idx, overLocal, toGet, before, seen, code>>
tasks == <<todo, dance, counted>>
pool == <<worker, job, processed, waitGroup>>
async == <<tasks, pool>>
vars == <<now, memcache, localCache, given, frame, async>>

Used(p) == 1..args[p].n
HitsAddend(p) == UMax(1, args[p].hitsAddend)
HasKey(p, i) == i \in Used(p) /\ args[p].desc[i] # NoLimit
CacheKey(p, i) ==
    <<args[p].desc[i], WindowStart(readAt[p], Unit[args[p].desc[i]])>>
CountedOn(k) == {s \in counted : CacheKey(s[1], s[2]) = k}

Init ==
    /\ now = 0
    /\ item = [k \in Key |-> Absent] /\ expiry = [k \in Key |-> Absent]
    /\ dropped = {} /\ faults = 0
    /\ localCache = [k \in Key |-> Absent]
    /\ autoFlush \in BOOLEAN
    /\ pc = [p \in Request |-> "idle"]
    /\ args \in [Request -> {[n |-> 1, desc |-> [i \in Idx |-> NoLimit],
                              limit |-> [i \in Idx |-> 0], hitsAddend |-> 0]}]
    /\ readAt = [p \in Request |-> 0]
    /\ after = [p \in Request |-> {}]
    /\ idx = [p \in Request |-> 1]
    /\ overLocal = [p \in Request |-> {}]
    /\ toGet = [p \in Request |-> {}]
    /\ before = [p \in Request |-> [i \in Idx |-> 0]]
    /\ seen = [p \in Request |-> [i \in Idx |-> {}]]
    /\ code = [p \in Request |-> [i \in Idx |-> "none"]]
    /\ todo = [p \in Request |-> {}]
    /\ dance = [p \in Request |-> "incr"]
    /\ counted = {}
    /\ worker = [p \in Request |-> "none"]
    /\ job = [p \in Request |-> NoJob]
    /\ processed = [p \in Request |-> FALSE]
    /\ waitGroup = 0

(***************************************************************************)
(* DoLimit.                                                                *)
(***************************************************************************)
GenerateCacheKeys(p) ==
    /\ pc[p] = "idle"
    /\ \E c \in Calls : args' = [args EXCEPT ![p] = c]
    /\ readAt' = [readAt EXCEPT ![p] = now]
    /\ after' = [after EXCEPT ![p] = {q \in Request : pc[q] = "done"}]
    /\ pc' = [pc EXCEPT ![p] = "local"]
    /\ UNCHANGED <<now, memcache, localCache, autoFlush, idx, overLocal, toGet,
                   before, seen, code, async>>

IsOverLimitWithLocalCache(k) == LocalCacheEnabled /\ localCache[k] > now

IsLast(p) == idx[p] = args[p].n

\* One round of the loop that collects keysToGet.
LookupLocalCache(p) ==
    LET i == idx[p]
        local == HasKey(p, i) /\ IsOverLimitWithLocalCache(CacheKey(p, i))
    IN  /\ pc[p] = "local"
        /\ overLocal' = [overLocal EXCEPT ![p] = IF local THEN @ \cup {i} ELSE @]
        /\ toGet' = [toGet EXCEPT ![p] =
                       IF HasKey(p, i) /\ ~local THEN @ \cup {i} ELSE @]
        /\ idx' = [idx EXCEPT ![p] = IF IsLast(p) THEN 1 ELSE i + 1]
        /\ pc' = [pc EXCEPT ![p] = IF IsLast(p) THEN "get" ELSE "local"]
        /\ UNCHANGED <<now, memcache, localCache, given, before, seen, code, async>>

\* strconv.ParseInt(value, 10, 32): what does not fit an int32 counts as 0.
Decoded(v) == IF v < Word \div 2 THEN v ELSE 0

\* GetMulti reads one key, for every descriptor that has it.
Get(p, k) ==
    LET slots == {i \in toGet[p] : CacheKey(p, i) = k}
    IN  /\ pc[p] = "get" /\ slots # {}
        /\ before' = [before EXCEPT ![p] =
             [i \in Idx |-> IF i \in slots THEN Decoded(item[k]) ELSE @[i]]]
        /\ seen' = [seen EXCEPT ![p] =
             [i \in Idx |-> IF i \in slots THEN CountedOn(k) ELSE @[i]]]
        /\ toGet' = [toGet EXCEPT ![p] = @ \ slots]
        /\ UNCHANGED <<now, memcache, localCache, given, pc, idx, overLocal, code,
                       async>>

\* GetMulti returns an error: it is logged, and the keys that were not read
\* count as absent.
GetError(p) ==
    /\ pc[p] = "get" /\ toGet[p] # {}
    /\ faults < MaxFaults /\ faults' = faults + 1
    /\ toGet' = [toGet EXCEPT ![p] = {}]
    /\ UNCHANGED <<now, item, expiry, dropped, localCache, given, pc, idx,
                   overLocal, before, seen, code, async>>

\* Mutant: decides on the counter without the hits of this request.
LimitInfo_Before(p, i) ==
    NewRateLimitInfo(args[p].limit[i], before[p][i], before[p][i])

LimitInfo(p, i) ==
    NewRateLimitInfo(args[p].limit[i], before[p][i],
                     Uint32(before[p][i] + HitsAddend(p)))

\* One round of the loop that answers the descriptors.
Reply(p) ==
    LET i == idx[p]
        d == args[p].desc[i]
        local == i \in overLocal[p]
    IN  /\ \/ pc[p] = "get" /\ toGet[p] = {}
           \/ pc[p] = "reply"
        /\ code' = [code EXCEPT ![p][i] =
             IF HasKey(p, i) THEN ResponseCode(local, LimitInfo(p, i), d \in ShadowMode)
             ELSE "OK"]
        /\ localCache' =
             IF /\ LocalCacheEnabled /\ HasKey(p, i)
                /\ SetsLocalCache(local, LimitInfo(p, i))
             THEN [localCache EXCEPT ![CacheKey(p, i)] = now + UnitToDivider(Unit[d])]
             ELSE localCache
        /\ idx' = [idx EXCEPT ![p] = IF IsLast(p) THEN i ELSE i + 1]
        /\ pc' = [pc EXCEPT ![p] = IF IsLast(p) THEN "submit" ELSE "reply"]
        /\ UNCHANGED <<now, memcache, given, overLocal, toGet, before, seen, async>>

\* waitGroup.Add(1) comes before runAsync.
Joins(w) == 1

Assign(w, p) ==
    /\ worker' = [worker EXCEPT ![w] = "busy"]
    /\ job' = [job EXCEPT ![w] = p]
    /\ waitGroup' = waitGroup + Joins(w)

\* runAsync: the send succeeds when a worker waits at taskQueue; otherwise the
\* call starts a worker of its own.
Submit(p) ==
    /\ pc[p] = "submit"
    /\ todo' = [todo EXCEPT ![p] =
                  {i \in Idx : HasKey(p, i) /\ i \notin overLocal[p]}]
    /\ \/ \E w \in Request : worker[w] = "idle" /\ Assign(w, p)
       \/ /\ \A w \in Request : worker[w] # "idle"
          /\ Assign(p, p)
    /\ pc' = [pc EXCEPT ![p] = IF autoFlush THEN "flush" ELSE "done"]
    /\ UNCHANGED <<now, memcache, localCache, given, idx, overLocal, toGet, before,
                   seen, code, dance, counted, processed>>

\* Mutant: returns while increments are outstanding.
Flushed_AtOnce == TRUE

Flushed == waitGroup = 0

\* Flush: waitGroup.Wait().
Flush(p) ==
    /\ pc[p] = "flush" /\ Flushed
    /\ pc' = [pc EXCEPT ![p] = "done"]
    /\ UNCHANGED <<now, memcache, localCache, given, idx, overLocal, toGet, before,
                   seen, code, async>>

(***************************************************************************)
(* increaseAsync, in the worker w: one memcached command a step.           *)
(***************************************************************************)
Turn(w, i) ==
    /\ worker[w] = "busy"
    /\ i \in todo[job[w]] /\ \A j \in todo[job[w]] : i <= j

Continue(p, i) ==
    /\ todo' = [todo EXCEPT ![p] = @ \ {i}]
    /\ dance' = [dance EXCEPT ![p] = "incr"]

\* Mutant: the counter counts requests instead of hits.
Plus_One(v, p) == v + 1

Plus(v, p) == v + HitsAddend(p)

Store(p, i) ==
    LET k == CacheKey(p, i)
    IN  /\ item' = [item EXCEPT ![k] = Plus(@, p)]
        /\ counted' = counted \cup {<<p, i>>}

\* Increment of a key that is there; the first one, or the one after Add.
Increment(w, i) ==
    LET p == job[w]
    IN  /\ Turn(w, i) /\ dance[p] \in {"incr", "again"}
        /\ item[CacheKey(p, i)] # Absent
        /\ Store(p, i) /\ Continue(p, i)
        /\ UNCHANGED <<now, expiry, dropped, faults, localCache, given, frame, pool>>

\* ErrCacheMiss: Add comes next, or after Add the hits are given up.
IncrementMiss(w, i) ==
    LET p == job[w]
    IN  /\ Turn(w, i) /\ item[CacheKey(p, i)] = Absent
        /\ \/ /\ dance[p] = "incr"
              /\ dance' = [dance EXCEPT ![p] = "add"]
              /\ UNCHANGED todo
           \/ /\ dance[p] = "again"
              /\ Continue(p, i)
        /\ UNCHANGED <<now, memcache, localCache, given, frame, counted, pool>>

\* Mutant: the jitter shortens the life of the key.
ExpirationSeconds_Shorter(d) ==
    {UnitToDivider(Unit[d]) - j : j \in 0..(UMax(1, ExpirationJitterMaxSeconds) - 1)}

ExpirationSeconds(d) ==
    {UnitToDivider(Unit[d]) + j : j \in 0..(UMax(1, ExpirationJitterMaxSeconds) - 1)}

Add(w, i) ==
    LET p == job[w]
        k == CacheKey(p, i)
    IN  /\ Turn(w, i) /\ dance[p] = "add" /\ item[k] = Absent
        /\ Store(p, i) /\ Continue(p, i)
        /\ \E s \in ExpirationSeconds(k[1]) : expiry' = [expiry EXCEPT ![k] = now + s]
        /\ UNCHANGED <<now, dropped, faults, localCache, given, frame, pool>>

\* Mutant: the hits are given up when another task added the key first.
NotStored_GiveUp(w, i) ==
    LET p == job[w]
    IN  /\ Turn(w, i) /\ dance[p] = "add" /\ item[CacheKey(p, i)] # Absent
        /\ Continue(p, i)
        /\ UNCHANGED <<now, memcache, localCache, given, frame, counted, pool>>

\* ErrNotStored: another task has added the key since the miss.
NotStored(w, i) ==
    LET p == job[w]
    IN  /\ Turn(w, i) /\ dance[p] = "add" /\ item[CacheKey(p, i)] # Absent
        /\ dance' = [dance EXCEPT ![p] = "again"]
        /\ UNCHANGED <<now, memcache, localCache, given, frame, todo, counted, pool>>

\* Any other error: it is logged, and the loop goes on.  The server has not
\* executed the command, or it has and its answer was lost.
CommandError(w, i) ==
    LET p == job[w]
        present == item[CacheKey(p, i)] # Absent
    IN  /\ Turn(w, i)
        /\ faults < MaxFaults /\ faults' = faults + 1
        /\ \/ UNCHANGED <<item, expiry, counted>>
           \/ /\ dance[p] # "add" /\ present
              /\ Store(p, i) /\ UNCHANGED expiry
           \/ /\ dance[p] = "add" /\ ~present
              /\ Store(p, i)
              /\ \E s \in ExpirationSeconds(args[p].desc[i]) :
                   expiry' = [expiry EXCEPT ![CacheKey(p, i)] = now + s]
        /\ Continue(p, i)
        /\ UNCHANGED <<now, dropped, localCache, given, frame, pool>>

\* The task ends: waitGroup.Done(), and the worker waits at its select.  Its
\* own first task is not counted in tasksProcessedWithinOnePeriod.
TaskDone(w) ==
    /\ worker[w] = "busy" /\ todo[job[w]] = {}
    /\ worker' = [worker EXCEPT ![w] = "idle"]
    /\ processed' = [processed EXCEPT ![w] = @ \/ job[w] # w]
    /\ job' = [job EXCEPT ![w] = NoJob]
    /\ waitGroup' = waitGroup - 1
    /\ UNCHANGED <<now, memcache, localCache, given, frame, tasks>>

\* Mutant: the count of the period is never reset.
NextPeriod_NoReset(w) == processed[w]

NextPeriod(w) == FALSE

\* tick.C: a worker without a task in the last period returns.
WorkerTick(w) ==
    /\ worker[w] = "idle"
    /\ worker' = [worker EXCEPT ![w] = IF processed[w] THEN "idle" ELSE "gone"]
    /\ processed' = [processed EXCEPT ![w] = NextPeriod(w)]
    /\ UNCHANGED <<now, memcache, localCache, given, frame, tasks, job, waitGroup>>

(***************************************************************************)
(* The environment: the clock, which expires entries, and eviction.        *)
(***************************************************************************)
Tick ==
    LET late == {k \in Key : expiry[k] = now + 1}
    IN  /\ now < MaxTime
        /\ now' = now + 1
        /\ item' = [k \in Key |-> IF k \in late THEN Absent ELSE item[k]]
        /\ expiry' = [k \in Key |-> IF k \in late THEN Absent ELSE expiry[k]]
        /\ dropped' = dropped \cup late
        /\ localCache' = [k \in Key |->
                            IF localCache[k] > now + 1 THEN localCache[k] ELSE Absent]
        /\ UNCHANGED <<faults, given, frame, async>>

Evict(k) ==
    /\ localCache[k] # Absent
    /\ faults < MaxFaults /\ faults' = faults + 1
    /\ localCache' = [localCache EXCEPT ![k] = Absent]
    /\ UNCHANGED <<now, item, expiry, dropped, given, frame, async>>

EvictItem(k) ==
    /\ item[k] # Absent
    /\ faults < MaxFaults /\ faults' = faults + 1
    /\ item' = [item EXCEPT ![k] = Absent]
    /\ expiry' = [expiry EXCEPT ![k] = Absent]
    /\ dropped' = dropped \cup {k}
    /\ UNCHANGED <<now, localCache, given, frame, async>>

DoLimit(p) ==
    \/ LookupLocalCache(p)
    \/ \E k \in Key : Get(p, k)
    \/ Reply(p)
    \/ Submit(p)
    \/ Flush(p)

IncreaseAsync(w) ==
    \/ \E i \in Idx : \/ Increment(w, i) \/ IncrementMiss(w, i)
                      \/ Add(w, i) \/ NotStored(w, i)
    \/ TaskDone(w)

Goroutine(w) == IncreaseAsync(w) \/ WorkerTick(w)

Next ==
    \/ \E p \in Request : GenerateCacheKeys(p) \/ DoLimit(p) \/ GetError(p)
    \/ \E w \in Request : Goroutine(w) \/ \E i \in Idx : CommandError(w, i)
    \/ Tick
    \/ \E k \in Key : Evict(k) \/ EvictItem(k)

Spec == Init /\ [][Next]_vars

\* Goroutines that can run do; memcached answers or the client's socket
\* timeout makes it an error; the ticker of a worker fires.
FairSpec ==
    /\ Spec
    /\ \A p \in Request : WF_vars(DoLimit(p)) /\ WF_vars(Goroutine(p))

(***************************************************************************)
(* Properties.                                                             *)
(***************************************************************************)
\* A counter lives at least until its window is over, whatever the jitter: Add
\* sets the expiration from the moment of the increment, never before the
\* window began (cache_impl.go:163-173).
KeyOutlivesWindow ==
    \A k \in Key : item[k] # Absent =>
       expiry[k] >= k[2] + UnitToDivider(Unit[k[1]])

\* Hits are given up only after an error of memcached or the loss of the key:
\* the race of two tasks to create it is settled by the second Increment
\* (cache_impl.go:174-181).
NoHitLostInRace ==
    \A s \in Slot :
       /\ pc[s[1]] \in {"flush", "done"} /\ HasKey(s[1], s[2])
       /\ s[2] \notin overLocal[s[1]] \cup todo[s[1]]
       => \/ s \in counted
          \/ faults > 0
          \/ CacheKey(s[1], s[2]) \in dropped

\* With AutoFlushForIntegrationTests the hits of a call that has returned are in
\* the counter any later call reads (cache_impl.go:143-147).
FlushedHitsAreSeen ==
    autoFlush => \A p \in Request, i \in Idx :
       /\ pc[p] \in {"reply", "submit", "flush", "done"}
       /\ HasKey(p, i) /\ i \notin overLocal[p]
       /\ faults = 0 /\ CacheKey(p, i) \notin dropped
       => \A q \in after[p], j \in Idx :
            /\ HasKey(q, j) /\ j \notin overLocal[q]
            /\ CacheKey(q, j) = CacheKey(p, i)
            => <<q, j>> \in seen[p][i]

\* Everything comes to rest: calls return, Flush included, the increments of
\* every call are carried out or given up, and workers without work end
\* (cache_impl.go:193-195, 272-302).
ComesToRest ==
    <>[](\A p \in Request : /\ pc[p] \in {"idle", "done"} /\ todo[p] = {}
                            /\ worker[p] \in {"none", "gone"})
================================================================================
