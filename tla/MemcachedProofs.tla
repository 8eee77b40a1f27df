---------------------------- MODULE MemcachedProofs ----------------------------
(***************************************************************************)
(* Proofs about Memcached, for any number of calls, descriptors and        *)
(* workers, any limits, units and jitter, and any number of errors.        *)
(*                                                                         *)
(* MemType gives the variables their types.  CallInv says what each phase  *)
(* of DoLimit has done, PoolInv ties the tasks to their workers, and       *)
(* LossInv follows the hits of a task through the dance of Increment, Add  *)
(* and Increment.  SumInv says what memcached has counted, WaitInv what    *)
(* Flush waits for; what their steps use of finite sets and of sums is the *)
(* predicate Counting, which MemcachedSumsProofs shows to hold always.     *)
(***************************************************************************)
EXTENDS MemcachedSums, TLAPS

MemType ==
    /\ now \in 0..MaxTime
    /\ item \in [Key -> Nat] /\ expiry \in [Key -> Nat]
    /\ dropped \subseteq Key /\ faults \in Nat
    /\ localCache \in [Key -> Nat]
    /\ pc \in [Request -> {"idle", "local", "get", "reply", "submit", "flush", "done"}]
    /\ args \in [Request -> Call]
    /\ readAt \in [Request -> 0..MaxTime]
    /\ after \in [Request -> SUBSET Request]
    /\ idx \in [Request -> Nat]
    /\ overLocal \in [Request -> SUBSET Idx] /\ toGet \in [Request -> SUBSET Idx]
    /\ before \in [Request -> [Idx -> Nat]]
    /\ seen \in [Request -> [Idx -> SUBSET Slot]]
    /\ code \in [Request -> [Idx -> {"none", "OK", "OVER_LIMIT"}]]
    /\ todo \in [Request -> SUBSET Idx]
    /\ dance \in [Request -> {"incr", "add", "again"}]
    /\ counted \subseteq Slot
    /\ worker \in [Request -> {"none", "busy", "idle", "gone"}]
    /\ job \in [Request -> Request \cup {NoJob}]

Early == {"idle", "local", "get", "reply", "submit"}
Late == {"flush", "done"}
Read == {"reply", "submit", "flush", "done"}

\* What DoLimit has done for call p.
CallOK(p) ==
    /\ readAt[p] <= now /\ idx[p] \in 1..args[p].n
    /\ \A i \in overLocal[p] \cup toGet[p] \cup todo[p] : HasKey(p, i)
    /\ pc[p] = "idle" => idx[p] = 1 /\ overLocal[p] = {} /\ toGet[p] = {} /\ after[p] = {}
    /\ pc[p] # "idle" => args[p] \in Calls
    /\ pc[p] = "local" =>
         \A i \in 1..(idx[p] - 1) : HasKey(p, i) => i \in overLocal[p] \cup toGet[p]
    /\ pc[p] \in Read => toGet[p] = {}
    /\ pc[p] \notin Read => \A i \in Idx : code[p][i] = "none"
    /\ pc[p] \in Early => todo[p] = {} /\ worker[p] = "none"
    /\ \A q \in after[p] : pc[q] = "done"

CallInv == \A p \in Request : CallOK(p)

Busy == {w \in Request : worker[w] = "busy"}

\* Every task that is not finished has its worker.
PoolInv ==
    /\ \A w \in Request : /\ worker[w] = "busy" => job[w] \in Request
                          /\ job[w] \in Request => pc[job[w]] \in Late
    /\ \A p \in Request : todo[p] # {} => \E w \in Busy : job[w] = p

\* A key may be missing at the Increment after Add only when memcached lost it.
AgainOK(p) ==
    /\ pc[p] \in Early => dance[p] = "incr"
    /\ dance[p] = "again" =>
         \A i \in todo[p] : (\A j \in todo[p] : i <= j) =>
            item[CacheKey(p, i)] # Absent \/ CacheKey(p, i) \in dropped

LossInv == NoHitLostInRace /\ \A p \in Request : AgainOK(p)

(***************************************************************************)
(* Types.                                                                  *)
(***************************************************************************)
LEMMA DividerOf ==
    ASSUME NEW u \in Units
    PROVE  UnitToDivider(u) \in Nat \ {0}
  BY DividerAssumption DEF UnitToDivider

\* A window does not start after the moment it contains.
LEMMA WindowStartOf ==
    ASSUME NEW t \in Nat, NEW u \in Units
    PROVE  WindowStart(t, u) \in 0..t
  <1> DEFINE d == UnitToDivider(u)
  <1>1. d \in Nat \ {0}  BY DividerOf
  <1> HIDE DEF d
  <1>2. (t \div d) * d \in 0..t  BY <1>1
  <1> QED  BY <1>2, Zenon DEF d, WindowStart

\* The cache key of a descriptor with a rule.
LEMMA KeyOf ==
    ASSUME MemType, NEW p \in Request, NEW i, HasKey(p, i)
    PROVE  /\ i \in Idx /\ args[p].desc[i] \in Descriptor
           /\ Unit[args[p].desc[i]] \in Units
           /\ CacheKey(p, i) \in Key
           /\ CacheKey(p, i)[1] = args[p].desc[i]
           /\ CacheKey(p, i)[2] <= readAt[p]
  <1>1. args[p] \in Call /\ readAt[p] \in 0..MaxTime /\ MaxTime \in Nat /\ MaxDescriptors \in Nat
    BY BoundsAssumption, Zenon DEF MemType
  <1>2. i \in Idx /\ args[p].desc[i] \in Descriptor
    BY <1>1 DEF Call, HasKey, Used, Idx
  <1>3. Unit[args[p].desc[i]] \in Units  BY <1>2, RuleAssumption, Zenon
  <1>4. WindowStart(readAt[p], Unit[args[p].desc[i]]) \in 0..readAt[p]
    BY <1>1, <1>3, WindowStartOf
  <1> QED  BY <1>1, <1>2, <1>3, <1>4 DEF CacheKey, Key

\* A call counts at least one hit and at most a uint32.
LEMMA HitsAddendOf ==
    ASSUME MemType, NEW p \in Request
    PROVE  HitsAddend(p) \in 1..Word
  <1>1. args[p].hitsAddend \in 0..(Word - 1)  BY Zenon DEF MemType, Call
  <1> QED  BY <1>1, WordAssumption DEF HitsAddend, UMax

\* The start.
LEMMA InitType ==
    ASSUME Init
    PROVE  MemType
  <1>1. 1 \in Idx  BY BoundsAssumption DEF Idx
  <1>2. [n |-> 1, desc |-> [i \in Idx |-> NoLimit], limit |-> [i \in Idx |-> 0],
         hitsAddend |-> 0] \in Call
    BY <1>1, WordAssumption DEF Call
  <1>3. 0 \in 0..MaxTime  BY BoundsAssumption
  <1> QED  BY <1>2, <1>3, Zenon DEF Init, MemType, Absent

(***************************************************************************)
(* What the steps do: a step of a call, a command of a task, and the rest, *)
(* which is the workers between tasks and the environment.                 *)
(***************************************************************************)
CallAct(p) == GenerateCacheKeys(p) \/ DoLimit(p) \/ GetError(p)

Command(w, i) ==
    \/ Increment(w, i) \/ IncrementMiss(w, i) \/ Add(w, i) \/ NotStored(w, i)
    \/ CommandError(w, i)

Between(w) == TaskDone(w) \/ WorkerTick(w)

Environment == Tick \/ (\E k \in Key : Evict(k) \/ EvictItem(k)) \/ UNCHANGED vars

\* The variables of call p stay.
SameCall(p) ==
    /\ pc'[p] = pc[p] /\ args'[p] = args[p] /\ readAt'[p] = readAt[p]
    /\ after'[p] = after[p] /\ idx'[p] = idx[p] /\ overLocal'[p] = overLocal[p]
    /\ toGet'[p] = toGet[p] /\ before'[p] = before[p] /\ seen'[p] = seen[p]
    /\ code'[p] = code[p]

\* A call moves on, and only Submit gives its task work.
CallMoves(p) ==
    /\ \A q \in Request \ {p} : SameCall(q) /\ todo'[q] = todo[q]
    /\ UNCHANGED <<now, item, expiry, dropped, dance, counted, autoFlush>>
    /\ faults' \in {faults, faults + 1}
    /\ pc[p] # "done" /\ pc'[p] # "idle"
    /\ pc[p] # "idle" => args'[p] = args[p] /\ readAt'[p] = readAt[p]
    /\ pc[p] \in Read => pc'[p] \in Read /\ overLocal'[p] = overLocal[p]
    /\ pc[p] \in Late => pc'[p] \in Late /\ todo'[p] = todo[p]
    /\ pc[p] \notin Late /\ pc'[p] \in Late =>
         /\ pc[p] \in Read
         /\ todo'[p] = {i \in Idx : HasKey(p, i) /\ i \notin overLocal[p]}

\* A task stores the hits of descriptor i, gives them up, or turns to the next
\* command.
Stored(p, i) ==
    LET k == CacheKey(p, i)
    IN  /\ Store(p, i) /\ Continue(p, i)
        /\ \/ item[k] # Absent /\ expiry' = expiry
           \/ \E s \in ExpirationSeconds(k[1]) : expiry' = [expiry EXCEPT ![k] = now + s]

GivenUp(p, i) ==
    /\ Continue(p, i) /\ UNCHANGED <<item, expiry, counted>>
    /\ \/ faults' = faults + 1
       \/ dance[p] = "again" /\ item[CacheKey(p, i)] = Absent

Moved(p, i) ==
    /\ UNCHANGED <<item, expiry, counted, todo>>
    /\ \/ dance' = [dance EXCEPT ![p] = "add"]
       \/ dance' = [dance EXCEPT ![p] = "again"] /\ item[CacheKey(p, i)] # Absent

Acts(p, i) == Stored(p, i) \/ GivenUp(p, i) \/ Moved(p, i)

TaskMoves(p, i) ==
    /\ HasKey(p, i) /\ pc[p] \in Late
    /\ i \in todo[p] /\ \A j \in todo[p] : i <= j
    /\ Acts(p, i)
    /\ UNCHANGED <<now, dropped, localCache, given, frame, pool>>
    /\ faults' \in {faults, faults + 1}

\* The rest leaves calls and tasks alone, and takes items only by dropping them.
RestMoves ==
    /\ UNCHANGED <<given, frame, tasks>>
    /\ now' \in {now, now + 1} /\ faults' \in {faults, faults + 1}
    /\ dropped \subseteq dropped'
    /\ \A k \in Key : \/ item'[k] = item[k] /\ expiry'[k] = expiry[k]
                      \/ item'[k] = Absent /\ k \in dropped'

BaseInv == MemType /\ CallInv /\ PoolInv

\* The steps by who takes them: a call, a command of a task, a worker, the environment.
LEMMA Steps ==
    ASSUME [Next]_vars
    PROVE  \/ \E p \in Request : CallAct(p)
           \/ \E w \in Request, i \in Idx : Command(w, i)
           \/ (\E w \in Request : Between(w)) \/ Environment
  BY Zenon DEF Next, CallAct, Command, Between, Environment, Goroutine, IncreaseAsync

\* What a step of a call changes.
LEMMA CallActs ==
    ASSUME MemType, NEW p \in Request, CallAct(p)
    PROVE  CallMoves(p)
  <1> USE DEF given, memcache, async, tasks, pool, SameCall, Read, Late, CallMoves
  <1>1. CASE GenerateCacheKeys(p)
    <2>1. PICK c : args' = [args EXCEPT ![p] = c]
      BY <1>1, Zenon DEF GenerateCacheKeys
    <2> QED  BY <1>1, <2>1, ZenonT(40) DEF GenerateCacheKeys, MemType
  <1>2. CASE LookupLocalCache(p)
    BY <1>2, Zenon DEF LookupLocalCache, MemType
  <1>3. ASSUME NEW k \in Key, Get(p, k) PROVE CallMoves(p)
    BY <1>3, Zenon DEF Get, MemType
  <1>4. CASE GetError(p)
    BY <1>4, Zenon DEF GetError, MemType
  <1>5. CASE Reply(p)
    BY <1>5, Zenon DEF Reply, MemType
  <1>6. CASE Submit(p)
    BY <1>6, Zenon DEF Submit, MemType
  <1>7. CASE Flush(p)
    BY <1>7, Zenon DEF Flush, MemType
  <1> QED  BY <1>1, <1>2, <1>3, <1>4, <1>5, <1>6, <1>7, Zenon DEF CallAct, DoLimit

\* What a command of a task changes, successful or not.
LEMMA CommandActs ==
    ASSUME BaseInv, NEW w \in Request, NEW i \in Idx, Command(w, i)
    PROVE  \E p \in Request : TaskMoves(p, i)
  <1>1. /\ Turn(w, i) /\ Acts(job[w], i)
        /\ UNCHANGED <<now, dropped, localCache, given, frame, pool>>
        /\ faults' \in {faults, faults + 1}
    <2>1. CASE Increment(w, i)
      BY <2>1, Zenon DEF Increment, Acts, Stored
    <2>2. CASE IncrementMiss(w, i)
      <3>1. UNCHANGED <<item, expiry, dropped, faults>>
        BY <2>2, Zenon DEF IncrementMiss, memcache
      <3> QED  BY <2>2, <3>1, Zenon DEF IncrementMiss, Acts, GivenUp, Moved
    <2>3. CASE Add(w, i)
      BY <2>3, Zenon DEF Add, Acts, Stored
    <2>4. CASE NotStored(w, i)
      <3>1. UNCHANGED <<item, expiry, dropped, faults>>
        BY <2>4, Zenon DEF NotStored, memcache
      <3> QED  BY <2>4, <3>1, Zenon DEF NotStored, Acts, Moved
    <2>5. CASE CommandError(w, i)
      <3>1. CacheKey(job[w], i)[1] = args[job[w]].desc[i]  BY Zenon DEF CacheKey
      <3> QED  BY <2>5, <3>1, Zenon DEF CommandError, Acts, Stored, GivenUp
    <2> QED  BY <2>1, <2>2, <2>3, <2>4, <2>5, Zenon DEF Command
  <1>2. job[w] \in Request /\ pc[job[w]] \in Late /\ HasKey(job[w], i)
    BY <1>1, Zenon DEF Turn, BaseInv, PoolInv, CallInv, CallOK
  <1> QED  BY <1>1, <1>2, Zenon DEF Turn, TaskMoves

\* What workers between tasks, the clock and memcached change.
LEMMA RestActs ==
    ASSUME MemType, (\E w \in Request : Between(w)) \/ Environment
    PROVE  RestMoves
  <1> USE DEF async, RestMoves
  <1>1. ASSUME NEW w \in Request, Between(w) PROVE RestMoves
    BY <1>1, Zenon DEF Between, TaskDone, WorkerTick, memcache
  <1>2. CASE Tick
    BY <1>2, Zenon DEF Tick
  <1>3. ASSUME NEW k \in Key, Evict(k) PROVE RestMoves
    BY <1>3, Zenon DEF Evict
  <1>4. ASSUME NEW k \in Key, EvictItem(k) PROVE RestMoves
    BY <1>4, Zenon DEF EvictItem, MemType
  <1>5. CASE UNCHANGED vars
    BY <1>5, Zenon DEF vars, memcache
  <1> QED  BY <1>1, <1>2, <1>3, <1>4, <1>5, Zenon DEF Environment

\* Every step is one of these moves.
LEMMA StepMoves ==
    ASSUME BaseInv, [Next]_vars
    PROVE  \/ \E p \in Request : CallMoves(p)
           \/ \E p \in Request, i \in Idx : TaskMoves(p, i)
           \/ RestMoves
  BY Steps, CallActs, CommandActs, RestActs, Zenon DEF BaseInv
(***************************************************************************)
(* Types are kept.                                                         *)
(***************************************************************************)
\* The steps of DoLimit.
LEMMA CallTypes ==
    ASSUME MemType, CallInv, NEW p \in Request, CallAct(p)
    PROVE  MemType'
  <1>1. CASE GenerateCacheKeys(p)
    <2>1. PICK c \in Calls : args' = [args EXCEPT ![p] = c]
      BY <1>1, Zenon DEF GenerateCacheKeys
    <2>2. args' \in [Request -> Call]  BY <2>1, RuleAssumption, Zenon DEF MemType
    <2> QED  BY <1>1, <2>2, Zenon DEF GenerateCacheKeys, MemType, memcache, async, tasks, pool
  <1>2. CASE LookupLocalCache(p)
    <2>1. HasKey(p, idx[p]) => idx[p] \in Idx  BY KeyOf, Zenon
    <2> QED  BY <1>2, <2>1 DEF LookupLocalCache, MemType, memcache, given, async, tasks, pool
  <1>3. ASSUME NEW k \in Key, Get(p, k) PROVE MemType'
    <2>1. Decoded(item[k]) \in Nat /\ CountedOn(k) \subseteq Slot
      BY Zenon DEF MemType, Decoded, CountedOn
    <2> QED  BY <1>3, <2>1, ZenonT(30) DEF Get, MemType, memcache, given, async, tasks, pool
  <1>4. CASE GetError(p)
    <2>1. faults' \in Nat  BY <1>4 DEF GetError, MemType
    <2> QED  BY <1>4, <2>1, ZenonT(30) DEF GetError, MemType, given, async, tasks, pool
  <1>5. CASE Reply(p)
    <2>1. idx[p] \in Idx
      <3>1. idx[p] \in 1..args[p].n  BY Zenon DEF CallInv, CallOK
      <3>2. args[p].n \in Idx  BY Zenon DEF MemType, Call
      <3> QED  BY <3>1, <3>2, BoundsAssumption DEF Idx
    <2>2. code' \in [Request -> [Idx -> {"none", "OK", "OVER_LIMIT"}]]
      BY <1>5, <2>1, Zenon DEF Reply, MemType, ResponseCode
    <2>3. localCache' \in [Key -> Nat]
      <3>1. HasKey(p, idx[p]) => /\ now + UnitToDivider(Unit[args[p].desc[idx[p]]]) \in Nat
                                 /\ CacheKey(p, idx[p]) \in Key
        BY KeyOf, DividerOf, BoundsAssumption DEF MemType
      <3> QED  BY <1>5, <3>1, Zenon DEF Reply, MemType
    <2>4. idx[p] + 1 \in Nat  BY <2>1, BoundsAssumption DEF Idx
    <2>5. idx' \in [Request -> Nat]
      <3>1. idx \in [Request -> Nat]  BY Zenon DEF MemType
      <3>2. \E n \in Nat : idx' = [idx EXCEPT ![p] = n]
        <4>1. idx' = [idx EXCEPT ![p] = IF IsLast(p) THEN idx[p] ELSE idx[p] + 1]
          BY <1>5, Zenon DEF Reply
        <4> QED  BY <2>4, <3>1, <4>1, Zenon
      <3> QED  BY <3>1, <3>2, Zenon
    <2>6. UNCHANGED <<now, memcache, given, overLocal, toGet, before, seen, async>>
      BY <1>5, Zenon DEF Reply
    <2>7. pc' \in [Request -> {"idle", "local", "get", "reply", "submit", "flush", "done"}]
      BY <1>5, Zenon DEF Reply, MemType
    <2> QED
      BY <2>2, <2>3, <2>5, <2>6, <2>7, ZenonT(30)
      DEF MemType, memcache, given, async, tasks, pool
  <1>6. CASE Submit(p)
    <2>1. PICK w \in Request : Assign(w, p)  BY <1>6, Zenon DEF Submit
    <2> QED  BY <1>6, <2>1, Zenon DEF Submit, Assign, MemType, memcache, given
  <1>7. CASE Flush(p)
    BY <1>7, Zenon DEF Flush, MemType, memcache, given, async, tasks, pool
  <1> QED  BY <1>1, <1>2, <1>3, <1>4, <1>5, <1>6, <1>7, Zenon DEF CallAct, DoLimit

\* Commands keep the types.
LEMMA TaskTypes ==
    ASSUME MemType, NEW p \in Request, NEW i \in Idx, TaskMoves(p, i)
    PROVE  MemType'
  <1>1. /\ UNCHANGED <<now, dropped, localCache, given, frame, pool>> /\ faults' \in Nat
        /\ HasKey(p, i) /\ Acts(p, i)
    BY DEF TaskMoves, MemType
  <1>2. PICK k \in Key : k = CacheKey(p, i) /\ Unit[k[1]] \in Units
    BY <1>1, KeyOf, ZenonT(30)
  <1>3. item' \in [Key -> Nat] /\ expiry' \in [Key -> Nat] /\ counted' \subseteq Slot
    <2>1. CASE Stored(p, i)
      <3>1. HitsAddend(p) \in Nat  BY HitsAddendOf, WordAssumption
      <3>2. /\ item' = [item EXCEPT ![k] = item[k] + HitsAddend(p)]
            /\ counted' = counted \cup {<<p, i>>}
            /\ \/ expiry' = expiry
               \/ \E s \in ExpirationSeconds(k[1]) : expiry' = [expiry EXCEPT ![k] = now + s]
        BY <1>2, <2>1, Zenon DEF Stored, Store, Plus
      <3>3. \A s \in ExpirationSeconds(k[1]) : now + s \in Nat
        BY <1>2, DividerOf, BoundsAssumption DEF ExpirationSeconds, MemType, UMax
      <3> QED  BY <3>1, <3>2, <3>3 DEF MemType, Slot
    <2>2. CASE GivenUp(p, i) \/ Moved(p, i)
      BY <2>2, Zenon DEF GivenUp, Moved, MemType
    <2> QED  BY <1>1, <2>1, <2>2, Zenon DEF Acts
  <1>4. todo' \in [Request -> SUBSET Idx] /\ dance' \in [Request -> {"incr", "add", "again"}]
    <2>1. CASE Continue(p, i)  BY <2>1, Zenon DEF Continue, MemType
    <2>2. CASE Moved(p, i)  BY <2>2, Zenon DEF Moved, MemType
    <2> QED  BY <1>1, <2>1, <2>2, Zenon DEF Acts, Stored, GivenUp
  <1> QED  BY <1>1, <1>3, <1>4, Zenon DEF MemType, given, frame, pool

\* Workers between tasks and the environment keep the types.
LEMMA RestTypes ==
    ASSUME MemType, (\E w \in Request : Between(w)) \/ Environment
    PROVE  MemType'
  <1> USE DEF given, frame, async, tasks, memcache
  <1>1. ASSUME NEW w \in Request, Between(w) PROVE MemType'
    BY <1>1, ZenonT(30) DEF Between, TaskDone, WorkerTick, MemType
  <1>2. CASE Tick
    BY <1>2, BoundsAssumption DEF Tick, MemType, pool, Absent
  <1>3. ASSUME NEW k \in Key, Evict(k) \/ EvictItem(k) PROVE MemType'
    <2>1. CASE Evict(k)  BY <2>1 DEF Evict, MemType, pool, Absent
    <2>2. CASE EvictItem(k)  BY <2>2 DEF EvictItem, MemType, pool, Absent
    <2> QED  BY <1>3, <2>1, <2>2
  <1>4. CASE UNCHANGED vars
    BY <1>4, Zenon DEF vars, MemType, pool
  <1> QED  BY <1>1, <1>2, <1>3, <1>4, Zenon DEF Environment
(***************************************************************************)
(* The phases of a call are kept.                                          *)
(***************************************************************************)
KeysKept(p) ==
    /\ \A i : (HasKey(p, i)' <=> HasKey(p, i)) /\ CacheKey(p, i)' = CacheKey(p, i)
    /\ HitsAddend(p)' = HitsAddend(p)

\* A call that keeps its arguments and its time keeps its keys.
LEMMA SameKeys ==
    ASSUME NEW p \in Request, args'[p] = args[p], readAt'[p] = readAt[p]
    PROVE  KeysKept(p)
  BY Zenon DEF KeysKept, HasKey, Used, CacheKey, HitsAddend

DoneStays == \A q \in Request : pc[q] = "done" => pc'[q] = "done"

\* A call that does not move keeps its phase.
LEMMA CallFrame ==
    ASSUME MemType, NEW p \in Request, CallOK(p), SameCall(p), DoneStays,
           now' \in {now, now + 1}, todo'[p] \subseteq todo[p],
           pc[p] \in Early => worker'[p] = worker[p]
    PROVE  CallOK(p)'
  <1>1. KeysKept(p)  BY SameKeys, Zenon DEF SameCall
  <1>2. readAt'[p] <= now'
    BY BoundsAssumption DEF CallOK, SameCall, MemType
  <1>3. \A q \in after'[p] : pc'[q] = "done"
    BY Zenon DEF CallOK, SameCall, MemType, DoneStays
  <1>4. \A i \in overLocal'[p] \cup toGet'[p] \cup todo'[p] : HasKey(p, i)'
    BY <1>1, Zenon DEF CallOK, SameCall, KeysKept
  <1>5. pc'[p] = "local" => \A i \in 1..(idx'[p] - 1) :
           HasKey(p, i)' => i \in overLocal'[p] \cup toGet'[p]
    BY <1>1, Zenon DEF CallOK, SameCall, KeysKept
  <1>6. pc'[p] \in Early => todo'[p] = {} /\ worker'[p] = "none"
    BY Zenon DEF CallOK, SameCall
  <1> QED  BY <1>2, <1>3, <1>4, <1>5, <1>6, Zenon DEF CallOK, SameCall

\* A call keeps its own phase in order.
LEMMA CallStep ==
    ASSUME MemType, CallInv, NEW p \in Request, CallAct(p), CallMoves(p)
    PROVE  CallOK(p)' /\ DoneStays
  <1> USE DEF given, memcache, async, tasks, pool
  <1>1. CallOK(p)  BY DEF CallInv
  <1>2. DoneStays  BY Zenon DEF CallMoves, SameCall, DoneStays
  <1>3. /\ args[p].n \in Nat /\ idx[p] \in 1..args[p].n /\ now \in Nat
        /\ readAt[p] \in Nat /\ readAt[p] <= now
        /\ \A q \in after[p] : pc'[q] = "done"
    <2>1. args[p].n \in Idx  BY Zenon DEF MemType, Call
    <2>2. now \in 0..MaxTime /\ readAt[p] \in 0..MaxTime  BY Zenon DEF MemType
    <2>3. after[p] \subseteq Request  BY Zenon DEF MemType
    <2>4. /\ idx[p] \in 1..args[p].n /\ readAt[p] <= now
          /\ \A q \in after[p] : pc[q] = "done"
      BY <1>1, Zenon DEF CallOK
    <2>5. \A q \in after[p] : pc'[q] = "done"  BY <1>2, <2>3, <2>4, Zenon DEF DoneStays
    <2>6. args[p].n \in Nat /\ now \in Nat /\ readAt[p] \in Nat
      BY <2>1, <2>2, BoundsAssumption DEF Idx
    <2> QED  BY <2>4, <2>5, <2>6, Zenon
  <1>4. CASE GenerateCacheKeys(p)
    <2>1. PICK c \in Calls : args' = [args EXCEPT ![p] = c]
      BY <1>4, Zenon DEF GenerateCacheKeys
    <2>2. c.n \in Nat \ {0}
      BY RuleAssumption, BoundsAssumption DEF Call, Idx
    <2>3. /\ pc[p] = "idle" /\ pc'[p] = "local" /\ readAt'[p] = now /\ now' = now
          /\ UNCHANGED <<idx, overLocal, toGet, code, todo, worker>> /\ args'[p] = c
          /\ after'[p] = {q \in Request : pc[q] = "done"}
      BY <1>4, <2>1, Zenon DEF GenerateCacheKeys, MemType
    <2>4. /\ idx[p] = 1 /\ overLocal[p] = {} /\ toGet[p] = {}
          /\ todo[p] = {} /\ worker[p] = "none" /\ \A i \in Idx : code[p][i] = "none"
      BY <1>1, <2>3 DEF CallOK, Early, Read
    <2>5. readAt'[p] <= now' /\ idx'[p] \in 1..args'[p].n /\ 1..(idx'[p] - 1) = {}
      BY <1>3, <2>2, <2>3, <2>4
    <2>6. \A q \in after'[p] : pc'[q] = "done"  BY <1>2, <2>3, Zenon DEF DoneStays
    <2> QED  BY <1>2, <2>3, <2>4, <2>5, <2>6, Zenon DEF CallOK, Early, Read
  <1>5. CASE LookupLocalCache(p)
    <2>1. /\ pc[p] = "local" /\ UNCHANGED <<now, args, readAt, after, code, todo, worker>>
      BY <1>5, Zenon DEF LookupLocalCache
    <2>2. PICK i \in Nat : i = idx[p]  BY <1>3
    <2>3. overLocal'[p] \cup toGet'[p] =
             overLocal[p] \cup toGet[p] \cup (IF HasKey(p, i) THEN {i} ELSE {})
      BY <1>5, <2>2, Zenon DEF LookupLocalCache, MemType
    <2>4. KeysKept(p)  BY <2>1, SameKeys, Zenon
    <2>5. \A j \in overLocal'[p] \cup toGet'[p] \cup todo'[p] : HasKey(p, j)'
      BY <1>1, <2>1, <2>3, <2>4, Zenon DEF CallOK, KeysKept
    <2>6. \A j \in 1..i : HasKey(p, j)' => j \in overLocal'[p] \cup toGet'[p]
      <3>1. \A j \in 1..i : j = i \/ j \in 1..(i - 1)  OBVIOUS
      <3> QED  BY <1>1, <2>1, <2>2, <2>3, <2>4, <3>1, Zenon DEF CallOK, KeysKept
    <2>7. \/ i # args[p].n /\ idx'[p] = i + 1 /\ pc'[p] = "local"
          \/ idx'[p] = 1 /\ pc'[p] = "get"
      BY <1>5, <2>2, Zenon DEF LookupLocalCache, IsLast, MemType
    <2>8. idx'[p] \in 1..args[p].n /\ (pc'[p] = "local" => idx'[p] - 1 = i)
      BY <1>3, <2>2, <2>7
    <2> QED  BY <1>1, <1>2, <1>3, <2>1, <2>5, <2>6, <2>7, <2>8, Zenon DEF CallOK, Early, Read
  <1>6. CASE (\E k \in Key : Get(p, k)) \/ GetError(p)
    <2>1. /\ pc[p] = "get" /\ toGet'[p] \subseteq toGet[p]
          /\ UNCHANGED <<now, pc, args, readAt, after, code, todo, worker, idx, overLocal>>
      BY <1>6 DEF Get, GetError, MemType
    <2>2. KeysKept(p)  BY <2>1, SameKeys, Zenon
    <2> QED  BY <1>1, <1>2, <1>3, <2>1, <2>2, ZenonT(40) DEF CallOK, Read, Early, KeysKept
  <1>7. CASE Reply(p)
    <2>1. UNCHANGED <<now, args, readAt, after, todo, worker, overLocal, toGet>>
      BY <1>7, Zenon DEF Reply
    <2>2. KeysKept(p)  BY <2>1, SameKeys, Zenon
    <2>3. pc[p] \in {"get", "reply"} /\ toGet[p] = {}
      BY <1>1, <1>7, Zenon DEF Reply, CallOK, Read
    <2>4. pc'[p] \in {"reply", "submit"} /\ idx'[p] \in 1..args[p].n
      <3>1. \/ idx[p] # args[p].n /\ idx'[p] = idx[p] + 1 /\ pc'[p] = "reply"
            \/ idx'[p] = idx[p] /\ pc'[p] = "submit"
        BY <1>7, Zenon DEF Reply, IsLast, MemType
      <3> QED  BY <1>3, <3>1
    <2> QED  BY <1>1, <1>2, <1>3, <2>1, <2>2, <2>3, <2>4, Zenon DEF CallOK, Read, Early, KeysKept
  <1>8. CASE Submit(p) \/ Flush(p)
    <2>1. /\ UNCHANGED <<now, args, readAt, after, idx, overLocal, toGet, code>>
          /\ pc[p] \in {"submit", "flush"} /\ pc'[p] \in Late
          /\ \A i \in todo'[p] : i \in todo[p] \/ HasKey(p, i)
      BY <1>8 DEF Submit, Flush, MemType, Late
    <2>2. KeysKept(p)  BY <2>1, SameKeys, Zenon
    <2> QED  BY <1>1, <1>2, <1>3, <2>1, <2>2, Zenon DEF CallOK, Read, Early, Late, KeysKept
  <1> QED  BY <1>2, <1>4, <1>5, <1>6, <1>7, <1>8, Zenon DEF CallAct, DoLimit
(***************************************************************************)
(* Workers and tasks.                                                      *)
(***************************************************************************)
\* The workers of calls that have not submitted.
EarlyWorkers == \A q \in Request : pc[q] \in Early /\ pc'[q] \in Early => worker'[q] = worker[q]

\* Submit gives its task to an idle worker, or to a new one.
LEMMA SubmitAssigns ==
    ASSUME MemType, CallInv, NEW p \in Request, Submit(p)
    PROVE  \E w \in Request : /\ worker[w] \in {"idle", "none"}
                              /\ pc[w] \in Early => w = p
                              /\ Assign(w, p)
  <1>1. pc[p] = "submit" /\ worker[p] = "none"
    BY Zenon DEF Submit, CallInv, CallOK, Early
  <1>2. \A w \in Request : worker[w] = "idle" => pc[w] \notin Early
    BY Zenon DEF CallInv, CallOK
  <1> QED  BY <1>1, <1>2, Zenon DEF Submit

\* Steps of a call keep the pool in order; Submit hands a task to one worker.
LEMMA PoolCalls ==
    ASSUME MemType, CallInv, PoolInv, NEW p \in Request, CallAct(p), CallMoves(p)
    PROVE  PoolInv' /\ EarlyWorkers
  <1>1. /\ \A q \in Request \ {p} : pc'[q] = pc[q] /\ todo'[q] = todo[q]
        /\ pc[p] \in Late => pc'[p] \in Late
    BY Zenon DEF CallMoves, SameCall
  <1>2. CASE Submit(p)
    <2>1. pc'[p] \in Late  BY <1>2, Zenon DEF Submit, MemType, Late
    <2>2. PICK w \in Request : /\ worker[w] \in {"idle", "none"}
                               /\ pc[w] \in Early => w = p
                               /\ Assign(w, p)
      BY <1>2, SubmitAssigns, Zenon
    <2>3. /\ worker[w] # "busy" /\ worker'[w] = "busy" /\ job'[w] = p
          /\ \A v \in Request \ {w} : job'[v] = job[v] /\ worker'[v] = worker[v]
      BY <2>2, Zenon DEF Assign, MemType
    <2>4. \A v \in Request : /\ worker'[v] = "busy" => job'[v] \in Request
                             /\ job'[v] \in Request => pc'[job'[v]] \in Late
      BY <1>1, <2>1, <2>3, Zenon DEF PoolInv
    <2>5. \A q \in Request : todo'[q] # {} => \E v \in Busy' : job'[v] = q
      <3>1. w \in Busy' /\ \A v \in Busy : v \in Busy' /\ job'[v] = job[v]
        BY <2>3, Zenon DEF Busy
      <3> QED  BY <1>1, <2>3, <3>1 DEF PoolInv
    <2>6. EarlyWorkers
      BY <2>1, <2>2, <2>3, Zenon DEF EarlyWorkers, Early, Late
    <2> QED  BY <2>4, <2>5, <2>6, Zenon DEF PoolInv
  <1>3. CASE ~Submit(p)
    <2>1. UNCHANGED <<todo, worker, job>>
      BY <1>3, Zenon DEF CallAct, GenerateCacheKeys, DoLimit, GetError, LookupLocalCache,
                         Get, Reply, Flush, async, tasks, pool
    <2>2. Busy' = Busy  BY <2>1 DEF Busy
    <2>3. \A w \in Request : /\ worker'[w] = "busy" => job'[w] \in Request
                             /\ job'[w] \in Request => pc'[job'[w]] \in Late
      BY <1>1, <2>1, Zenon DEF PoolInv
    <2> QED  BY <2>1, <2>2, <2>3, Zenon DEF PoolInv, EarlyWorkers
  <1> QED  BY <1>2, <1>3

\* A worker between two tasks.
LEMMA PoolBetween ==
    ASSUME MemType, CallInv, PoolInv, NEW w \in Request, Between(w)
    PROVE  PoolInv' /\ EarlyWorkers
  <1>1. UNCHANGED <<pc, todo>>
    BY Zenon DEF Between, TaskDone, WorkerTick, frame, tasks
  <1>2. /\ worker[w] \in {"busy", "idle"} /\ worker'[w] # "busy"
        /\ worker[w] = "busy" => todo[job[w]] = {}
        /\ job'[w] \in {job[w], NoJob}
        /\ \A v \in Request \ {w} : worker'[v] = worker[v] /\ job'[v] = job[v]
    BY DEF Between, TaskDone, WorkerTick, MemType
  <1>3. \A v \in Request : /\ worker'[v] = "busy" => job'[v] \in Request
                           /\ job'[v] \in Request => pc'[job'[v]] \in Late
    BY <1>1, <1>2, RuleAssumption DEF PoolInv
  <1>4. \A q \in Request : todo'[q] # {} => \E v \in Busy' : job'[v] = q
    BY <1>1, <1>2 DEF PoolInv, Busy
  <1>5. EarlyWorkers
    BY <1>2, Zenon DEF CallInv, CallOK, EarlyWorkers
  <1> QED  BY <1>3, <1>4, <1>5, Zenon DEF PoolInv

\* Commands and the environment leave the workers alone.
LEMMA PoolStays ==
    ASSUME PoolInv, UNCHANGED <<worker, job, pc>>, \A q \in Request : todo'[q] \subseteq todo[q]
    PROVE  PoolInv' /\ EarlyWorkers
  <1>1. Busy' = Busy  BY DEF Busy
  <1>2. \A q \in Request : todo'[q] # {} => todo[q] # {}  OBVIOUS
  <1> QED  BY <1>1, <1>2, Zenon DEF PoolInv, EarlyWorkers

\* The list of a task.
LEMMA TaskTodo ==
    ASSUME MemType, NEW p \in Request, NEW i \in Idx, TaskMoves(p, i)
    PROVE  /\ \A q \in Request \ {p} : todo'[q] = todo[q] /\ dance'[q] = dance[q]
           /\ \/ Moved(p, i) /\ todo'[p] = todo[p]
              \/ todo'[p] = todo[p] \ {i} /\ dance'[p] = "incr"
  <1>1. CASE Moved(p, i)  BY <1>1, ZenonT(40) DEF Moved, MemType
  <1>2. CASE Continue(p, i)  BY <1>2, Zenon DEF Continue, MemType
  <1> QED  BY <1>1, <1>2, Zenon DEF TaskMoves, Acts, Stored, GivenUp

\* The invariant holds at the start.
LEMMA BaseInit ==
    ASSUME Init
    PROVE  BaseInv
  <1>1. MemType  BY InitType
  <1>2. CallInv
    BY BoundsAssumption DEF Init, CallInv, CallOK, Read, Early, HasKey, Used
  <1>3. PoolInv
    BY RuleAssumption, Zenon DEF Init, PoolInv, Busy
  <1> QED  BY <1>1, <1>2, <1>3 DEF BaseInv

\* Every step keeps it.
LEMMA BaseNext ==
    ASSUME BaseInv, [Next]_vars
    PROVE  BaseInv'
  <1> USE DEF BaseInv
  <1>1. ASSUME NEW p \in Request, CallAct(p) PROVE BaseInv'
    <2>1. CallMoves(p) /\ MemType'  BY <1>1, CallActs, CallTypes, Zenon
    <2>2. PoolInv' /\ EarlyWorkers  BY <1>1, <2>1, PoolCalls, Zenon
    <2>3. CallOK(p)' /\ DoneStays  BY <1>1, <2>1, CallStep, Zenon
    <2>4. ASSUME NEW q \in Request \ {p} PROVE CallOK(q)'
      <3>1. /\ CallOK(q) /\ SameCall(q) /\ todo'[q] \subseteq todo[q] /\ now' \in {now, now + 1}
            /\ pc[q] \in Early => worker'[q] = worker[q]
        BY <2>1, <2>2, Zenon DEF CallInv, CallMoves, EarlyWorkers, SameCall
      <3> QED  BY <2>3, <3>1, CallFrame, Zenon
    <2> QED  BY <2>1, <2>2, <2>3, <2>4, Zenon DEF CallInv
  <1>2. ASSUME \A q \in Request : SameCall(q) /\ todo'[q] \subseteq todo[q],
               EarlyWorkers, now' \in {now, now + 1}
        PROVE  CallInv'
    <2>1. DoneStays  BY <1>2, Zenon DEF SameCall, DoneStays
    <2>2. ASSUME NEW q \in Request PROVE CallOK(q)'
      <3>1. CallOK(q) /\ (pc[q] \in Early => worker'[q] = worker[q])
        BY <1>2, Zenon DEF CallInv, EarlyWorkers, SameCall
      <3> QED  BY <1>2, <2>1, <3>1, CallFrame, Zenon
    <2> QED  BY <2>2 DEF CallInv
  <1>3. ASSUME NEW p \in Request, NEW i \in Idx, TaskMoves(p, i) PROVE BaseInv'
    <2>1. MemType' /\ \A q \in Request : todo'[q] \subseteq todo[q]
      BY <1>3, TaskTypes, TaskTodo, Zenon
    <2>2. UNCHANGED <<worker, job, now>> /\ UNCHANGED <<given, frame>>
      BY <1>3, Zenon DEF TaskMoves, pool
    <2>3. UNCHANGED pc /\ \A q \in Request : SameCall(q)
      BY <2>2, Zenon DEF given, frame, SameCall
    <2>4. PoolInv' /\ EarlyWorkers  BY <2>1, <2>2, <2>3, PoolStays, Zenon
    <2> QED  BY <1>2, <2>1, <2>2, <2>3, <2>4, Zenon
  <1>4. CASE (\E w \in Request : Between(w)) \/ Environment
    <2>1. MemType' /\ RestMoves  BY <1>4, RestTypes, RestActs, Zenon
    <2>2. UNCHANGED <<given, frame>> /\ UNCHANGED <<pc, todo>> /\ now' \in {now, now + 1}
      BY <2>1, Zenon DEF RestMoves, frame, tasks
    <2>3. \A q \in Request : SameCall(q) /\ todo'[q] \subseteq todo[q]
      BY <2>2, Zenon DEF given, frame, SameCall
    <2>4. ASSUME Environment PROVE UNCHANGED <<worker, job>>
      BY <2>4, Zenon DEF Environment, Tick, Evict, EvictItem, vars, async, pool
    <2>5. PoolInv' /\ EarlyWorkers
      BY <1>4, <2>2, <2>3, <2>4, PoolBetween, PoolStays, Zenon
    <2> QED  BY <1>2, <2>1, <2>2, <2>3, <2>5, Zenon
  <1> QED  BY <1>1, <1>3, <1>4, Steps, CommandActs, Zenon

\* The keys of a call stay what they are once it has begun.
LEMMA KeysStay ==
    ASSUME BaseInv, [Next]_vars, NEW p \in Request, pc[p] # "idle"
    PROVE  /\ KeysKept(p) /\ pc'[p] # "idle"
           /\ pc[p] \in Read => pc'[p] \in Read /\ overLocal'[p] = overLocal[p]
           /\ pc[p] \in Late => pc'[p] \in Late
  <1>1. CASE SameCall(p)  BY <1>1, SameKeys, Zenon DEF SameCall
  <1>2. CASE CallMoves(p)  BY <1>2, SameKeys, Zenon DEF CallMoves
  <1>3. ASSUME UNCHANGED <<given, frame>> PROVE SameCall(p)
    BY <1>3, Zenon DEF given, frame, SameCall
  <1>4. ASSUME NEW q \in Request \ {p}, CallMoves(q) PROVE SameCall(p)
    BY <1>4, Zenon DEF CallMoves
  <1> QED  BY <1>1, <1>2, <1>3, <1>4, StepMoves, Zenon DEF TaskMoves, RestMoves
(***************************************************************************)
(* Counters outlive their window.                                          *)
(***************************************************************************)
LEMMA ExpiryStep ==
    ASSUME BaseInv, KeyOutlivesWindow, [Next]_vars
    PROVE  KeyOutlivesWindow'
  <1>1. ASSUME NEW p \in Request, NEW i \in Idx, TaskMoves(p, i), Stored(p, i)
        PROVE  KeyOutlivesWindow'
    <2>1. HasKey(p, i)  BY <1>1, Zenon DEF TaskMoves
    <2>2. PICK k \in Key : k = CacheKey(p, i) /\ k[2] <= readAt[p] /\ Unit[k[1]] \in Units
      BY <2>1, KeyOf, ZenonT(30) DEF BaseInv
    <2>3. /\ item' = [item EXCEPT ![k] = item[k] + HitsAddend(p)]
          /\ \/ item[k] # Absent /\ expiry' = expiry
             \/ \E s \in ExpirationSeconds(k[1]) : expiry' = [expiry EXCEPT ![k] = now + s]
      BY <1>1, <2>2, Zenon DEF Stored, Store, Plus
    <2>4. item \in [Key -> Nat] /\ expiry \in [Key -> Nat]  BY Zenon DEF BaseInv, MemType
    <2>5. readAt[p] \in Nat /\ now \in Nat /\ readAt[p] <= now /\ k[2] \in Nat
      BY BoundsAssumption DEF BaseInv, MemType, CallInv, CallOK, Key
    <2>6. ASSUME NEW s \in ExpirationSeconds(k[1]), expiry' = [expiry EXCEPT ![k] = now + s]
          PROVE  expiry'[k] >= k[2] + UnitToDivider(Unit[k[1]])
      <3>1. s >= UnitToDivider(Unit[k[1]]) /\ s \in Nat /\ UnitToDivider(Unit[k[1]]) \in Nat
        BY <2>2, DividerOf, BoundsAssumption DEF ExpirationSeconds, UMax
      <3> QED  BY <2>2, <2>4, <2>5, <2>6, <3>1
    <2> QED  BY <2>3, <2>4, <2>6, Zenon DEF KeyOutlivesWindow
  <1>2. ASSUME \A k \in Key : item'[k] # Absent => item'[k] = item[k] /\ expiry'[k] = expiry[k]
        PROVE  KeyOutlivesWindow'
    BY <1>2, Zenon DEF KeyOutlivesWindow
  <1>3. ASSUME NEW p \in Request, NEW i \in Idx, TaskMoves(p, i), ~Stored(p, i)
        PROVE  KeyOutlivesWindow'
    BY <1>2, <1>3, Zenon DEF TaskMoves, Acts, GivenUp, Moved
  <1>4. CASE (\E p \in Request : CallMoves(p)) \/ RestMoves
    BY <1>2, <1>4, Zenon DEF CallMoves, RestMoves
  <1> QED  BY <1>1, <1>3, <1>4, StepMoves, Zenon

\* A counter lives at least until its window is over: Add sets the expiration
\* from the moment of the increment, which is never before the window began
\* (cache_impl.go:163-173).
THEOREM CountersOutliveTheirWindow == Spec => []KeyOutlivesWindow
  <1> DEFINE Inv == BaseInv /\ KeyOutlivesWindow
  <1>1. Init => Inv
    <2>1. Init => KeyOutlivesWindow  BY DEF Init, KeyOutlivesWindow
    <2> QED  BY <2>1, BaseInit
  <1>2. Inv /\ [Next]_vars => Inv'
    BY BaseNext, ExpiryStep, Zenon
  <1>3. Inv => KeyOutlivesWindow  OBVIOUS
  <1> QED  BY <1>1, <1>2, <1>3, PTL DEF Spec
(***************************************************************************)
(* No hit is lost in the race to create a counter.                         *)
(***************************************************************************)
Settled(p, i) ==
    <<p, i>> \in counted \/ faults > 0 \/ CacheKey(p, i) \in dropped

\* What memcached has done once stays done.
LEMMA Monotone ==
    ASSUME BaseInv, [Next]_vars
    PROVE  /\ counted \subseteq counted' /\ dropped \subseteq dropped'
           /\ faults > 0 => faults' > 0
           /\ \A k \in Key : item[k] # Absent => item'[k] # Absent \/ k \in dropped'
  <1>1. faults' \in {faults, faults + 1}
    BY StepMoves, Zenon DEF CallMoves, TaskMoves, RestMoves
  <1>2. faults > 0 => faults' > 0  BY <1>1 DEF BaseInv, MemType
  <1>3. ASSUME NEW p \in Request, NEW i \in Idx, TaskMoves(p, i), Stored(p, i)
        PROVE  /\ counted \subseteq counted' /\ dropped' = dropped
               /\ \A k \in Key : item[k] # Absent => item'[k] # Absent
    <2>1. HitsAddend(p) \in 1..Word  BY HitsAddendOf DEF BaseInv
    <2>2. /\ item' = [item EXCEPT ![CacheKey(p, i)] = item[CacheKey(p, i)] + HitsAddend(p)]
          /\ counted' = counted \cup {<<p, i>>} /\ dropped' = dropped
      BY <1>3, Zenon DEF TaskMoves, Stored, Store, Plus
    <2>3. item \in [Key -> Nat]  BY Zenon DEF BaseInv, MemType
    <2> QED  BY <2>1, <2>2, <2>3, WordAssumption DEF Absent
  <1>4. ASSUME NEW p \in Request, NEW i \in Idx, TaskMoves(p, i), ~Stored(p, i)
        PROVE  UNCHANGED <<item, counted, dropped>>
    BY <1>4, Zenon DEF TaskMoves, Acts, GivenUp, Moved
  <1>5. CASE \E p \in Request : CallMoves(p)
    BY <1>2, <1>5, Zenon DEF CallMoves
  <1>6. CASE RestMoves
    BY <1>2, <1>6, Zenon DEF RestMoves, tasks
  <1> QED  BY <1>2, <1>3, <1>4, <1>5, <1>6, StepMoves, Zenon

\* A call submits by a step of its own.
LEMMA SubmitsItself ==
    ASSUME BaseInv, [Next]_vars, NEW p \in Request, pc[p] \notin Late, pc'[p] \in Late
    PROVE  CallMoves(p)
  <1>1. ASSUME NEW q \in Request \ {p}, CallMoves(q) PROVE pc'[p] = pc[p]
    BY <1>1, Zenon DEF CallMoves, SameCall
  <1>2. ASSUME RestMoves \/ \E q \in Request, j \in Idx : TaskMoves(q, j) PROVE pc' = pc
    BY <1>2, Zenon DEF TaskMoves, RestMoves, frame
  <1> QED  BY <1>1, <1>2, StepMoves, Zenon

\* A task counts the hits it takes off its list, or they are lost to an error
\* or with their key.
LEMMA TaskSettles ==
    ASSUME BaseInv, LossInv, [Next]_vars, NEW p \in Request, NEW i \in Idx,
           pc[p] \in Late, KeysKept(p), i \in todo[p], i \notin todo'[p]
    PROVE  Settled(p, i)'
  <1>1. TaskMoves(p, i) /\ ~Moved(p, i)
    <2>1. ASSUME NEW q \in Request, CallMoves(q) PROVE todo'[p] = todo[p]
      BY <2>1, Zenon DEF CallMoves
    <2>2. ASSUME RestMoves PROVE todo' = todo
      BY <2>2, Zenon DEF RestMoves, tasks
    <2>3. ASSUME NEW q \in Request, NEW j \in Idx, TaskMoves(q, j)
          PROVE  q = p /\ j = i /\ ~Moved(p, i)
      BY <2>3, TaskTodo, ZenonT(40) DEF BaseInv, Moved
    <2> QED  BY <2>1, <2>2, <2>3, StepMoves, Zenon
  <1>2. CASE Stored(p, i)
    BY <1>2, Zenon DEF Stored, Store, Settled
  <1>3. CASE faults' = faults + 1
    <2>1. faults' > 0  BY <1>3 DEF BaseInv, MemType
    <2> QED  BY <2>1, Zenon DEF Settled
  <1>4. CASE dance[p] = "again" /\ item[CacheKey(p, i)] = Absent
    <2>1. CacheKey(p, i) \in dropped
      BY <1>1, <1>4, Zenon DEF LossInv, AgainOK, TaskMoves
    <2> QED  BY <1>1, <2>1, Zenon DEF Settled, KeysKept, TaskMoves
  <1> QED  BY <1>1, <1>2, <1>3, <1>4, Zenon DEF TaskMoves, Acts, GivenUp

\* A slot that a task has dealt with stays dealt with.
LEMMA SettledStep ==
    ASSUME BaseInv, LossInv, [Next]_vars, NEW p \in Request, NEW i \in Idx,
           pc'[p] \in Late, HasKey(p, i)', i \notin overLocal'[p], i \notin todo'[p]
    PROVE  Settled(p, i)'
  <1>1. CASE pc[p] \notin Late
    <2>1. CallMoves(p)  BY <1>1, SubmitsItself, Zenon
    <2>2. /\ pc[p] \in Read /\ i \notin todo'[p]
          /\ todo'[p] = {j \in Idx : HasKey(p, j) /\ j \notin overLocal[p]}
      BY <1>1, <2>1, Zenon DEF CallMoves
    <2>3. KeysKept(p) /\ overLocal'[p] = overLocal[p]
      BY <2>2, KeysStay, Zenon DEF Read
    <2> QED  BY <2>2, <2>3, Zenon DEF KeysKept
  <1>2. CASE pc[p] \in Late
    <2>1. pc[p] # "idle" /\ pc[p] \in Read  BY <1>2, Zenon DEF Late, Read
    <2>2. KeysKept(p) /\ overLocal'[p] = overLocal[p]
      BY <2>1, KeysStay, Zenon
    <2>3. CASE i \notin todo[p]
      <3>1. Settled(p, i)
        BY <1>2, <2>2, <2>3 DEF LossInv, NoHitLostInRace, Settled, Slot, Late, KeysKept
      <3> QED  BY <2>2, <3>1, Monotone, Zenon DEF Settled, KeysKept
    <2> QED  BY <1>2, <2>2, <2>3, TaskSettles, Zenon
  <1> QED  BY <1>1, <1>2, Zenon

\* A task that increments again does so because another has stored the key.
LEMMA AgainStep ==
    ASSUME BaseInv, LossInv, [Next]_vars, NEW p \in Request
    PROVE  AgainOK(p)'
  <1>1. AgainOK(p) /\ \A i \in todo[p] : CacheKey(p, i) \in Key
    BY KeyOf, Zenon DEF LossInv, BaseInv, CallInv, CallOK
  <1>2. /\ \A k \in Key : item[k] # Absent => item'[k] # Absent \/ k \in dropped'
        /\ dropped \subseteq dropped'
    BY Monotone, Zenon
  <1>3. pc[p] \notin Late => pc[p] \in Early  BY Zenon DEF BaseInv, MemType, Late, Early
  <1>4. CASE dance'[p] = dance[p] /\ pc[p] \in Early
    BY <1>1, <1>4, Zenon DEF AgainOK
  <1>5. CASE dance'[p] = dance[p] /\ pc[p] \in Late /\ todo'[p] = todo[p]
    <2>1. pc'[p] \in Late /\ KeysKept(p)
      BY <1>5, KeysStay, Zenon DEF Late
    <2> QED  BY <1>1, <1>2, <1>5, <2>1, Zenon DEF AgainOK, KeysKept, Early, Late
  <1>6. ASSUME NEW j \in Idx, TaskMoves(p, j) PROVE AgainOK(p)'
    <2>1. pc[p] \in Late /\ j \in todo[p] /\ \A l \in todo[p] : j <= l
      BY <1>6, Zenon DEF TaskMoves
    <2>2. pc'[p] \in Late /\ KeysKept(p)
      BY <2>1, KeysStay, Zenon DEF Late
    <2>3. CASE Moved(p, j)
      <3>1. todo' = todo /\ item' = item  BY <2>3, Zenon DEF Moved
      <3>2. dance'[p] = "again" => item[CacheKey(p, j)] # Absent
        BY <2>3, Zenon DEF Moved, BaseInv, MemType
      <3>3. \A i \in todo[p] : (\A l \in todo[p] : i <= l) => i = j
        <4>1. todo[p] \subseteq Nat  BY BoundsAssumption DEF BaseInv, MemType, Idx
        <4> QED  BY <2>1, <4>1
      <3> QED  BY <2>2, <3>1, <3>2, <3>3, Zenon DEF AgainOK, KeysKept, Early, Late
    <2>4. CASE dance'[p] = "incr"
      BY <2>4, Zenon DEF AgainOK
    <2> QED  BY <1>6, <2>3, <2>4, TaskTodo, Zenon DEF BaseInv
  <1>7. ASSUME NEW q \in Request, CallMoves(q) PROVE AgainOK(p)'
    <2>1. dance' = dance /\ (pc[p] \in Late => todo'[p] = todo[p])
      BY <1>7, Zenon DEF CallMoves
    <2> QED  BY <1>3, <1>4, <1>5, <2>1, Zenon
  <1>8. ASSUME NEW q \in Request \ {p}, NEW j \in Idx, TaskMoves(q, j) PROVE AgainOK(p)'
    <2>1. todo'[p] = todo[p] /\ dance'[p] = dance[p]
      BY <1>8, TaskTodo, Zenon DEF BaseInv
    <2> QED  BY <1>3, <1>4, <1>5, <2>1, Zenon
  <1>9. CASE RestMoves
    <2>1. todo' = todo /\ dance' = dance  BY <1>9, Zenon DEF RestMoves, tasks
    <2> QED  BY <1>3, <1>4, <1>5, <2>1, Zenon
  <1> QED  BY <1>6, <1>7, <1>8, <1>9, StepMoves, Zenon

\* At the start no hit is lost.
LEMMA LossInit ==
    ASSUME Init
    PROVE  LossInv
  BY Zenon DEF Init, LossInv, NoHitLostInRace, AgainOK, Slot

\* Every step keeps LossInv.
LEMMA LossStep ==
    ASSUME BaseInv, LossInv, [Next]_vars
    PROVE  LossInv'
  <1>1. \A p \in Request : AgainOK(p)'  BY AgainStep, Zenon
  <1>2. ASSUME NEW p \in Request, NEW i \in Idx, pc'[p] \in Late, HasKey(p, i)',
               i \notin overLocal'[p], i \notin todo'[p]
        PROVE  Settled(p, i)'
    BY <1>2, SettledStep, Zenon
  <1>3. NoHitLostInRace'
    <2>1. SUFFICES ASSUME NEW s \in Slot, pc'[s[1]] \in {"flush", "done"},
                          HasKey(s[1], s[2])', s[2] \notin overLocal'[s[1]] \cup todo'[s[1]]
                   PROVE  s \in counted' \/ faults' > 0 \/ CacheKey(s[1], s[2])' \in dropped'
      BY Zenon DEF NoHitLostInRace
    <2>2. s[1] \in Request /\ s[2] \in Idx /\ s = <<s[1], s[2]>>  BY DEF Slot
    <2>3. pc'[s[1]] \in Late /\ s[2] \notin overLocal'[s[1]] /\ s[2] \notin todo'[s[1]]
      BY <2>1, Zenon DEF Late
    <2>4. Settled(s[1], s[2])'  BY <1>2, <2>1, <2>2, <2>3, Zenon
    <2> QED  BY <2>2, <2>4, Zenon DEF Settled
  <1> QED  BY <1>1, <1>3 DEF LossInv

\* The hits of a call whose task has passed them are counted, unless memcached
\* failed or lost the key: when two tasks race to create a counter, the second
\* Increment of the loser finds it (cache_impl.go:174-181).
THEOREM RaceLosesNoHit == Spec => []NoHitLostInRace
  <1> DEFINE Inv == BaseInv /\ LossInv
  <1>1. Init => Inv  BY BaseInit, LossInit, Zenon
  <1>2. Inv /\ [Next]_vars => Inv'  BY BaseNext, LossStep, Zenon
  <1>3. Inv => NoHitLostInRace  BY DEF LossInv
  <1> QED  BY <1>1, <1>2, <1>3, PTL DEF Spec
(***************************************************************************)
(* Sums of hits.                                                           *)
(***************************************************************************)
FiniteSlots(S) == S \subseteq Slot /\ IsFiniteSet(S)

\* The sum of the hits of finitely many slots is a number, and it grows with
\* the slots.
HitsLaws ==
    \A S : FiniteSlots(S) =>
       /\ Hits(S) \in Nat
       /\ \A s \in Slot \ S : Hits(S \cup {s}) = Hits(S) + HitsAddend(s[1])
       /\ \A T \in SUBSET S : FiniteSlots(T) /\ Hits(T) <= Hits(S)
       /\ \A T : FiniteSlots(T) =>
             FiniteSlots(S \cup T) /\ Hits(S \cup T) <= Hits(S) + Hits(T)

\* The slots whose hits are in the counter of k or will be.
Committed(k) == CountedOn(k) \cup Pending(k) \cup Unsubmitted(k)

Counting ==
    /\ HitsLaws
    /\ FiniteSlots(counted) /\ \A k : FiniteSlots(Committed(k))
    /\ waitGroup = 0 => Busy = {}

\* The hits of calls that keep theirs.
LEMMA HitsKept ==
    ASSUME NEW S, \A s \in S : KeysKept(s[1])
    PROVE  Hits(S)' = Hits(S)
  <1>1. HitsOf(S)' = HitsOf(S)  BY Zenon DEF HitsOf, KeysKept
  <1> QED  BY <1>1, Zenon DEF Hits

(***************************************************************************)
(* The counters of memcached.                                              *)
(***************************************************************************)
\* Hits are counted once, after their call has submitted them.
CountedOK(s) == pc[s[1]] \in Late /\ HasKey(s[1], s[2]) /\ s[2] \notin todo[s[1]]

SumInv == (\A s \in counted : CountedOK(s)) /\ CounterIsSumOfHits

\* A task only gets shorter.
LEMMA TodoShrinks ==
    ASSUME BaseInv, [Next]_vars, NEW p \in Request, pc[p] \in Late
    PROVE  todo'[p] \subseteq todo[p]
  <1>1. ASSUME NEW q \in Request, CallMoves(q) PROVE todo'[p] = todo[p]
    BY <1>1, Zenon DEF CallMoves
  <1>2. ASSUME RestMoves PROVE todo' = todo
    BY <1>2, Zenon DEF RestMoves, tasks
  <1>3. ASSUME NEW q \in Request, NEW i \in Idx, TaskMoves(q, i)
        PROVE  todo'[p] \subseteq todo[p]
    BY <1>3, TaskTodo, Zenon DEF BaseInv
  <1> QED  BY <1>1, <1>2, <1>3, StepMoves, Zenon

\* A call whose hits are counted keeps its keys.
LEMMA CountedKept ==
    ASSUME BaseInv, SumInv, [Next]_vars, NEW s \in counted
    PROVE  KeysKept(s[1]) /\ CountedOK(s)'
  <1>1. s[1] \in Request  BY Zenon DEF BaseInv, MemType, Slot
  <1>2. CountedOK(s)  BY Zenon DEF SumInv
  <1>3. KeysKept(s[1]) /\ pc'[s[1]] \in Late
    BY <1>1, <1>2, KeysStay, Zenon DEF CountedOK, Late
  <1>4. s[2] \notin todo'[s[1]]  BY <1>1, <1>2, TodoShrinks, Zenon DEF CountedOK
  <1> QED  BY <1>2, <1>3, <1>4, Zenon DEF CountedOK, KeysKept

\* The hits of the slots that are on k after a step.
LEMMA HitsAfter ==
    ASSUME NEW k, NEW T, CountedOn(k)' = T, \A s \in T : KeysKept(s[1])
    PROVE  Hits(CountedOn(k))' = Hits(T)
  <1>1. Hits(CountedOn(k))' = Hits(T)'  BY Zenon DEF Hits, HitsOf
  <1> QED  BY <1>1, HitsKept, Zenon

\* A command adds hits to one counter, and nothing else adds any.
LEMMA SumStep ==
    ASSUME BaseInv, SumInv, Counting, [Next]_vars
    PROVE  SumInv'
  <1>1. \A s \in counted : KeysKept(s[1]) /\ CountedOK(s)'  BY CountedKept, Zenon
  <1>2. ASSUME counted' = counted,
               \A k \in Key \ dropped' : k \notin dropped /\ item'[k] = item[k]
        PROVE  SumInv'
    <2>1. ASSUME NEW k \in Key \ dropped' PROVE item'[k] = Hits(CountedOn(k))'
      <3>1. PICK T : T = CountedOn(k)  BY Zenon
      <3>2. CountedOn(k)' = T  BY <1>1, <1>2, <3>1, Zenon DEF CountedOn, KeysKept
      <3>3. \A s \in T : KeysKept(s[1])  BY <1>1, <3>1, Zenon DEF CountedOn
      <3>4. item[k] = Hits(T)  BY <1>2, <2>1, <3>1, Zenon DEF SumInv, CounterIsSumOfHits
      <3> QED  BY <1>2, <2>1, <3>2, <3>3, <3>4, HitsAfter, Zenon
    <2>2. CounterIsSumOfHits'  BY <2>1, Zenon DEF CounterIsSumOfHits
    <2> QED  BY <1>1, <1>2, <2>2, Zenon DEF SumInv
  <1>3. ASSUME NEW p \in Request, NEW i \in Idx, TaskMoves(p, i), Stored(p, i)
        PROVE  SumInv'
    <2>1. PICK s : s = <<p, i>>  BY Zenon
    <2>2. s \in Slot /\ s[1] = p /\ s[2] = i  BY <2>1 DEF Slot
    <2>3. /\ HasKey(p, i) /\ pc[p] \in Late /\ i \in todo[p] /\ dropped' = dropped
          /\ todo' = [todo EXCEPT ![p] = @ \ {i}]
          /\ item' = [item EXCEPT ![CacheKey(p, i)] = item[CacheKey(p, i)] + HitsAddend(p)]
          /\ counted' = counted \cup {s}
      BY <1>3, <2>1, Zenon DEF TaskMoves, Stored, Store, Plus, Continue
    <2>4. KeysKept(p) /\ pc'[p] \in Late  BY <2>3, KeysStay, Zenon DEF Late
    <2>5. s \notin counted  BY <2>2, <2>3, Zenon DEF SumInv, CountedOK
    <2>6. \A t \in counted' : KeysKept(t[1])  BY <1>1, <2>2, <2>3, <2>4, Zenon
    <2>7. CountedOK(s)'
      <3>1. i \notin todo'[p]  BY <2>3, Zenon DEF BaseInv, MemType
      <3> QED  BY <2>2, <2>3, <2>4, <3>1, Zenon DEF CountedOK, KeysKept
    <2>8. ASSUME NEW k \in Key \ dropped' PROVE item'[k] = Hits(CountedOn(k))'
      <3>1. PICK S : S = CountedOn(k)  BY Zenon
      <3>2. item[k] = Hits(S) /\ s \notin S
        BY <2>3, <2>5, <2>8, <3>1, Zenon DEF SumInv, CounterIsSumOfHits, CountedOn
      <3>3. CASE k = CacheKey(p, i)
        <4>1. CountedOn(k)' = S \cup {s}
          BY <2>2, <2>3, <2>6, <3>1, <3>3, Zenon DEF CountedOn, KeysKept
        <4>2. \A t \in S \cup {s} : KeysKept(t[1])
          BY <2>3, <2>6, <3>1, Zenon DEF CountedOn
        <4>3. Hits(CountedOn(k))' = Hits(S \cup {s})
          BY <4>1, <4>2, HitsAfter, Zenon
        <4>4. Hits(S \cup {s}) = Hits(S) + HitsAddend(p)
          <5>1. FiniteSlots(S)  BY <3>1, Zenon DEF Counting, HitsLaws, CountedOn
          <5> QED  BY <2>2, <3>2, <5>1, Zenon DEF Counting, HitsLaws
        <4>5. item'[k] = item[k] + HitsAddend(p)
          BY <2>3, <2>8, <3>3, Zenon DEF BaseInv, MemType
        <4> QED  BY <3>2, <4>3, <4>4, <4>5, Zenon
      <3>4. CASE k # CacheKey(p, i)
        <4>1. CountedOn(k)' = S
          BY <2>2, <2>3, <2>6, <3>1, <3>4, ZenonT(40) DEF CountedOn, KeysKept
        <4>2. \A t \in S : KeysKept(t[1])
          BY <2>3, <2>6, <3>1, Zenon DEF CountedOn
        <4>3. item'[k] = item[k]
          BY <2>3, <2>8, <3>4, Zenon DEF BaseInv, MemType
        <4> QED  BY <3>2, <4>1, <4>2, <4>3, HitsAfter, Zenon
      <3> QED  BY <3>3, <3>4, Zenon
    <2>9. CounterIsSumOfHits'  BY <2>8, Zenon DEF CounterIsSumOfHits
    <2> QED  BY <1>1, <2>3, <2>7, <2>9, Zenon DEF SumInv
  <1>4. ASSUME NEW p \in Request, NEW i \in Idx, TaskMoves(p, i), ~Stored(p, i)
        PROVE  SumInv'
    BY <1>2, <1>4, Zenon DEF TaskMoves, Acts, GivenUp, Moved
  <1>5. CASE \E p \in Request : CallMoves(p)
    BY <1>2, <1>5, Zenon DEF CallMoves
  <1>6. CASE RestMoves
    BY <1>2, <1>6, Zenon DEF RestMoves, tasks
  <1> QED  BY <1>3, <1>4, <1>5, <1>6, StepMoves, Zenon

(***************************************************************************)
(* Flush.                                                                  *)
(***************************************************************************)
\* Once Flush has returned, the task of the call is finished.
WaitInv == autoFlush => \A p \in Request : pc[p] = "done" => todo[p] = {}

\* Flush waits for all tasks, so a call that has returned has none left.
LEMMA WaitStep ==
    ASSUME BaseInv, WaitInv, Counting, [Next]_vars
    PROVE  WaitInv'
  <1>1. ASSUME autoFlush', NEW p \in Request, pc'[p] = "done" PROVE todo'[p] = {}
    <2>1. autoFlush
      BY <1>1, StepMoves, Zenon DEF CallMoves, TaskMoves, RestMoves, given
    <2>2. CASE pc[p] = "done"
      BY <2>1, <2>2, TodoShrinks DEF WaitInv, Late
    <2>3. CASE pc[p] # "done"
      <3>1. CallAct(p)
        <4>1. ASSUME NEW q \in Request \ {p}, CallAct(q) PROVE pc'[p] = pc[p]
          BY <4>1, CallActs, Zenon DEF BaseInv, CallMoves, SameCall
        <4>2. ASSUME NEW w \in Request, NEW i \in Idx, Command(w, i) PROVE pc' = pc
          BY <4>2, CommandActs, Zenon DEF TaskMoves, frame
        <4>3. ASSUME (\E w \in Request : Between(w)) \/ Environment PROVE pc' = pc
          BY <4>3, RestActs, Zenon DEF BaseInv, RestMoves, frame
        <4> QED  BY <1>1, <2>3, <4>1, <4>2, <4>3, Steps, Zenon
      <3>2. Flush(p)
        BY <1>1, <2>1, <2>3, <3>1, Zenon
        DEF CallAct, GenerateCacheKeys, DoLimit, GetError, LookupLocalCache, Get, Reply,
            Submit, BaseInv, MemType
      <3>3. Busy = {}
        BY <3>2, Zenon DEF Flush, Flushed, Counting
      <3>4. todo[p] = {} /\ todo' = todo
        BY <3>2, <3>3, Zenon DEF Flush, async, tasks, BaseInv, PoolInv
      <3> QED  BY <3>4, Zenon
    <2> QED  BY <2>2, <2>3, Zenon
  <1> QED  BY <1>1, Zenon DEF WaitInv
================================================================================
