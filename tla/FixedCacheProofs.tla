--------------------------- MODULE FixedCacheProofs ----------------------------
(***************************************************************************)
(* The theorems about FixedCache that are not about sums of hits, and that *)
(* it implements Quota, for any number of calls, descriptors and hits.     *)
(* They rest on the lemmas of FixedCacheTypeProofs.                        *)
(*                                                                         *)
(* ClockInv (no call has read a future clock) and TTLInv (no expiry before *)
(* the end of the window) make the properties of time inductive: counters  *)
(* outlive their window, only failures leak keys, the reset a client is    *)
(* told lies in a later window.  With AnswerInv and PhaseInv, INCRBY is    *)
(* the step that takes the quota.                                          *)
(***************************************************************************)
EXTENDS FixedCacheTypeProofs, FixedCacheQuota

(***************************************************************************)
(* Expiry and time.                                                        *)
(***************************************************************************)
WindowEnd(k) == k[2] + UnitToDivider(Unit[k[1]])

ClockInv == \A p \in Request : readAt[p] <= now

TTLInv == \A k \in Key : ttl[k] > 0 => ttl[k] >= WindowEnd(k)

\* The parts of a key and the end of its window are natural numbers.
LEMMA KeyType ==
    ASSUME NEW k \in Key
    PROVE  /\ k[1] \in Descriptor /\ k[2] \in Nat
           /\ UnitToDivider(Unit[k[1]]) \in Nat \ {0} /\ WindowEnd(k) \in Nat
  <1>1. k[1] \in Descriptor /\ k[2] \in Nat  BY BoundsAssumption DEF Key
  <1>2. UnitToDivider(Unit[k[1]]) \in Nat \ {0}
    BY <1>1, RuleAssumption, DividerOf, Zenon
  <1> QED  BY <1>1, <1>2 DEF WindowEnd

\* No step turns the clock back.
LEMMA ClockGrows ==
    ASSUME TypeOK, [Next]_vars
    PROVE  now' \in Int /\ now <= now'
  <1>1. now \in Int  BY DEF TypeOK
  <1>2. now' = now \/ now' = now + 1
    <2>1. ASSUME NEW p \in Request,
                 GenerateCacheKeys(p) \/ LookupLocalCache(p) \/ Reply(p) \/ Fail(p)
          PROVE  now' = now
      BY <2>1, Zenon DEF GenerateCacheKeys, LookupLocalCache, Reply, Fail
    <2>2. ASSUME NEW p \in Request, NEW i \in Idx,
                 Get(p, i) \/ IncrBy(p, i) \/ Expire(p, i)
          PROVE  now' = now
      BY <2>2, Zenon DEF Get, IncrBy, Expire
    <2>3. ASSUME NEW k \in Key, RedisExpire(k) \/ Evict(k) PROVE now' = now
      BY <2>3, Zenon DEF RedisExpire, Evict
    <2>4. UNCHANGED vars => now' = now  BY DEF vars
    <2>5. Tick => now' = now + 1  BY DEF Tick
    <2> QED  BY <2>1, <2>2, <2>3, <2>4, <2>5, NextCases, Zenon
  <1> QED  BY <1>1, <1>2

\* No call has read a time that is still to come, in every step.
LEMMA ClockInvNext ==
    ASSUME TypeOK, ClockInv, [Next]_vars
    PROVE  ClockInv'
  <1>1. now \in Int /\ \A p \in Request : readAt[p] \in Int  BY DEF TypeOK
  <1>2. ASSUME NEW p \in Request, GenerateCacheKeys(p) PROVE ClockInv'
    BY <1>1, <1>2 DEF GenerateCacheKeys, ClockInv, TypeOK
  <1>3. CASE readAt' = readAt /\ now <= now' /\ now' \in Int
    BY <1>1, <1>3 DEF ClockInv
  <1>4. now' \in Int /\ now <= now'  BY ClockGrows, SMTT(30)
  <1>5. readAt' = readAt \/ \E p \in Request : GenerateCacheKeys(p)
    BY NextCases, ZenonT(30)
       DEF LookupLocalCache, Get, IncrBy, Expire, Reply, Fail, Tick,
                     RedisExpire, Evict, vars, frame, given
  <1> QED  BY <1>2, <1>3, <1>4, <1>5

\* The seconds an EXPIRE asks for take the key beyond the end of its window.
LEMMA ExpireReachesWindowEnd ==
    ASSUME TypeOK, PhaseInv, ClockInv, NEW p \in Request, NEW i \in Idx, Expire(p, i)
    PROVE  \A k \in Key :
             \/ ttl'[k] = ttl[k]
             \/ ttl'[k] > 0 /\ ttl'[k] >= WindowEnd(k)
  <1> DEFINE d == args[p].desc[i]
             key == CacheKey(p, i)
  <1>1. HasKey(p, i) /\ key \in Key  BY ExpireShape
  <1>2. /\ key[1] = d /\ key[2] <= readAt[p] /\ readAt[p] <= now
        /\ UnitToDivider(Unit[d]) \in Nat \ {0}
    BY <1>1, KeyFacts, DividerOf, Zenon DEF ClockInv
  <1>3. now \in Nat /\ readAt[p] \in Int /\ key[2] \in Nat
    BY <1>1, KeyType, BoundsAssumption DEF TypeOK
  <1> PICK s \in ExpirationSeconds(d) :
             ttl' = [ttl EXCEPT ![key] = TTLAfterExpire(p, i, s)]
    BY Zenon DEF Expire
  <1>4. s \in Int /\ s >= UnitToDivider(Unit[d])
    BY <1>2, BoundsAssumption DEF ExpirationSeconds, UMax
  <1> HIDE DEF d, key
  <1>5. now + s > 0 /\ now + s >= WindowEnd(key)
    BY <1>2, <1>3, <1>4 DEF WindowEnd
  <1>6. TTLAfterExpire(p, i, s) = ttl[key] \/ TTLAfterExpire(p, i, s) = now + s
    BY Zenon DEF TTLAfterExpire, key
  <1> QED  BY <1>5, <1>6, Zenon DEF TypeOK

\* A time to live that is set reaches the end of the window, in every step.
LEMMA TTLInvNext ==
    ASSUME TypeOK, PhaseInv, ClockInv, TTLInv, [Next]_vars
    PROVE  TTLInv'
  <1>1. ASSUME NEW p \in Request, NEW i \in Idx, Expire(p, i) PROVE TTLInv'
    BY <1>1, ExpireReachesWindowEnd, Zenon DEF TTLInv, WindowEnd
  <1>2. CASE \A k \in Key : ttl'[k] > 0 => ttl'[k] = ttl[k]
    BY <1>2, Zenon DEF TTLInv, WindowEnd
  <1>3. ASSUME NEW p \in Request, NEW i \in Idx, IncrBy(p, i) PROVE TTLInv'
    <2>1. \A k \in Key : ttl'[k] = ttl[k] \/ ttl'[k] = NoTTL
      BY <1>3, Zenon DEF IncrBy, TypeOK
    <2> QED  BY <1>2, <2>1 DEF NoTTL
  <1>4. ASSUME NEW l \in Key, RedisExpire(l) PROVE TTLInv'
    BY <1>2, <1>4 DEF RedisExpire, TypeOK, Absent
  <1>5. CASE ttl' = ttl  BY <1>2, <1>5, SMTT(30)
  <1>6. \/ ttl' = ttl \/ \E l \in Key : RedisExpire(l)
        \/ \E p \in Request, i \in Idx : IncrBy(p, i) \/ Expire(p, i)
    BY NextCases, ZenonT(30)
       DEF GenerateCacheKeys, LookupLocalCache, Get, Reply, Fail, Tick,
                     Evict, vars, redis
  <1> QED  BY <1>1, <1>3, <1>4, <1>5, <1>6, Zenon

\* Redis never drops a counter while its window is open, whatever the units,
\* the jitter, the hits and the delays of the calls.
LEMMA WindowsHold == Spec /\ []Typed => []CounterOutlivesWindow
  <1> DEFINE I == ClockInv /\ TTLInv /\ CounterOutlivesWindow
  <1>1. Init => I
    BY BoundsAssumption DEF Init, ClockInv, TTLInv, CounterOutlivesWindow, Absent
  <1>2. TypeOK /\ PhaseInv /\ I /\ [Next]_vars => I'
    <2> SUFFICES ASSUME TypeOK, PhaseInv, I, [Next]_vars PROVE I'  OBVIOUS
    <2>1. ClockInv' /\ TTLInv'  BY ClockInvNext, TTLInvNext
    <2>a. now \in Int  BY DEF TypeOK
    <2>2. now \in Int /\ now' \in Int /\ now <= now'  BY <2>a, ClockGrows
    <2>3. ASSUME NEW k \in expired' PROVE now' >= WindowEnd(k)
      <3>1. CASE k \in expired
        <4>1. k \in Key /\ now >= WindowEnd(k)
          BY <3>1, ZenonT(30) DEF TypeOK, CounterOutlivesWindow, WindowEnd
        <4> QED  BY <2>2, <4>1, KeyType
      <3>2. CASE RedisExpire(k) /\ k \in Key
        <4>1. ttl[k] >= WindowEnd(k) /\ ttl[k] <= now /\ ttl[k] \in Int
          <5>1. ttl[k] > 0 /\ ttl[k] <= now /\ ttl[k] \in Int
            BY <3>2, Zenon DEF RedisExpire, TypeOK
          <5> QED  BY <3>2, <5>1, Zenon DEF TTLInv
        <4> QED  BY <2>2, <3>2, <4>1, KeyType
      <3>3. k \in expired \/ (RedisExpire(k) /\ k \in Key)
        BY <2>3, NextCases, ZenonT(30)
           DEF GenerateCacheKeys, LookupLocalCache, Get, IncrBy,
             Expire, Reply, Fail, Tick, RedisExpire, Evict, vars, redis
      <3> QED  BY <3>1, <3>2, <3>3
    <2>4. CounterOutlivesWindow'
      BY <2>3, Zenon DEF CounterOutlivesWindow, WindowEnd
    <2> QED  BY <2>1, <2>4
  <1>3. I => CounterOutlivesWindow  OBVIOUS
  <1> HIDE DEF I
  <1> QED  BY <1>1, <1>2, <1>3, PTL DEF Spec, Typed

\* A key that is Counted is still to be sent its EXPIRE, or was sent it.
WaitsForExpire(p, i, k) ==
    HasKey(p, i) /\ CacheKey(p, i) = k /\ cmd[p][i] = "expire"

\* A key waiting for its EXPIRE waits until that command is executed.
LEMMA WaitingStays ==
    ASSUME TypeOK, PhaseInv, [Next]_vars,
           NEW p \in Request, NEW i \in Idx, NEW k \in Key,
           WaitsForExpire(p, i, k), ~Expire(p, i)
    PROVE  WaitsForExpire(p, i, k)'
  <1>1. pc[p] \in {"incr", "failed"}
    BY ZenonT(30) DEF WaitsForExpire, PhaseInv, PhaseOK, TypeOK, PCs
  <1>2. SameCall(p) /\ cmd'[p][i] = "expire"
    <2>1. ASSUME NEW q \in Request, NEW j \in Idx,
                 Get(q, j) \/ IncrBy(q, j) \/ Expire(q, j)
          PROVE  SameCall(p) /\ cmd'[p][i] = "expire"
      <3>1. cmd[p][i] = "expire"  BY Zenon DEF WaitsForExpire
      <3>2. CASE Get(q, j)
        BY <1>1, <3>1, <3>2, Zenon DEF Get, SameCall, given, TypeOK
      <3>3. CASE IncrBy(q, j)
        BY <3>1, <3>3, Zenon DEF IncrBy, AfterIncrBy, SameCall, given, TypeOK
      <3>4. CASE Expire(q, j)
        <4>1. q # p \/ j # i  BY <3>4, SMTT(30)
        <4> QED  BY <3>1, <3>4, <4>1, Zenon DEF Expire, SameCall, given, TypeOK
      <3> QED  BY <2>1, <3>2, <3>3, <3>4, Zenon
    <2>2. ASSUME NEW q \in Request,
                 GenerateCacheKeys(q) \/ LookupLocalCache(q) \/ Reply(q) \/ Fail(q)
          PROVE  SameCall(p) /\ cmd'[p][i] = "expire"
      BY <1>1, <2>2, ZenonT(30)
         DEF GenerateCacheKeys, LookupLocalCache, Reply, Fail,
                        WaitsForExpire, SameCall, given, TypeOK
    <2>3. UNCHANGED frame => SameCall(p) /\ cmd'[p][i] = "expire"
      BY Zenon DEF frame, given, SameCall, WaitsForExpire
    <2>4. Tick \/ (\E l \in Key : RedisExpire(l) \/ Evict(l)) \/ UNCHANGED vars
            => UNCHANGED frame
      BY Zenon DEF Tick, RedisExpire, Evict, vars
    <2> QED  BY <2>1, <2>2, <2>3, <2>4, NextCases, Zenon
  <1> QED  BY <1>2, SameCallFrame, Zenon DEF WaitsForExpire

\* A key without a time to live belongs to a call that has its EXPIRE still to
\* send, or whose connection failed before it: nothing else leaks a key.
LEMMA LeaksHold == Spec /\ []Typed => []OnlyFailuresLeakKeys
  <1> DEFINE I == \A k \in Key : ttl[k] = NoTTL =>
                    \E p \in Request : \E i \in Idx : WaitsForExpire(p, i, k)
  <1>1. Init => I  BY DEF Init, Absent, NoTTL
  <1>2. TypeOK /\ PhaseInv /\ ClockInv /\ I /\ [Next]_vars => I'
    <2> SUFFICES ASSUME TypeOK, PhaseInv, ClockInv, I, [Next]_vars,
                        NEW k \in Key, ttl'[k] = NoTTL
                 PROVE  \E p \in Request : \E i \in Idx : WaitsForExpire(p, i, k)'
      BY Zenon
    <2>1. CASE ttl[k] = NoTTL
      <3>1. PICK p \in Request, i \in Idx : WaitsForExpire(p, i, k)  BY <2>1
      <3>2. ~Expire(p, i)
        <4> SUFFICES ASSUME Expire(p, i) PROVE FALSE  OBVIOUS
        <4>1. k = CacheKey(p, i)  BY <3>1, Zenon DEF WaitsForExpire
        <4>2. HasKey(p, i) /\ args[p].desc[i] \in Descriptor
              /\ Unit[args[p].desc[i]] \in Units
          BY <3>1, KeyFacts, Zenon DEF WaitsForExpire
        <4>3. UnitToDivider(Unit[args[p].desc[i]]) \in Nat \ {0}  BY <4>2, DividerOf, Zenon
        <4>4. PICK s \in ExpirationSeconds(args[p].desc[i]) :
                     ttl' = [ttl EXCEPT ![k] = TTLAfterExpire(p, i, s)]
          BY <4>1, ZenonT(30) DEF Expire
        <4>5. ttl'[k] = now + s
          BY <2>1, <4>1, <4>4, SMTT(30) DEF TypeOK, TTLAfterExpire, Absent, NoTTL
        <4>6. s \in Nat  BY <4>3, BoundsAssumption DEF ExpirationSeconds, UMax
        <4> QED  BY <4>5, <4>6, BoundsAssumption, SMTT(30) DEF TypeOK, NoTTL
      <3> QED  BY <3>1, <3>2, WaitingStays, Zenon
    <2>2. CASE ttl[k] # NoTTL
      <3>1. PICK p \in Request, i \in Idx : IncrBy(p, i) /\ CacheKey(p, i) = k
        <4>1. ASSUME NEW p \in Request, NEW i \in Idx, IncrBy(p, i)
              PROVE  CacheKey(p, i) = k
          BY <2>2, <4>1, Zenon DEF IncrBy, TypeOK
        <4>2. ASSUME NEW p \in Request, NEW i \in Idx, Expire(p, i) PROVE FALSE
          BY <2>2, <4>2, ExpireReachesWindowEnd DEF NoTTL
        <4>3. ASSUME NEW l \in Key, RedisExpire(l) PROVE FALSE
          BY <2>2, <4>3, SMTT(30) DEF RedisExpire, TypeOK, Absent, NoTTL
        <4>4. \/ ttl' = ttl \/ \E l \in Key : RedisExpire(l)
              \/ \E p \in Request, i \in Idx : IncrBy(p, i) \/ Expire(p, i)
          BY NextCases, ZenonT(30)
             DEF GenerateCacheKeys, LookupLocalCache, Get, Reply, Fail,
                           Tick, Evict, vars, redis
        <4> QED  BY <2>2, <4>1, <4>2, <4>3, <4>4, Zenon
      <3>2. HasKey(p, i)  BY <3>1, IncrByShape, Zenon
      <3>3. SameCall(p) /\ cmd'[p][i] = "expire"
        BY <3>1, Zenon DEF IncrBy, AfterIncrBy, given, SameCall, TypeOK
      <3> QED  BY <3>1, <3>2, <3>3, SameCallFrame, Zenon DEF WaitsForExpire
    <2> QED  BY <2>1, <2>2, Zenon
  <1>3. Init => ClockInv  BY BoundsAssumption DEF Init, ClockInv
  <1>4. TypeOK /\ ClockInv /\ [Next]_vars => ClockInv'  BY ClockInvNext
  <1>5. I => OnlyFailuresLeakKeys  BY Zenon DEF OnlyFailuresLeakKeys, WaitsForExpire
  <1> HIDE DEF I
  <1> QED  BY <1>1, <1>2, <1>3, <1>4, <1>5, PTL DEF Spec, Typed

\* The descriptor i of call p was answered with a reset at the start of a
\* window later than the one of its key.
ResetOK(p, i) ==
    HasKey(p, i) /\ status[p][i].code # "none" =>
      LET at == status[p][i].resetAt
      IN  /\ at % UnitToDivider(Unit[args[p].desc[i]]) = 0
          /\ at > CacheKey(p, i)[2]

\* The answer of a descriptor points to a later window.
LEMMA ReplyResetsLater ==
    ASSUME TypeOK, PhaseInv, ClockInv, NEW p \in Request, NEW i \in Idx,
           Reply(p), i = idx[p]
    PROVE  ResetOK(p, i)'
  <1> DEFINE d == args[p].desc[i]
  <1>2. SameCall(p)  BY SMTT(30) DEF Reply, SameCall, given
  <1>3. HasKey(p, i)' = HasKey(p, i) /\ CacheKey(p, i)' = CacheKey(p, i)
        /\ args'[p] = args[p]
    BY <1>2, SameCallFrame, ZenonT(30) DEF SameCall
  <1> SUFFICES ASSUME HasKey(p, i)
               PROVE  LET at == status'[p][i].resetAt
                      IN at % UnitToDivider(Unit[d]) = 0 /\ at > CacheKey(p, i)[2]
    BY <1>3, ZenonT(30) DEF ResetOK
  <1>4. status'[p][i].resetAt = now + CalculateReset(Unit[d], now)
    BY ZenonT(30) DEF Reply, Status, TypeOK
  <1>5. /\ Unit[d] \in Units /\ CacheKey(p, i) \in Key
        /\ CacheKey(p, i)[2] <= readAt[p] /\ readAt[p] <= now
    BY KeyFacts, ZenonT(30) DEF ClockInv
  <1>6. now \in Nat /\ readAt[p] \in Int /\ CacheKey(p, i)[2] \in Nat
    <2>1. now \in 0..MaxTime /\ readAt[p] \in 0..MaxTime  BY Zenon DEF TypeOK
    <2>2. CacheKey(p, i)[2] \in Nat  BY <1>5, KeyType, Zenon
    <2> QED  BY <2>1, <2>2, BoundsAssumption
  <1>7. /\ CalculateReset(Unit[d], now) \in Nat \ {0}
        /\ (now + CalculateReset(Unit[d], now)) % UnitToDivider(Unit[d]) = 0
    BY <1>5, <1>6, ResetOf, ZenonT(30)
  <1> HIDE DEF d
  <1> QED  BY <1>4, <1>5, <1>6, <1>7

\* Every answer sends its client to the start of a later window, whenever the
\* key was built and whenever the answer is.
LEMMA ResetsHold == Spec /\ []Typed => []ResetStartsLaterWindow
  <1> DEFINE I == \A p \in Request : \A i \in Idx : ResetOK(p, i)
  <1>1. Init => I  BY DEF Init, ResetOK, NoStatus
  <1>2. TypeOK /\ PhaseInv /\ ClockInv /\ I /\ [Next]_vars => I'
    <2> SUFFICES ASSUME TypeOK, PhaseInv, ClockInv, I, [Next]_vars,
                        NEW p \in Request, NEW i \in Idx
                 PROVE  ResetOK(p, i)'
      OBVIOUS
    <2>0. ResetOK(p, i)  BY Zenon
    <2>1. CASE args'[p] = args[p] /\ readAt'[p] = readAt[p]
               /\ status'[p][i] = status[p][i]
      BY <2>0, <2>1, Zenon DEF ResetOK, HasKey, Used, CacheKey
    <2>2. CASE Reply(p) /\ idx[p] = i  BY <2>2, ReplyResetsLater, Zenon
    <2>3. CASE status'[p][i] = NoStatus  BY <2>3, SMTT(30) DEF ResetOK, NoStatus
    <2>4. \/ args'[p] = args[p] /\ readAt'[p] = readAt[p]
             /\ status'[p][i] = status[p][i]
          \/ Reply(p) /\ idx[p] = i
          \/ status'[p][i] = NoStatus
      <3> DEFINE Goal == \/ args'[p] = args[p] /\ readAt'[p] = readAt[p]
                            /\ status'[p][i] = status[p][i]
                         \/ Reply(p) /\ idx[p] = i
                         \/ status'[p][i] = NoStatus
      <3>1. ASSUME NEW q \in Request, GenerateCacheKeys(q) PROVE Goal
        <4>1. /\ pc[q] = "idle" /\ status' = status
              /\ q # p => args'[p] = args[p] /\ readAt'[p] = readAt[p]
          BY <3>1, ZenonT(30) DEF GenerateCacheKeys, TypeOK
        <4>2. q = p => status[p][i] = NoStatus
          BY <4>1 DEF PhaseInv, PhaseOK
        <4> QED  BY <4>1, <4>2, Zenon
      <3>2. ASSUME NEW q \in Request, Reply(q) PROVE Goal
        BY <3>2, Zenon DEF Reply, given, TypeOK
      <3>3. CASE args' = args /\ readAt' = readAt /\ status' = status  BY <3>3
      <3>4. (Tick \/ (\E k \in Key : RedisExpire(k) \/ Evict(k)) \/ UNCHANGED vars)
              => args' = args /\ readAt' = readAt /\ status' = status
        BY Zenon DEF Tick, RedisExpire, Evict, vars, frame, given
      <3>5. ASSUME NEW q \in Request, LookupLocalCache(q) \/ Fail(q)
            PROVE  args' = args /\ readAt' = readAt /\ status' = status
        BY <3>5, Zenon DEF LookupLocalCache, Fail, given
      <3>6. ASSUME NEW q \in Request, NEW j \in Idx,
                   Get(q, j) \/ IncrBy(q, j) \/ Expire(q, j)
            PROVE  args' = args /\ readAt' = readAt /\ status' = status
        BY <3>6, Zenon DEF Get, IncrBy, Expire, given
      <3> QED  BY <3>1, <3>2, <3>3, <3>4, <3>5, <3>6, NextCases, ZenonT(30)
    <2> QED  BY <2>1, <2>2, <2>3, <2>4, Zenon
  <1>3. Init => ClockInv  BY BoundsAssumption DEF Init, ClockInv
  <1>4. TypeOK /\ ClockInv /\ [Next]_vars => ClockInv'  BY ClockInvNext
  <1>5. I => ResetStartsLaterWindow  BY Zenon DEF ResetStartsLaterWindow, ResetOK
  <1> HIDE DEF I
  <1> QED  BY <1>1, <1>2, <1>3, <1>4, <1>5, PTL DEF Spec, Typed

(***************************************************************************)
(* FixedCache implements Quota.                                            *)
(***************************************************************************)
SameSlot(p, i) ==
    /\ AskedOf(p, i)' = AskedOf(p, i)
    /\ GrantOf(p, i)' = GrantOf(p, i)
    /\ VerdictOf(p, i)' = VerdictOf(p, i)

\* A call that the step does not touch keeps its slots.
LEMMA UntouchedSlots ==
    ASSUME NEW p \in Request, NEW i \in Idx, Untouched(p)
    PROVE  SameSlot(p, i)
  <1>1. HasKey(p, i)' = HasKey(p, i) /\ CacheKey(p, i)' = CacheKey(p, i)
    BY Zenon DEF Untouched, HasKey, Used, CacheKey
  <1>2. Counted(p, i)' = Counted(p, i)  BY Zenon DEF Untouched, Counted
  <1> QED
    BY <1>1, <1>2, Zenon DEF Untouched, SameSlot, AskedOf, GrantOf, VerdictOf

\* When no slot changes the mapped functions do not.
LEMMA SameSlots ==
    ASSUME \A p \in Request, i \in Idx : SameSlot(p, i)
    PROVE  UNCHANGED <<askedNow, grantNow, verdictNow>>
  BY Zenon DEF SameSlot, askedNow, grantNow, verdictNow, Slot

\* The values of the mapped functions at a slot.
LEMMA SlotValues ==
    ASSUME NEW p \in Request, NEW i \in Idx
    PROVE  /\ <<p, i>> \in Slot
           /\ askedNow[<<p, i>>] = AskedOf(p, i)
           /\ grantNow[<<p, i>>] = GrantOf(p, i)
           /\ verdictNow[<<p, i>>] = VerdictOf(p, i)
  BY Zenon DEF askedNow, grantNow, verdictNow, Slot

\* A step that changes one slot changes the mapped functions there.
LEMMA OneSlot ==
    ASSUME NEW p \in Request, NEW i \in Idx, AskedOf(p, i)' = AskedOf(p, i),
           \A q \in Request, j \in Idx : q # p \/ j # i => SameSlot(q, j)
    PROVE  /\ askedNow' = askedNow
           /\ grantNow' = [grantNow EXCEPT ![<<p, i>>] = GrantOf(p, i)']
           /\ verdictNow' = [verdictNow EXCEPT ![<<p, i>>] = VerdictOf(p, i)']
           /\ GrantOf(p, i)' = GrantOf(p, i) => grantNow' = grantNow
           /\ VerdictOf(p, i)' = VerdictOf(p, i) => verdictNow' = verdictNow
  <1>1. \A q \in Request, j \in Idx : <<q, j>> = <<p, i>> \/ SameSlot(q, j)
    OBVIOUS
  <1>2. AskedOf(p, i)' = AskedOf(p, i)  OBVIOUS
  <1>3. askedNow' = askedNow
    <2>1. \A q \in Request, j \in Idx : AskedOf(q, j)' = AskedOf(q, j)
      BY <1>1, <1>2, Zenon DEF SameSlot
    <2> QED  BY <2>1 DEF askedNow, Slot
  <1>4. /\ grantNow' = [grantNow EXCEPT ![<<p, i>>] = GrantOf(p, i)']
        /\ GrantOf(p, i)' = GrantOf(p, i) => grantNow' = grantNow
    <2>1. \A q \in Request, j \in Idx : <<q, j>> = <<p, i>> \/ GrantOf(q, j)' = GrantOf(q, j)
      BY <1>1, Zenon DEF SameSlot
    <2>2. ASSUME NEW s \in Slot
          PROVE  grantNow'[s] = IF s = <<p, i>> THEN GrantOf(p, i)' ELSE grantNow[s]
      <3>1. PICK q \in Request, j \in Idx : s = <<q, j>>  BY DEF Slot
      <3> QED  BY <2>1, <2>2, <3>1, Zenon DEF grantNow
    <2>3. /\ grantNow' = [s \in Slot |-> grantNow'[s]]
          /\ grantNow = [s \in Slot |-> grantNow[s]]
      BY DEF grantNow
    <2>4. grantNow[<<p, i>>] = GrantOf(p, i) /\ <<p, i>> \in Slot  BY SlotValues, Zenon
    <2> HIDE DEF grantNow, Slot
    <2> QED  BY <2>2, <2>3, <2>4, Zenon
  <1>5. /\ verdictNow' = [verdictNow EXCEPT ![<<p, i>>] = VerdictOf(p, i)']
        /\ VerdictOf(p, i)' = VerdictOf(p, i) => verdictNow' = verdictNow
    <2>1. \A q \in Request, j \in Idx :
             <<q, j>> = <<p, i>> \/ VerdictOf(q, j)' = VerdictOf(q, j)
      BY <1>1, Zenon DEF SameSlot
    <2>2. ASSUME NEW s \in Slot
          PROVE  verdictNow'[s] = IF s = <<p, i>> THEN VerdictOf(p, i)' ELSE verdictNow[s]
      <3>1. PICK q \in Request, j \in Idx : s = <<q, j>>  BY DEF Slot
      <3> QED  BY <2>1, <2>2, <3>1, Zenon DEF verdictNow
    <2>3. /\ verdictNow' = [s \in Slot |-> verdictNow'[s]]
          /\ verdictNow = [s \in Slot |-> verdictNow[s]]
      BY DEF verdictNow
    <2>4. verdictNow[<<p, i>>] = VerdictOf(p, i) /\ <<p, i>> \in Slot  BY SlotValues, Zenon
    <2> HIDE DEF verdictNow, Slot
    <2> QED  BY <2>2, <2>3, <2>4, Zenon
  <1> QED  BY <1>3, <1>4, <1>5, Zenon

Questions == \A p \in Request, i \in Idx : AskedOf(p, i) \in SUBSET Q!Question

\* What a limited descriptor asks is a question of Quota.
LEMMA QuestionsOf == TypeOK => Questions
  <1> SUFFICES ASSUME TypeOK, NEW p \in Request, NEW i \in Idx
               PROVE  AskedOf(p, i) \in SUBSET Q!Question
    BY DEF Questions
  <1>1. CASE HasKey(p, i)
    <2>1. CacheKey(p, i) \in Key  BY <1>1, KeyFacts, Zenon
    <2>2. args[p].limit[i] \in Nat  BY CallFacts
    <2> QED  BY <1>1, <2>1, <2>2 DEF AskedOf, Q!Question
  <1>2. CASE ~HasKey(p, i)  BY <1>2, Zenon DEF AskedOf
  <1> QED  BY <1>1, <1>2

\* GenerateCacheKeys asks the questions of the call.
LEMMA GenerateCacheKeysAsks ==
    ASSUME TypeOK, TypeOK', PhaseInv, AnswerInv, NEW p \in Request, GenerateCacheKeys(p)
    PROVE  Q!Ask
  <1>1. TypeOK'  OBVIOUS
  <1>2. pc[p] = "idle" /\ UNCHANGED <<counter, expired, overLocal, cmd, result, status>>
    BY Zenon DEF GenerateCacheKeys, redis
  <1>3. ASSUME NEW q \in Request, NEW j \in Idx, q # p PROVE SameSlot(q, j)
    <2>1. Untouched(q)
      BY <1>2, <1>3, ZenonT(40) DEF GenerateCacheKeys, Untouched, TypeOK
    <2> QED  BY <2>1, UntouchedSlots
  <1>4. ASSUME NEW i \in Idx
        PROVE  /\ AskedOf(p, i) = {}
               /\ GrantOf(p, i)' = GrantOf(p, i)
               /\ VerdictOf(p, i)' = "none" /\ VerdictOf(p, i) = "none"
    <2>1. ~HasKey(p, i)  BY <1>2, Zenon DEF AnswerInv, AnswerOK
    <2>2. status'[p][i].code = "none" /\ overLocal'[p] = {} /\ cmd'[p][i] = cmd[p][i]
      BY <1>2, ZenonT(30) DEF AnswerInv, AnswerOK, PhaseInv, PhaseOK
    <2> QED  BY <1>2, <2>1, <2>2, Zenon DEF AskedOf, GrantOf, VerdictOf, Counted
  <1>5. ASSUME NEW q \in Request, NEW j \in Idx
        PROVE  /\ GrantOf(q, j)' = GrantOf(q, j) /\ VerdictOf(q, j)' = VerdictOf(q, j)
               /\ AskedOf(q, j) # {} => AskedOf(q, j)' = AskedOf(q, j)
    BY <1>3, <1>4, Zenon DEF SameSlot
  <1>6. grantNow' = grantNow /\ verdictNow' = verdictNow
    BY <1>5, Zenon DEF grantNow, verdictNow, Slot
  <1>7. \A s \in Slot : askedNow[s] # {} => askedNow'[s] = askedNow[s]
    BY <1>5, Zenon DEF askedNow, Slot
  <1>8. askedNow' \in [Slot -> SUBSET Q!Question]
    <2>1. Questions'  BY <1>1, QuestionsOf, PTL
    <2> QED  BY <2>1 DEF Questions, askedNow, Slot
  <1> QED  BY <1>2, <1>6, <1>7, <1>8, Zenon DEF Q!Ask

\* A refusal by the local cache is a refusal of Quota.
LEMMA LookupLocalCacheRefuses ==
    ASSUME TypeOK, PhaseInv, AnswerInv, LocalCacheSound', NEW p \in Request,
           LookupLocalCache(p)
    PROVE  [Q!QuotaNext]_(Q!quotaVars)
  <1>0. PICK i \in Idx : i = idx[p]  BY Zenon DEF TypeOK
  <1>1. TypeOK' /\ PhaseInv'  BY LookupLocalCacheShape
  <1>2. /\ pc[p] = "local"
        /\ UNCHANGED <<counter, expired, args, readAt, result, status>>
        /\ \A q \in Request : q # p => overLocal'[q] = overLocal[q] /\ cmd'[q] = cmd[q]
        /\ overLocal[p] \subseteq overLocal'[p] /\ overLocal'[p] \subseteq overLocal[p] \cup {i}
    BY <1>0, ZenonT(30) DEF LookupLocalCache, redis, given, TypeOK
  <1>3. \A q \in Request : q # p => Untouched(q)
    BY <1>2, Zenon DEF Untouched
  <1>4. \A j \in Idx : /\ HasKey(p, j)' = HasKey(p, j)
                       /\ CacheKey(p, j)' = CacheKey(p, j)
                       /\ AskedOf(p, j)' = AskedOf(p, j)
    BY <1>2, Zenon DEF HasKey, Used, CacheKey, AskedOf
  <1>5. \A j \in Idx : ~Counted(p, j) /\ ~Counted(p, j)'
    <2>1. \A j \in Idx : cmd[p][j] = "none"  BY <1>2, Zenon DEF PhaseInv, PhaseOK
    <2>2. \A j \in Idx : cmd'[p][j] \in {"none", "get", "incrby"}
      <3>1. CASE cmd' = cmd  BY <2>1, <3>1
      <3>2. CASE \E over : cmd' = [cmd EXCEPT ![p] =
                                     Pipeline(p, over, FirstCommand(p, over))]
        BY <3>2 DEF Pipeline, FirstCommand, TypeOK
      <3> QED  BY <3>1, <3>2, Zenon DEF LookupLocalCache
    <2> QED  BY <2>1, <2>2, Zenon DEF Counted
  <1>6. \A j \in Idx : /\ GrantOf(p, j)' = -1 /\ GrantOf(p, j) = -1
                       /\ status[p][j].code = "none"
    BY <1>2, <1>5, Zenon DEF GrantOf, AnswerInv, AnswerOK
  <1>7. \A j \in Idx : j # i => VerdictOf(p, j)' = VerdictOf(p, j)
    BY <1>2, <1>4, Zenon DEF VerdictOf
  <1>8. \A q \in Request, j \in Idx : q # p \/ j # i => SameSlot(q, j)
    BY <1>3, <1>4, <1>6, <1>7, UntouchedSlots, Zenon DEF SameSlot
  <1>9. /\ askedNow' = askedNow /\ grantNow' = grantNow
        /\ verdictNow' = [verdictNow EXCEPT ![<<p, i>>] = VerdictOf(p, i)']
        /\ VerdictOf(p, i)' = VerdictOf(p, i) => verdictNow' = verdictNow
    <2>1. AskedOf(p, i)' = AskedOf(p, i) /\ GrantOf(p, i)' = GrantOf(p, i)
      BY <1>4, <1>6, Zenon
    <2> QED  BY <1>8, <2>1, OneSlot, Zenon
  <1>10. CASE VerdictOf(p, i)' = VerdictOf(p, i)
    BY <1>2, <1>9, <1>10, Zenon DEF Q!quotaVars
  <1>11. CASE VerdictOf(p, i)' # VerdictOf(p, i)
    <2> DEFINE qu == [ key |-> CacheKey(p, i), limit |-> args[p].limit[i],
                       enforced |-> args[p].desc[i] \notin ShadowMode ]
    <2>1. /\ HasKey(p, i) /\ i \in overLocal'[p] /\ args[p].desc[i] \notin ShadowMode
          /\ VerdictOf(p, i)' = "OVER_LIMIT" /\ VerdictOf(p, i) = "none"
      <3>1. HasKey(p, i)' = HasKey(p, i) /\ args' = args /\ status' = status
        BY <1>2, <1>4, Zenon
      <3>2. i \in overLocal[p] => i \in overLocal'[p]  BY <1>2, Zenon
      <3>3. status[p][i].code = "none"  BY <1>2, <1>6, Zenon
      <3> QED  BY <1>11, <3>1, <3>2, <3>3, Zenon DEF VerdictOf
    <2>2. counter[CacheKey(p, i)] > args[p].limit[i] \/ CacheKey(p, i) \in expired
      BY <1>2, <1>4, <2>1, Zenon DEF LocalCacheSound
    <2>3. qu \in askedNow[<<p, i>>]
      BY <1>2, <2>1, SlotValues, Zenon DEF AskedOf
    <2>4. /\ <<p, i>> \in Slot /\ verdictNow[<<p, i>>] = "none" /\ grantNow[<<p, i>>] = -1
      BY <1>2, <1>6, <2>1, SlotValues, Zenon
    <2>5. /\ qu.key = CacheKey(p, i) /\ qu.limit = args[p].limit[i] /\ qu.enforced = TRUE
      BY <2>1, Zenon
    <2> HIDE DEF qu
    <2>6. Q!Refuse(<<p, i>>, qu)
      BY <1>2, <1>9, <2>1, <2>2, <2>4, <2>5, Zenon DEF Q!Refuse, Q!None
    <2> QED  BY <2>3, <2>4, <2>6, Zenon DEF Q!QuotaNext
  <1> QED  BY <1>10, <1>11

\* INCRBY is the atomic step that takes the hits of a slot.
LEMMA IncrByTakes ==
    ASSUME TypeOK, PhaseInv, AnswerInv, NoOverflow',
           NEW p \in Request, NEW i \in Idx, IncrBy(p, i)
    PROVE  Q!QuotaNext
  <1> DEFINE k == CacheKey(p, i)
             amount == IncrAmount(p, i)
             qu == [ key |-> k, limit |-> args[p].limit[i],
                     enforced |-> args[p].desc[i] \notin ShadowMode ]
  <1>1. TypeOK' /\ HasKey(p, i) /\ k \in Key  BY IncrByShape
  <1>2. /\ pc[p] = "incr" /\ cmd[p][i] = "incrby"
        /\ counter' = [counter EXCEPT ![k] = @ + amount]
        /\ result' = [result EXCEPT ![p][i] = IncrByReply(p, i)]
        /\ cmd' = [cmd EXCEPT ![p][i] = "expire"]
        /\ UNCHANGED <<expired, args, readAt, overLocal, status>>
    BY Zenon DEF IncrBy, AfterIncrBy, given
  <1>3. \A q \in Request : q # p => Untouched(q)
    BY <1>2, Zenon DEF Untouched, TypeOK
  <1>4. \A j \in Idx : /\ HasKey(p, j)' = HasKey(p, j)
                       /\ CacheKey(p, j)' = CacheKey(p, j)
    BY <1>2, Zenon DEF HasKey, Used, CacheKey
  <1>5. \A j \in Idx : /\ AskedOf(p, j)' = AskedOf(p, j)
                       /\ VerdictOf(p, j)' = VerdictOf(p, j)
    BY <1>2, <1>4, Zenon DEF AskedOf, VerdictOf
  <1>6. \A j \in Idx : j # i => GrantOf(p, j)' = GrantOf(p, j)
    <2>1. \A j \in Idx : j # i => cmd'[p][j] = cmd[p][j] /\ result'[p][j] = result[p][j]
      BY <1>2, Zenon DEF TypeOK
    <2> QED  BY <2>1, Zenon DEF GrantOf, Counted
  <1>7. \A q \in Request, j \in Idx : q # p \/ j # i => SameSlot(q, j)
    BY <1>3, <1>5, <1>6, UntouchedSlots, Zenon DEF SameSlot
  <1>8. counter[k] \in Nat /\ amount \in Nat /\ counter[k] + amount < Word
    <2>1. counter[k] \in Nat /\ amount \in Nat  BY <1>1, AmountType, Zenon DEF TypeOK
    <2>2. counter'[k] = counter[k] + amount  BY <1>1, <1>2, Zenon DEF TypeOK
    <2> QED  BY <1>1, <2>1, <2>2, Zenon DEF NoOverflow
  <1>9. GrantOf(p, i) = -1 /\ GrantOf(p, i)' = counter[k] + amount
    <2>1. ~Counted(p, i) /\ Counted(p, i)'
      BY <1>2, Zenon DEF Counted, TypeOK
    <2>2. result'[p][i] = Uint32(counter[k] + amount)
      BY <1>2, Zenon DEF IncrByReply, TypeOK
    <2>3. Uint32(counter[k] + amount) = counter[k] + amount
      BY <1>8, WordAssumption, Uint32Range
    <2> QED  BY <2>1, <2>2, <2>3, Zenon DEF GrantOf
  <1>10. VerdictOf(p, i) = "none"
    <2>1. i \notin overLocal[p]  BY <1>2, Zenon DEF PhaseInv, PhaseOK
    <2>2. status[p][i].code = "none"  BY <1>2, Zenon DEF AnswerInv, AnswerOK
    <2> QED  BY <2>1, <2>2, Zenon DEF VerdictOf
  <1>11. /\ askedNow' = askedNow /\ verdictNow' = verdictNow
         /\ grantNow' = [grantNow EXCEPT ![<<p, i>>] = counter[k] + amount]
    <2>1. AskedOf(p, i)' = AskedOf(p, i) /\ VerdictOf(p, i)' = VerdictOf(p, i)
      BY <1>5
    <2> HIDE DEF k, amount
    <2> QED  BY <1>7, <1>9, <2>1, OneSlot
  <1>12. qu \in askedNow[<<p, i>>]  BY <1>1, SlotValues, Zenon DEF AskedOf
  <1>13. <<p, i>> \in Slot /\ verdictNow[<<p, i>>] = "none" /\ grantNow[<<p, i>>] = -1
    BY <1>9, <1>10, SlotValues, Zenon
  <1>14. qu.key = k  BY Zenon
  <1>15. amount \in 0..(Word - 1)  BY <1>8, WordAssumption
  <1>16. counter' = [counter EXCEPT ![k] = counter[k] + amount] /\ expired' = expired
    BY <1>2, Zenon
  <1> HIDE DEF qu, k, amount
  <1>17. Q!Take(<<p, i>>, qu)
    BY <1>11, <1>13, <1>14, <1>15, <1>16, Zenon DEF Q!Take, Q!None
  <1> QED  BY <1>12, <1>13, <1>17, Zenon DEF Q!QuotaNext

\* The answer to a slot is the one its grant calls for.
LEMMA ReplyAnswers ==
    ASSUME TypeOK, PhaseInv, AnswerInv, NEW p \in Request, Reply(p)
    PROVE  [Q!QuotaNext]_(Q!quotaVars)
  <1>0. PICK i \in Idx : i = idx[p]  BY ReplyShape
  <1> DEFINE enforced == args[p].desc[i] \notin ShadowMode
             qu == [ key |-> CacheKey(p, i), limit |-> args[p].limit[i],
                     enforced |-> enforced ]
             v == Status(p, i).code
  <1>1. /\ pc[p] = "reply"
        /\ UNCHANGED <<counter, expired, args, readAt, overLocal, cmd, result>>
        /\ status' = [status EXCEPT ![p][i] = Status(p, i)]
    BY <1>0, Zenon DEF Reply, redis, given
  <1>2. \A q \in Request : q # p => Untouched(q)
    BY <1>1, Zenon DEF Untouched, TypeOK
  <1>3. /\ status'[p][i].code = v
        /\ \A j \in Idx : j # i => status'[p][j] = status[p][j]
    BY <1>1, Zenon DEF TypeOK
  <1>4. \A j \in Idx : /\ HasKey(p, j)' = HasKey(p, j)
                       /\ CacheKey(p, j)' = CacheKey(p, j)
                       /\ Counted(p, j)' = Counted(p, j)
    BY <1>1, Zenon DEF HasKey, Used, CacheKey, Counted
  <1>5. \A j \in Idx : AskedOf(p, j)' = AskedOf(p, j) /\ GrantOf(p, j)' = GrantOf(p, j)
    BY <1>1, <1>4, Zenon DEF AskedOf, GrantOf
  <1>6. \A j \in Idx : j # i => VerdictOf(p, j)' = VerdictOf(p, j)
    <2>1. SUFFICES ASSUME NEW j \in Idx, j # i
                   PROVE  VerdictOf(p, j)' = VerdictOf(p, j)
      OBVIOUS
    <2>2. HasKey(p, j)' = HasKey(p, j) /\ status'[p][j] = status[p][j]
      BY <1>3, <1>4, <2>1, Zenon
    <2>3. args' = args /\ overLocal' = overLocal
      BY <1>1
    <2> QED  BY <2>2, <2>3, Zenon DEF VerdictOf
  <1>7. \A q \in Request, j \in Idx : q # p \/ j # i => SameSlot(q, j)
    BY <1>2, <1>5, <1>6, UntouchedSlots, Zenon DEF SameSlot
  <1>8. /\ askedNow' = askedNow /\ grantNow' = grantNow
        /\ verdictNow' = [verdictNow EXCEPT ![<<p, i>>] = VerdictOf(p, i)']
        /\ VerdictOf(p, i)' = VerdictOf(p, i) => verdictNow' = verdictNow
    <2>1. AskedOf(p, i)' = AskedOf(p, i) /\ GrantOf(p, i)' = GrantOf(p, i)
      BY <1>5
    <2> QED  BY <1>7, <2>1, OneSlot, Zenon
  <1>9. CASE VerdictOf(p, i)' = VerdictOf(p, i)
    BY <1>1, <1>8, <1>9, Zenon DEF Q!quotaVars
  <1>10. CASE VerdictOf(p, i)' # VerdictOf(p, i)
    <2>1. status[p][i].code = "none"
      <3>1. i >= idx[p]  BY <1>0 DEF Idx
      <3> QED  BY <1>1, <3>1, Zenon DEF AnswerInv, AnswerOK
    <2>2. /\ HasKey(p, i) /\ ~(i \in overLocal[p] /\ enforced)
          /\ VerdictOf(p, i) = "none" /\ VerdictOf(p, i)' = v
      <3>1. HasKey(p, i)' = HasKey(p, i) /\ args' = args /\ overLocal' = overLocal
        BY <1>1, <1>4, Zenon
      <3> HIDE DEF v
      <3> QED  BY <1>3, <1>10, <2>1, <3>1, Zenon DEF VerdictOf
    <2>3. v = IF (i \in overLocal[p] \/ result[p][i] > args[p].limit[i]) /\ enforced
              THEN "OVER_LIMIT" ELSE "OK"
      BY <2>2, LimitInfoFacts, Zenon
         DEF Status, ResponseCode, IsOverLimit, IsOverLimitThresholdReached
    <2>4. enforced => i \notin overLocal[p] /\ GrantOf(p, i) = result[p][i]
      <3>1. ASSUME enforced PROVE i \notin overLocal[p] /\ Counted(p, i)
        BY <1>1, <2>2, <3>1, Zenon DEF PhaseInv, PhaseOK, Counted
      <3> QED  BY <3>1, Zenon DEF GrantOf
    <2>5. result[p][i] \in Nat /\ args[p].limit[i] \in Nat
      BY LimitInfoFacts, CallFacts
    <2>6. qu \in askedNow[<<p, i>>]  BY <2>2, SlotValues, Zenon DEF AskedOf
    <2>7. /\ <<p, i>> \in Slot /\ verdictNow[<<p, i>>] = "none"
          /\ grantNow[<<p, i>>] = GrantOf(p, i)
      BY <2>2, SlotValues, Zenon
    <2>8. qu.limit = args[p].limit[i] /\ qu.enforced = enforced
      BY Zenon
    <2>9. /\ verdictNow' = [verdictNow EXCEPT ![<<p, i>>] = v]
          /\ enforced \in BOOLEAN
      BY <1>8, <2>2, Zenon
    <2> HIDE DEF qu, v, enforced
    <2>10. Q!Allow(<<p, i>>, qu) \/ Q!Refuse(<<p, i>>, qu)
      <3>1. CASE ~enforced
        <4>1. v = "OK"  BY <2>3, <3>1
        <4> QED  BY <1>1, <1>8, <2>7, <2>8, <2>9, <3>1, <4>1, Zenon DEF Q!Allow
      <3>2. CASE enforced /\ result[p][i] > args[p].limit[i]
        <4>1. v = "OVER_LIMIT" /\ grantNow[<<p, i>>] = result[p][i]
          BY <2>3, <2>4, <2>7, <3>2, Zenon
        <4>2. grantNow[<<p, i>>] # Q!None /\ grantNow[<<p, i>>] > qu.limit
          BY <2>5, <2>8, <3>2, <4>1 DEF Q!None
        <4> QED  BY <1>1, <1>8, <2>7, <2>8, <2>9, <3>2, <4>1, <4>2, ZenonT(30)
                 DEF Q!Refuse
      <3>3. CASE enforced /\ ~(result[p][i] > args[p].limit[i])
        <4>1. v = "OK" /\ grantNow[<<p, i>>] = result[p][i]
          BY <2>3, <2>4, <2>7, <3>3, Zenon
        <4>2. grantNow[<<p, i>>] # Q!None /\ grantNow[<<p, i>>] <= qu.limit
          BY <2>5, <2>8, <3>3, <4>1 DEF Q!None
        <4> QED  BY <1>1, <1>8, <2>7, <2>8, <2>9, <3>3, <4>1, <4>2, Zenon
                 DEF Q!Allow
      <3> QED  BY <3>1, <3>2, <3>3, Zenon
    <2> QED  BY <2>6, <2>7, <2>10, Zenon DEF Q!QuotaNext
  <1> QED  BY <1>9, <1>10
\* A GET and an EXPIRE change no slot.
LEMMA CommandStutters ==
    ASSUME TypeOK, PhaseInv, NEW p \in Request, NEW i \in Idx,
           Get(p, i) \/ Expire(p, i)
    PROVE  UNCHANGED Q!quotaVars
  <1>1. UNCHANGED <<counter, expired, args, readAt, overLocal, result, status>>
    BY Zenon DEF Get, Expire, redis, given
  <1>2. /\ \A q \in Request : q # p => cmd'[q] = cmd[q]
        /\ \A j \in Idx : Counted(p, j)' = Counted(p, j)
    <2>1. CASE Get(p, i) /\ cmd' = [cmd EXCEPT ![p][i] = "got"]
      <3>1. cmd[p][i] = "get"  BY <2>1, Zenon DEF Get
      <3> QED  BY <2>1, <3>1 DEF Counted, TypeOK
    <2>2. CASE Get(p, i) /\ cmd' = [cmd EXCEPT ![p] = Pipeline(p, {}, "incrby")]
      <3>1. \A j \in Idx : cmd[p][j] \in {"none", "get", "got"}
        BY <2>2, Zenon DEF Get, PhaseInv, PhaseOK
      <3>2. \A j \in Idx : cmd'[p][j] \in {"none", "incrby"}
        BY <2>2, Zenon DEF TypeOK, Pipeline
      <3>3. \A q \in Request : q # p => cmd'[q] = cmd[q]
        BY <2>2, Zenon DEF TypeOK
      <3>4. \A j \in Idx : ~Counted(p, j) /\ ~Counted(p, j)'
        BY <3>1, <3>2, Zenon DEF Counted
      <3> QED  BY <3>3, <3>4 DEF Counted
    <2>3. CASE Expire(p, i)
      <3>1. cmd[p][i] = "expire" /\ cmd' = [cmd EXCEPT ![p][i] = "sent"]
        BY <2>3, Zenon DEF Expire
      <3>2. /\ cmd'[p][i] = "sent"
            /\ \A j \in Idx : j # i => cmd'[p][j] = cmd[p][j]
            /\ \A q \in Request : q # p => cmd'[q] = cmd[q]
        BY <3>1, Zenon DEF TypeOK
      <3> QED  BY <3>1, <3>2 DEF Counted
    <2> QED  BY <2>1, <2>2, <2>3, Zenon DEF Get
  <1>3. \A q \in Request : q # p => Untouched(q)
    BY <1>1, <1>2, Zenon DEF Untouched
  <1>4. ASSUME NEW j \in Idx PROVE SameSlot(p, j)
    <2>1. HasKey(p, j)' = HasKey(p, j) /\ CacheKey(p, j)' = CacheKey(p, j)
      BY <1>1, Zenon DEF HasKey, Used, CacheKey
    <2>2. Counted(p, j)' = Counted(p, j)  BY <1>2
    <2> QED  BY <1>1, <2>1, <2>2, Zenon DEF SameSlot, AskedOf, GrantOf, VerdictOf
  <1>5. \A q \in Request, j \in Idx : SameSlot(q, j)
    BY <1>3, <1>4, UntouchedSlots, Zenon
  <1> QED  BY <1>1, <1>5, SameSlots DEF Q!quotaVars

\* A step of the environment, or a failure, leaves every slot alone.
LEMMA SlotsStay ==
    ASSUME UNCHANGED <<args, readAt, overLocal, cmd, result, status>>
    PROVE  UNCHANGED <<askedNow, grantNow, verdictNow>>
  <1>1. \A q \in Request : Untouched(q)  BY DEF Untouched
  <1> QED  BY <1>1, UntouchedSlots, SameSlots, Zenon

\* The initial states of FixedCache are initial states of Quota.
LEMMA RefinementInit == Init => AnswerInv /\ Q!QuotaInit
  <1> SUFFICES ASSUME Init PROVE AnswerInv /\ Q!QuotaInit  OBVIOUS
  <1>1. ASSUME NEW p \in Request, NEW i \in Idx
        PROVE  ~HasKey(p, i) /\ ~Counted(p, i) /\ status[p][i].code = "none"
    <2>1. args[p].desc[i] = NoLimit  BY DEF Init
    <2>2. cmd[p][i] = "none" /\ status[p][i].code = "none"  BY Zenon DEF Init, NoStatus
    <2> QED  BY <2>1, <2>2, Zenon DEF HasKey, Counted
  <1>2. AnswerInv
    <2>1. \A p \in Request : pc[p] = "idle"  BY Zenon DEF Init
    <2> QED  BY <1>1, <2>1, Zenon DEF AnswerInv, AnswerOK
  <1>3. \A p \in Request, i \in Idx :
           AskedOf(p, i) = {} /\ GrantOf(p, i) = -1 /\ VerdictOf(p, i) = "none"
    BY <1>1, Zenon DEF AskedOf, GrantOf, VerdictOf
  <1>4. /\ askedNow = [s \in Slot |-> {}]
        /\ grantNow = [s \in Slot |-> -1]
        /\ verdictNow = [s \in Slot |-> "none"]
    BY <1>3 DEF askedNow, grantNow, verdictNow, Slot
  <1>5. counter = [k \in Key |-> 0] /\ expired = {}  BY Zenon DEF Init
  <1> QED  BY <1>2, <1>4, <1>5 DEF Q!QuotaInit, Q!None

\* Every step of FixedCache is a step of Quota or leaves it alone.
LEMMA RefinementNext ==
    ASSUME TypeOK, TypeOK', PhaseInv, AnswerInv, LocalCacheSound', NoOverflow', [Next]_vars
    PROVE  [Q!QuotaNext]_(Q!quotaVars)
  <1>1. ASSUME NEW p \in Request, GenerateCacheKeys(p)
        PROVE  [Q!QuotaNext]_(Q!quotaVars)
    BY <1>1, GenerateCacheKeysAsks, Zenon DEF Q!QuotaNext
  <1>2. ASSUME NEW p \in Request, LookupLocalCache(p) \/ Reply(p)
        PROVE  [Q!QuotaNext]_(Q!quotaVars)
    BY <1>2, LookupLocalCacheRefuses, ReplyAnswers, Zenon
  <1>3. ASSUME NEW p \in Request, NEW i \in Idx, Get(p, i) \/ IncrBy(p, i) \/ Expire(p, i)
        PROVE  [Q!QuotaNext]_(Q!quotaVars)
    BY <1>3, CommandStutters, IncrByTakes, Zenon
  <1>4. ASSUME NEW k \in Key, RedisExpire(k) PROVE [Q!QuotaNext]_(Q!quotaVars)
    <2>1. /\ counter' = [counter EXCEPT ![k] = 0] /\ expired' = expired \cup {k}
          /\ UNCHANGED <<askedNow, grantNow, verdictNow>>
      BY <1>4, SlotsStay, Zenon DEF RedisExpire, frame, given
    <2> QED  BY <2>1, Zenon DEF Q!QuotaNext, Q!Reset
  <1>5. CASE \/ Tick \/ UNCHANGED vars
             \/ \E p \in Request : Fail(p)
             \/ \E k \in Key : Evict(k)
    <2>1. UNCHANGED <<counter, expired, args, readAt, overLocal, cmd, result, status>>
      BY <1>5, Zenon DEF Tick, Fail, Evict, vars, frame, given, redis
    <2> QED  BY <2>1, SlotsStay DEF Q!quotaVars
  <1> QED  BY <1>1, <1>2, <1>3, <1>4, <1>5, NextCases, Zenon

\* DoLimit over Redis implements the abstract quota for any number of concurrent
\* calls and descriptors: each descriptor is answered by its own INCRBY, or by the
\* local cache when that answer is the one the counter calls for.  The limits do
\* not change and no counter leaves the range of a uint32.
LEMMA RefinementHolds ==
    ASSUME NEW CONSTANT rpu, LimitsStatic(rpu)
    PROVE  Spec /\ []Typed /\ []NoOverflow => ImplementsQuota
  <1>1. Init => AnswerInv /\ Q!QuotaInit  BY RefinementInit
  <1>2. TypeOK /\ PhaseInv /\ AnswerInv /\ [Next]_vars => AnswerInv'
    BY AnswerNext
  <1>3. TypeOK /\ TypeOK' /\ PhaseInv /\ AnswerInv /\ LocalCacheSound' /\ NoOverflow'
        /\ [Next]_vars
          => [Q!QuotaNext]_(Q!quotaVars)
    BY RefinementNext
  <1>4. Spec /\ []Typed => []LocalCacheSound  BY LocalCacheHolds, PTL
  <1> QED
    BY <1>1, <1>2, <1>3, <1>4, PTL
       DEF Spec, Typed, ImplementsQuota, Q!QuotaSpec

(***************************************************************************)
(* The theorems.  The library's facts about finite sets are only used from *)
(* here on.                                                                *)
(***************************************************************************)
F == INSTANCE FiniteSetTheorems

\* A request names a descriptor finitely often.
LEMMA CountingHolds == Counting
  <1> SUFFICES ASSUME NEW c \in Call, NEW d \in Descriptor
               PROVE  Cardinality({i \in 1..c.n : c.desc[i] = d}) \in Nat
    BY Zenon DEF Counting
  <1> DEFINE S == {i \in 1..c.n : c.desc[i] = d}
  <1>1. c.n \in Nat  BY BoundsAssumption DEF Call, Idx
  <1>2. F!IsFiniteSet(1..c.n)  BY <1>1, F!FS_Interval
  <1>3. S \in SUBSET (1..c.n)  BY Zenon
  <1> HIDE DEF S
  <1>4. F!Cardinality(S) \in Nat  BY <1>2, <1>3, F!FS_Subset, F!FS_CardinalityType, Zenon
  <1> QED  BY <1>4, Zenon DEF S, F!Cardinality, Cardinality

\* The variables keep their types and the pipelines their shape: no command is
\* queued for a descriptor without a key or refused by the local cache, and
\* none is left when the answers are computed (fixed_cache_impl.go:44-214).
THEOREM TypeCorrect == Spec => [](TypeOK /\ PhaseInv)
  <1>1. Init => TypeOK /\ PhaseInv
    <2>1. Init => PhaseInv  BY DEF Init, PhaseInv, PhaseOK
    <2> QED  BY <2>1, TypeInit
  <1>2. TypeOK /\ PhaseInv /\ [Next]_vars => TypeOK' /\ PhaseInv'
    BY TypeNext, CountingHolds, Zenon
  <1> QED  BY <1>1, <1>2, PTL DEF Spec

\* Two INCRBYs never account for the same unit of a key, until Redis expires the
\* key or its counter leaves the range of a uint32.
THEOREM QuotaIsNotShared == Spec => []NoSharedQuota
  BY TypeCorrect, SlotsHold, PTL DEF Typed

\* With static limits every refusal from the local cache is one Redis would
\* have given, for any eviction.
THEOREM LocalCacheIsSound ==
    ASSUME NEW CONSTANT rpu, LimitsStatic(rpu)
    PROVE  Spec => []LocalCacheSound
  BY TypeCorrect, LocalCacheHolds, PTL DEF Typed

\* Redis never drops a counter while its window is open, whatever the units,
\* the jitter, the hits and the delays of the calls.
THEOREM CountersOutliveTheirWindow == Spec => []CounterOutlivesWindow
  BY TypeCorrect, WindowsHold, PTL DEF Typed

\* A key without a time to live belongs to a call that has its EXPIRE still to
\* send, or whose connection failed before it: nothing else leaks a key.
THEOREM LeaksComeFromFailures == Spec => []OnlyFailuresLeakKeys
  BY TypeCorrect, LeaksHold, PTL DEF Typed

\* Every answer sends its client to the start of a later window, whenever the
\* key was built and whenever the answer is.
THEOREM ResetsAreLater == Spec => []ResetStartsLaterWindow
  BY TypeCorrect, ResetsHold, PTL DEF Typed

\* In stop mode a call of several descriptors, one of which was over its limit when
\* the call began, raises a counter only past its limit, although it reads the
\* counters and raises them in separate steps.  Every counter has room for the hits
\* of one more call (fixed_cache_impl.go:101-124).
THEOREM StoppedCallsTakeNoQuota == Spec /\ []HeadRoom => []StopModeTakesNoQuota
  <1>1. TypeOK /\ PhaseInv /\ HeadRoom /\ StopInv => StopModeTakesNoQuota
    BY StopTakesNoQuota, Zenon
  <1> QED  BY <1>1, TypeCorrect, StopHolds, PTL DEF Typed

\* DoLimit over Redis implements the abstract quota: each descriptor is answered by
\* its own INCRBY, or by the local cache when that answer is the one the counter
\* calls for.  The limits do not change and no counter leaves the range of a uint32.
THEOREM FixedCacheImplementsQuota ==
    ASSUME NEW CONSTANT rpu, LimitsStatic(rpu)
    PROVE  Spec /\ []NoOverflow => ImplementsQuota
  BY TypeCorrect, RefinementHolds, PTL DEF Typed
================================================================================
