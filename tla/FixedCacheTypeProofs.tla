------------------------- MODULE FixedCacheTypeProofs --------------------------
(***************************************************************************)
(* The invariants of FixedCache that its theorems share, for every set of  *)
(* requests, every rule, unit and limit, any number of descriptors per     *)
(* call and any uint32 width.  The theorems are stated in FixedCacheProofs *)
(* and FixedCacheSumsProofs.                                               *)
(*                                                                         *)
(* TypeOK is not inductive: a GET or an INCRBY of a descriptor without a   *)
(* key would write outside the functions' domains.  PhaseInv adds which    *)
(* commands may be outstanding in each phase of DoLimit.  SlotInv, where   *)
(* the result of a counted command lies below its counter, makes           *)
(* NoSharedQuota inductive.  LocalInv says what an entry of the local      *)
(* cache stands for, AnswerInv how far the replies of a call are, and      *)
(* StopInv what the counters read in stop mode say of the counters later.  *)
(***************************************************************************)
EXTENDS FixedCache, TLAPS

\* The divider of a unit is a positive number of seconds.
LEMMA DividerOf ==
    ASSUME NEW u \in Units
    PROVE  UnitToDivider(u) \in Nat \ {0}
  BY DividerAssumption DEF UnitToDivider

\* A moment lies in the window that starts at WindowStart (cache_key.go:75-77).
LEMMA WindowStartOf ==
    ASSUME NEW t \in Nat, NEW u \in Units
    PROVE  /\ WindowStart(t, u) \in 0..t
           /\ t < WindowStart(t, u) + UnitToDivider(u)
  <1> DEFINE d == UnitToDivider(u)
  <1>1. d \in Nat \ {0}  BY DividerOf
  <1> HIDE DEF d
  <1>2. (t \div d) * d \in 0..t /\ t < (t \div d) * d + d  BY <1>1
  <1> QED  BY <1>2, Zenon DEF d, WindowStart

\* CalculateReset is positive and leads to the start of a window.
LEMMA ResetOf ==
    ASSUME NEW t \in Nat, NEW u \in Units
    PROVE  /\ CalculateReset(u, t) \in Nat \ {0}
           /\ (t + CalculateReset(u, t)) % UnitToDivider(u) = 0
  <1> DEFINE d == UnitToDivider(u)
  <1>1. d \in Nat \ {0}  BY DividerOf
  <1> HIDE DEF d
  <1>2. d - (t % d) \in Nat \ {0}  BY <1>1
  <1>3. (t + (d - (t % d))) % d = 0  BY <1>1
  <1> QED  BY <1>2, <1>3, Zenon DEF d, CalculateReset

\* A uint32 conversion stays in range.
LEMMA Uint32Range ==
    ASSUME NEW n \in Int
    PROVE  /\ Uint32(n) \in 0..(Word - 1)
           /\ n \in 0..(Word - 1) => Uint32(n) = n
  BY WordAssumption DEF Uint32

\* The near-limit threshold is a natural number.
LEMMA NearLimitThresholdType ==
    ASSUME NEW l \in Nat
    PROVE  NearLimitThreshold(l) \in Nat
  <1>1. l * NearNum \in Nat  BY RatioAssumption
  <1> DEFINE m == l * NearNum
  <1> HIDE DEF m
  <1>2. m \in Nat => m \div NearDen \in Nat  BY RatioAssumption
  <1> QED  BY <1>1, <1>2 DEF m, NearLimitThreshold

\* A statistic never decreases: no unsigned subtraction underflows.
LEMMA StatIncreaseType ==
    ASSUME NEW limit \in Nat, NEW before \in Nat, NEW after \in Nat,
           NEW hits \in Nat, NEW local, NEW shadow,
           NEW s \in StatNames
    PROVE  StatIncrease(s, local, NewRateLimitInfo(limit, before, after), hits, shadow)
             \in Nat
  <1> DEFINE info == NewRateLimitInfo(limit, before, after)
             near == NearLimitThreshold(limit)
  <1>1. near \in Nat  BY NearLimitThresholdType
  <1>2. /\ info.overLimitThreshold = limit /\ info.nearLimitThreshold = near
        /\ info.limitBeforeIncrease = before /\ info.limitAfterIncrease = after
    BY Zenon DEF NewRateLimitInfo
  <1> HIDE DEF info, near
  <1>3. OverLimitHits(info, hits) \in Nat
    <2>1. Uint32(after - limit) \in Nat  BY Uint32Range
    <2> QED  BY <1>2, <2>1, Zenon DEF OverLimitHits
  <1>4. NearHitsWhenOver(info) \in Nat
    <2>1. UMax(near, before) \in Nat  BY <1>1 DEF UMax
    <2>2. Uint32(limit - UMax(near, before)) \in Nat  BY <2>1, Uint32Range
    <2> QED  BY <1>2, <2>2, Zenon DEF NearHitsWhenOver
  <1>5. NearHitsWhenWithin(info, hits) \in Nat
    <2>1. Uint32(after - near) \in Nat  BY <1>1, Uint32Range
    <2> QED  BY <1>2, <2>1, Zenon DEF NearHitsWhenWithin
  <1>6. IncreaseShadowModeStats(local, info, hits) \in Nat
    <2>1. Uint32(after - limit) \in Nat  BY Uint32Range
    <2> QED  BY <1>2, <2>1, Zenon DEF IncreaseShadowModeStats
  <1>7. StatIncrease(s, local, info, hits, shadow) \in Nat
    BY <1>3, <1>4, <1>5, <1>6, Zenon DEF StatIncrease, StatNames
  <1> QED  BY <1>7, Zenon DEF info

--------------------------------------------------------------------------------
\* What a request was called with is a call.
LEMMA CallFacts ==
    ASSUME TypeOK, NEW p \in Request
    PROVE  /\ args[p] \in Call
           /\ args[p].n \in Idx /\ Used(p) \subseteq Idx
           /\ HitsAddend(p) \in Nat \ {0}
           /\ \A i \in Idx : args[p].limit[i] \in 0..(Word - 1)
  <1>1. args[p] \in Call  BY Zenon DEF TypeOK
  <1>2. args[p].n \in Idx /\ Used(p) \subseteq Idx
    BY <1>1, BoundsAssumption DEF Call, Used, Idx
  <1>3. HitsAddend(p) \in Nat \ {0}
    BY <1>1, WordAssumption DEF Call, HitsAddend, UMax
  <1> QED  BY <1>1, <1>2, <1>3, Zenon DEF Call

\* INCRBY adds a natural number.
LEMMA AmountType ==
    ASSUME TypeOK, NEW p \in Request, NEW i \in Idx
    PROVE  IncrAmount(p, i) \in Nat
  BY CallFacts, Zenon DEF IncrAmount, HitsAddendForRedis

\* The key of a limited descriptor names its rule and the window of readAt.
LEMMA KeyFacts ==
    ASSUME TypeOK, NEW p \in Request, NEW i \in Idx, HasKey(p, i)
    PROVE  /\ args[p].desc[i] \in Descriptor
           /\ Unit[args[p].desc[i]] \in Units
           /\ CacheKey(p, i) \in Key
           /\ CacheKey(p, i)[1] = args[p].desc[i]
           /\ CacheKey(p, i)[2] <= readAt[p]
           /\ readAt[p] < CacheKey(p, i)[2] + UnitToDivider(Unit[args[p].desc[i]])
  <1> DEFINE d == args[p].desc[i]
  <1>1. d \in Descriptor  BY CallFacts, Zenon DEF HasKey, Call
  <1>2. Unit[d] \in Units  BY <1>1, RuleAssumption, Zenon
  <1>3. readAt[p] \in 0..MaxTime /\ readAt[p] \in Nat
    BY BoundsAssumption DEF TypeOK
  <1>4. /\ WindowStart(readAt[p], Unit[d]) \in 0..readAt[p]
        /\ readAt[p] < WindowStart(readAt[p], Unit[d]) + UnitToDivider(Unit[d])
    BY <1>2, <1>3, WindowStartOf, Zenon
  <1>5. WindowStart(readAt[p], Unit[d]) \in 0..MaxTime
    BY <1>3, <1>4, BoundsAssumption
  <1> QED  BY <1>1, <1>2, <1>3, <1>4, <1>5 DEF CacheKey, Key

\* The limit and counts that decide an answer are uint32 values.
LEMMA LimitInfoFacts ==
    ASSUME TypeOK, NEW p \in Request, NEW i \in Idx
    PROVE  /\ LimitInfo(p, i).overLimitThreshold = args[p].limit[i]
           /\ LimitInfo(p, i).limitAfterIncrease = result[p][i]
           /\ LimitInfo(p, i).limitBeforeIncrease \in 0..(Word - 1)
           /\ result[p][i] \in 0..(Word - 1)
  <1>1. result[p][i] \in 0..(Word - 1)  BY DEF TypeOK
  <1>2. Uint32(result[p][i] - HitsAddend(p)) \in 0..(Word - 1)
    BY <1>1, CallFacts, Uint32Range, WordAssumption
  <1> QED  BY <1>1, <1>2, Zenon DEF LimitInfo, NewRateLimitInfo

\* The numbers of a slot, as numbers.
LEMMA Numbers ==
    ASSUME TypeOK, NEW p \in Request, NEW i \in Idx
    PROVE  /\ result[p][i] \in Nat /\ current[p][i] \in Nat
           /\ args[p].limit[i] \in Nat /\ HitsAddend(p) \in Nat
  <1>1. result[p][i] \in 0..(Word - 1) /\ current[p][i] \in 0..(Word - 1)
    <2>1. /\ result \in [Request -> [Idx -> 0..(Word - 1)]]
          /\ current \in [Request -> [Idx -> 0..(Word - 1)]]
      BY Zenon DEF TypeOK
    <2>2. result[p][i] \in 0..(Word - 1)  BY <2>1, ZenonT(40)
    <2>3. current[p][i] \in 0..(Word - 1)  BY <2>1, ZenonT(40)
    <2> QED  BY <2>2, <2>3
  <1>2. args[p].limit[i] \in 0..(Word - 1) /\ HitsAddend(p) \in Nat
    BY CallFacts
  <1>3. \A n \in 0..(Word - 1) : n \in Nat  BY WordAssumption
  <1> QED  BY <1>1, <1>2, <1>3, Zenon

\* A sum is above what one of its parts is above.
LEMMA SumAbove ==
    ASSUME NEW a \in Nat, NEW b \in Nat, NEW c \in Nat, a > c
    PROVE  a + b > c
  OBVIOUS

\* A counter above a result that is over the limit, or above every uint32.
LEMMA OverOrWide ==
    ASSUME NEW c \in Nat, NEW r \in Nat, NEW l \in 0..(Word - 1), r > l,
           c < Word => r <= c
    PROVE  c > l
  BY WordAssumption

\* Transitivity, for leaves without arithmetic.
LEMMA AtMost ==
    ASSUME NEW a \in Nat, NEW b \in Nat, NEW c \in Nat, a <= b, b <= c
    PROVE  a <= c
  OBVIOUS

\* A descriptor's answer is well formed.
LEMMA StatusType ==
    ASSUME TypeOK, NEW p \in Request, NEW i \in Idx
    PROVE  Status(p, i) \in [code : Codes, remaining : 0..(Word - 1), resetAt : Nat]
  <1>1. CASE HasKey(p, i)
    <2> DEFINE d == args[p].desc[i]
    <2>1. now \in Nat  BY BoundsAssumption DEF TypeOK
    <2>2. now + CalculateReset(Unit[d], now) \in Nat
      BY <1>1, <2>1, KeyFacts, ResetOf
    <2>3. LimitRemaining(i \in overLocal[p], LimitInfo(p, i)) \in 0..(Word - 1)
      BY LimitInfoFacts, CallFacts, WordAssumption
         DEF LimitRemaining, IsOverLimit, IsOverLimitThresholdReached
    <2>4. ResponseCode(i \in overLocal[p], LimitInfo(p, i), d \in ShadowMode) \in Codes
      BY DEF ResponseCode, Codes
    <2> QED  BY <1>1, <2>2, <2>3, <2>4, Zenon DEF Status
  <1>2. CASE ~HasKey(p, i)
    BY <1>2, WordAssumption DEF Status, Codes
  <1> QED  BY <1>1, <1>2, Zenon

\* The statistics stay natural numbers when a descriptor is answered.
LEMMA StatsAfterType ==
    ASSUME TypeOK, NEW p \in Request, NEW i \in Idx, NEW d \in Descriptor
    PROVE  StatsAfter(p, i, d) \in [StatNames \cup {"TotalHits"} -> Nat]
  <1>1. stats[d] \in [StatNames \cup {"TotalHits"} -> Nat]  BY Zenon DEF TypeOK
  <1>2. ASSUME NEW s \in StatNames
        PROVE  StatIncrease(s, i \in overLocal[p], LimitInfo(p, i),
                            HitsAddend(p), d \in ShadowMode) \in Nat
    <2>1. args[p].limit[i] \in Nat /\ HitsAddend(p) \in Nat  BY CallFacts
    <2>2. result[p][i] \in Nat  BY LimitInfoFacts
    <2>3. Uint32(result[p][i] - HitsAddend(p)) \in Nat
      BY <2>1, <2>2, Uint32Range
    <2> QED  BY <2>1, <2>2, <2>3, StatIncreaseType, Zenon DEF LimitInfo
  <1> QED  BY <1>1, <1>2 DEF StatsAfter

\* A descriptor occurs so many times in a request.  FixedCacheProofs proves it from
\* the theorems on finite sets; this module needs no others.
Counting ==
    \A c \in Call, d \in Descriptor :
       Cardinality({i \in 1..c.n : c.desc[i] = d}) \in Nat

\* The statistics stay natural numbers when the keys are generated.
LEMMA TotalHitsType ==
    ASSUME Counting, NEW c \in Call, NEW d \in Descriptor
    PROVE  UMax(1, c.hitsAddend) * Cardinality({i \in 1..c.n : c.desc[i] = d}) \in Nat
  <1>1. UMax(1, c.hitsAddend) \in Nat
    BY WordAssumption, BoundsAssumption DEF Call, Idx, UMax
  <1>2. Cardinality({i \in 1..c.n : c.desc[i] = d}) \in Nat  BY Zenon DEF Counting
  <1> QED  BY <1>1, <1>2

(***************************************************************************)
(* Type correctness.                                                       *)
(***************************************************************************)
\* The initial states are well typed.
LEMMA TypeInit == Init => TypeOK
  <1> SUFFICES ASSUME Init PROVE TypeOK  OBVIOUS
  <1>1. args \in [Request -> Call]
    <2> DEFINE c == [n |-> 1, desc |-> [i \in Idx |-> NoLimit],
                     limit |-> [i \in Idx |-> 0], hitsAddend |-> 0]
    <2>1. c \in Call  BY WordAssumption, BoundsAssumption DEF Call, Idx
    <2>2. args \in [Request -> {c}]  BY Zenon DEF Init
    <2> HIDE DEF c
    <2> QED  BY <2>1, <2>2
  <1>2. status \in [Request -> [Idx ->
                     [code : Codes, remaining : 0..(Word - 1), resetAt : Nat]]]
    BY WordAssumption DEF Init, NoStatus, Codes
  <1>3. /\ now \in 0..MaxTime
        /\ counter \in [Key -> Nat] /\ ttl \in [Key -> Int]
        /\ expired \subseteq Key /\ localCache \in [Key -> Nat]
        /\ stats \in [Descriptor -> [StatNames \cup {"TotalHits"} -> Nat]]
    BY BoundsAssumption DEF Init, Absent
  <1>4. /\ pc \in [Request -> PCs]
        /\ readAt \in [Request -> 0..MaxTime]
        /\ idx \in [Request -> Idx]
        /\ overAtStart \in [Request -> SUBSET Idx]
        /\ overLocal \in [Request -> SUBSET Idx]
    BY BoundsAssumption DEF Init, PCs, Idx
  <1>5. /\ cmd \in [Request -> [Idx -> Commands]]
        /\ current \in [Request -> [Idx -> 0..(Word - 1)]]
        /\ result \in [Request -> [Idx -> 0..(Word - 1)]]
    BY WordAssumption DEF Init, Commands
  <1> QED  BY <1>1, <1>2, <1>3, <1>4, <1>5, Zenon DEF TypeOK

\* A pipeline gives a command to the descriptors it must and to no other.
LEMMA PipelineFacts ==
    ASSUME NEW p \in Request, NEW over, NEW c \in Commands
    PROVE  /\ Pipeline(p, over, c) \in [Idx -> Commands]
           /\ \A i \in Idx : Pipeline(p, over, c)[i] =
                               IF HasKey(p, i) /\ i \notin over THEN c ELSE "none"
  BY DEF Pipeline, Commands

(***************************************************************************)
(* A command is queued exactly for the descriptors that have a key and are *)
(* not refused by the local cache, and the phase says how far they are.    *)
(***************************************************************************)
PhaseOK(p, i) ==
    /\ i \in overLocal[p] => HasKey(p, i)
    /\ cmd[p][i] # "none" => HasKey(p, i) /\ i \notin overLocal[p]
    /\ pc[p] \in {"idle", "local"} => cmd[p][i] = "none"
    /\ pc[p] = "idle" => overLocal[p] = {} /\ status[p][i] = NoStatus
    /\ pc[p] = "get" => cmd[p][i] \in {"none", "get", "got"} /\ overLocal[p] = {}
    /\ pc[p] = "incr" => cmd[p][i] \in {"none", "incrby", "expire", "sent"}
    /\ pc[p] \in {"reply", "done"} => cmd[p][i] \in {"none", "sent"}
    /\ pc[p] \in {"get", "incr", "reply", "done"}
         => (HasKey(p, i) /\ i \notin overLocal[p] => cmd[p][i] # "none")

PhaseInv == \A p \in Request : \A i \in Idx : PhaseOK(p, i)

\* A step of call p keeps PhaseInv when it keeps it for p and leaves the other
\* calls alone.
LEMMA PhaseFrame ==
    ASSUME PhaseInv, NEW p \in Request,
           \A q \in Request : q # p =>
              /\ pc'[q] = pc[q] /\ args'[q] = args[q] /\ status'[q] = status[q]
              /\ overLocal'[q] = overLocal[q] /\ cmd'[q] = cmd[q],
           \A i \in Idx : PhaseOK(p, i)'
    PROVE  PhaseInv'
  <1>1. ASSUME NEW q \in Request, q # p, NEW i \in Idx PROVE PhaseOK(q, i)'
    <2>1. PhaseOK(q, i)  BY Zenon DEF PhaseInv
    <2> QED  BY <1>1, <2>1 DEF PhaseOK, HasKey, Used
  <1> QED  BY <1>1, SMTT(30) DEF PhaseInv

\* GenerateCacheKeys preserves the type and the phase invariant.
LEMMA GenerateCacheKeysShape ==
    ASSUME Counting, TypeOK, PhaseInv, NEW p \in Request, GenerateCacheKeys(p)
    PROVE  TypeOK' /\ PhaseInv'
  <1> PICK c \in Calls :
        /\ args' = [args EXCEPT ![p] = c]
        /\ stats' = [d \in Descriptor |->
             [stats[d] EXCEPT !["TotalHits"] =
                @ + UMax(1, c.hitsAddend)
                    * Cardinality({i \in 1..c.n : c.desc[i] = d})]]
        /\ overAtStart' = [overAtStart EXCEPT ![p] =
             {i \in 1..c.n :
                /\ c.desc[i] # NoLimit
                /\ counter[<<c.desc[i], WindowStart(now, Unit[c.desc[i]])>>]
                     > c.limit[i]}]
    BY Zenon DEF GenerateCacheKeys
  <1>1. c \in Call  BY RuleAssumption, Zenon
  <1>2. args' \in [Request -> Call]  BY <1>1, Zenon DEF TypeOK
  <1>3. overAtStart' \in [Request -> SUBSET Idx]
    <2>1. 1..c.n \subseteq Idx  BY <1>1, BoundsAssumption, SMTT(30)
                                   DEF Call, Idx
    <2> QED  BY <2>1, Zenon DEF TypeOK
  <1>4. stats' \in [Descriptor -> [StatNames \cup {"TotalHits"} -> Nat]]
    <2> SUFFICES ASSUME NEW d \in Descriptor
                 PROVE  stats'[d] \in [StatNames \cup {"TotalHits"} -> Nat]
      BY Zenon
    <2> DEFINE h == UMax(1, c.hitsAddend)
                    * Cardinality({i \in 1..c.n : c.desc[i] = d})
    <2>1. h \in Nat  BY <1>1, TotalHitsType, Zenon
    <2>2. stats'[d] = [stats[d] EXCEPT !["TotalHits"] = @ + h]  BY Zenon
    <2>3. stats[d] \in [StatNames \cup {"TotalHits"} -> Nat]  BY Zenon
                                                                 DEF TypeOK
    <2> HIDE DEF h
    <2> QED  BY <2>1, <2>2, <2>3
  <1>f. /\ pc[p] = "idle" /\ pc' = [pc EXCEPT ![p] = "local"]
        /\ readAt' = [readAt EXCEPT ![p] = now]
        /\ UNCHANGED <<now, counter, ttl, expired, localCache,
                       idx, overLocal, cmd, current, result, status>>
    BY Zenon DEF GenerateCacheKeys, redis
  <1>5. TypeOK'
    <2>1. pc' \in [Request -> PCs]  BY <1>f, Zenon DEF TypeOK, PCs
    <2>2. readAt' \in [Request -> 0..MaxTime]  BY <1>f, Zenon DEF TypeOK
    <2> QED  BY <1>2, <1>3, <1>4, <1>f, <2>1, <2>2, Zenon DEF TypeOK
  <1>6. PhaseInv'
    <2>1. /\ pc'[p] = "local"
          /\ \A q \in Request : q # p => pc'[q] = pc[q] /\ args'[q] = args[q]
      BY <1>f, Zenon DEF TypeOK
    <2>2. ASSUME NEW j \in Idx PROVE PhaseOK(p, j)'
      <3>1. cmd[p][j] = "none" /\ overLocal[p] = {}
        BY <1>f, Zenon DEF PhaseInv, PhaseOK
      <3> QED  BY <1>f, <2>1, <3>1, Zenon DEF PhaseOK
    <2> QED  BY <1>f, <2>1, <2>2, PhaseFrame, Zenon
  <1> QED  BY <1>5, <1>6, Zenon

\* The local lookups preserve both, and start the right pipeline.
LEMMA LookupLocalCacheShape ==
    ASSUME TypeOK, PhaseInv, NEW p \in Request, LookupLocalCache(p)
    PROVE  TypeOK' /\ PhaseInv'
  <1> DEFINE i == idx[p]
             over == IF HasKey(p, i) /\ IsOverLimitWithLocalCache(CacheKey(p, i))
                     THEN overLocal[p] \cup {i} ELSE overLocal[p]
  <1>1. i \in Idx /\ args[p].n \in Idx  BY CallFacts, Zenon DEF TypeOK
  <1>2. overLocal' = [overLocal EXCEPT ![p] = over] /\ over \in SUBSET Idx
    BY <1>1 DEF LookupLocalCache, TypeOK
  <1>3. \A j \in over : HasKey(p, j)
    BY <1>1, SMTT(30) DEF PhaseInv, PhaseOK, TypeOK
  <1>c. \/ /\ i < args[p].n
           /\ idx' = [idx EXCEPT ![p] = i + 1]
           /\ UNCHANGED <<pc, cmd>>
        \/ /\ i = args[p].n
           /\ idx' = [idx EXCEPT ![p] = 1]
           /\ pc' = [pc EXCEPT ![p] = NextPhase(p, over)]
           /\ cmd' = [cmd EXCEPT ![p] = Pipeline(p, over, FirstCommand(p, over))]
    BY Zenon DEF LookupLocalCache
  <1> HIDE DEF over
  <1>4. /\ pc[p] = "local"
        /\ UNCHANGED <<now, counter, ttl, expired, localCache, stats,
                       args, readAt, overAtStart, current, result, status>>
    BY Zenon DEF LookupLocalCache, redis, given
  <1>5. CASE /\ i < args[p].n
             /\ idx' = [idx EXCEPT ![p] = i + 1]
             /\ UNCHANGED <<pc, cmd>>
    <2>1. i + 1 \in Idx  BY <1>1, <1>5, BoundsAssumption DEF Idx
    <2>2. TypeOK'  BY <1>2, <1>4, <1>5, <2>1, Zenon DEF TypeOK
    <2>3. PhaseInv'
      <3>1. overLocal'[p] = over /\ \A q \in Request : q # p => overLocal'[q] = overLocal[q]
        BY <1>2, Zenon DEF TypeOK
      <3>2. ASSUME NEW j \in Idx PROVE PhaseOK(p, j)'
        <4>1. PhaseOK(p, j)  BY DEF PhaseInv
        <4> QED  BY <1>3, <1>4, <1>5, <3>1, <4>1, Zenon DEF PhaseOK, HasKey, Used
      <3> QED  BY <1>4, <1>5, <3>1, <3>2, PhaseFrame, Zenon
    <2> QED  BY <2>2, <2>3
  <1>6. CASE /\ i = args[p].n
             /\ idx' = [idx EXCEPT ![p] = 1]
             /\ pc' = [pc EXCEPT ![p] = NextPhase(p, over)]
             /\ cmd' = [cmd EXCEPT ![p] = Pipeline(p, over, FirstCommand(p, over))]
    <2>1. FirstCommand(p, over) \in {"get", "incrby"}  BY DEF FirstCommand
    <2>2. NextPhase(p, over) \in {"get", "incr", "reply"}  BY DEF NextPhase
    <2>3. Pipeline(p, over, FirstCommand(p, over)) \in [Idx -> Commands]
      BY <2>1, PipelineFacts, Zenon DEF Commands
    <2>4. 1 \in Idx  BY BoundsAssumption DEF Idx
    <2>5. TypeOK'
      BY <1>2, <1>4, <1>6, <2>2, <2>3, <2>4, Zenon DEF TypeOK, PCs
    <2>6. ASSUME NEW j \in Idx PROVE PhaseOK(p, j)'
      <3>1. cmd'[p][j] = IF HasKey(p, j) /\ j \notin over
                         THEN FirstCommand(p, over) ELSE "none"
        BY <1>6, <2>1, PipelineFacts, SMTT(30) DEF TypeOK, Commands
      <3>2. overLocal'[p] = over /\ pc'[p] = NextPhase(p, over)
        BY <1>2, <1>6, Zenon DEF TypeOK
      <3>3. HasKey(p, j)' = HasKey(p, j)  BY <1>4, Zenon DEF HasKey, Used
      <3>4. CASE NextPhase(p, over) = "reply"
        BY <1>3, <3>1, <3>2, <3>3, <3>4, Zenon DEF NextPhase, PhaseOK
      <3>5. CASE NextPhase(p, over) = "get"
        BY <1>3, <3>1, <3>2, <3>3, <3>5, Zenon
           DEF NextPhase, FirstCommand, ReadsFirst, PhaseOK
      <3>6. CASE NextPhase(p, over) = "incr"
        BY <1>3, <3>1, <3>2, <3>3, <3>6, SMTT(30)
           DEF NextPhase, FirstCommand, PhaseOK
      <3> QED  BY <2>2, <3>4, <3>5, <3>6
    <2>7. \A q \in Request : q # p =>
             /\ pc'[q] = pc[q] /\ cmd'[q] = cmd[q] /\ overLocal'[q] = overLocal[q]
      BY <1>2, <1>6, Zenon DEF TypeOK
    <2>8. PhaseInv'  BY <1>4, <2>6, <2>7, PhaseFrame, Zenon
    <2> QED  BY <2>5, <2>8
  <1> QED  BY <1>c, <1>5, <1>6, Zenon

\* A GET preserves both.
LEMMA GetShape ==
    ASSUME TypeOK, PhaseInv, NEW p \in Request, NEW i \in Idx, Get(p, i)
    PROVE  TypeOK' /\ PhaseInv'
  <1>1. /\ pc[p] = "get" /\ cmd[p][i] = "get"
        /\ UNCHANGED <<now, counter, ttl, expired, localCache, stats,
                       args, readAt, overAtStart, idx, overLocal, result, status>>
    BY Zenon DEF Get, redis, given
  <1>2. HasKey(p, i) /\ overLocal[p] = {}  BY <1>1, Zenon DEF PhaseInv, PhaseOK
  <1>3. current' \in [Request -> [Idx -> 0..(Word - 1)]]
    <2>1. counter[CacheKey(p, i)] \in Nat  BY <1>2, KeyFacts, Zenon DEF TypeOK
    <2>2. Uint32(counter[CacheKey(p, i)]) \in 0..(Word - 1)  BY <2>1, Uint32Range
    <2> QED  BY <2>2, SMTT(30) DEF Get, TypeOK
  <1>4. CASE /\ cmd' = [cmd EXCEPT ![p][i] = "got"]
             /\ UNCHANGED pc
    <2>1. TypeOK'  BY <1>1, <1>3, <1>4, Zenon DEF TypeOK, Commands
    <2>2. PhaseInv'
      <3>1. \A q \in Request : q # p => cmd'[q] = cmd[q]  BY <1>4, Zenon
                                                             DEF TypeOK
      <3>2. ASSUME NEW j \in Idx PROVE PhaseOK(p, j)'
        <4>1. PhaseOK(p, j)  BY DEF PhaseInv
        <4>2. cmd'[p][j] = IF j = i THEN "got" ELSE cmd[p][j]
          BY <1>4, Zenon DEF TypeOK
        <4> QED  BY <1>1, <1>2, <1>4, <4>1, <4>2 DEF PhaseOK, HasKey, Used
      <3> QED  BY <1>1, <1>4, <3>1, <3>2, PhaseFrame, Zenon
    <2> QED  BY <2>1, <2>2
  <1>5. CASE /\ cmd' = [cmd EXCEPT ![p] = Pipeline(p, {}, "incrby")]
             /\ pc' = [pc EXCEPT ![p] = "incr"]
    <2>1. /\ Pipeline(p, {}, "incrby") \in [Idx -> Commands]
          /\ \A j \in Idx : Pipeline(p, {}, "incrby")[j] =
                              IF HasKey(p, j) THEN "incrby" ELSE "none"
      BY PipelineFacts DEF Commands
    <2>2. TypeOK'  BY <1>1, <1>3, <1>5, <2>1, Zenon DEF TypeOK, PCs
    <2>3. PhaseInv'
      <3>1. /\ pc'[p] = "incr" /\ cmd'[p] = Pipeline(p, {}, "incrby")
            /\ \A q \in Request : q # p => cmd'[q] = cmd[q] /\ pc'[q] = pc[q]
        BY <1>5, SMTT(30) DEF TypeOK
      <3>2. ASSUME NEW j \in Idx PROVE PhaseOK(p, j)'
        BY <1>1, <1>2, <2>1, <3>1, Zenon DEF PhaseOK, HasKey, Used
      <3> QED  BY <1>1, <3>1, <3>2, PhaseFrame, Zenon
    <2> QED  BY <2>2, <2>3
  <1> QED  BY <1>4, <1>5, Zenon DEF Get

\* An INCRBY preserves both, and is of a descriptor with a key.
LEMMA IncrByShape ==
    ASSUME TypeOK, PhaseInv, NEW p \in Request, NEW i \in Idx, IncrBy(p, i)
    PROVE  /\ TypeOK' /\ PhaseInv'
           /\ HasKey(p, i) /\ CacheKey(p, i) \in Key
  <1>1. /\ pc[p] = "incr" /\ cmd[p][i] = "incrby"
        /\ cmd' = [cmd EXCEPT ![p][i] = "expire"]
        /\ UNCHANGED <<now, expired, localCache, stats, pc,
                       args, readAt, overAtStart, idx, overLocal, current, status>>
    BY Zenon DEF IncrBy, AfterIncrBy, given
  <1>2. HasKey(p, i)  BY <1>1, SMTT(30) DEF PhaseInv, PhaseOK
  <1>3. CacheKey(p, i) \in Key  BY <1>2, KeyFacts, Zenon
  <1>4. IncrAmount(p, i) \in Nat  BY AmountType
  <1>5. counter' \in [Key -> Nat]  BY <1>3, <1>4 DEF IncrBy, TypeOK
  <1>6. ttl' \in [Key -> Int]
    <2>1. NoTTL \in Int  BY DEF NoTTL
    <2>2. ttl' = [ttl EXCEPT ![CacheKey(p, i)] =
                    IF ttl[CacheKey(p, i)] = Absent THEN NoTTL
                    ELSE ttl[CacheKey(p, i)]]
      BY Zenon DEF IncrBy
    <2> QED  BY <1>3, <2>1, <2>2, Zenon DEF TypeOK
  <1>7. result' \in [Request -> [Idx -> 0..(Word - 1)]]
    <2>1. counter[CacheKey(p, i)] + IncrAmount(p, i) \in Nat
      BY <1>3, <1>4 DEF TypeOK
    <2>2. IncrByReply(p, i) \in 0..(Word - 1)
      BY <2>1, Uint32Range DEF IncrByReply
    <2> QED  BY <2>2, Zenon DEF IncrBy, TypeOK
  <1>8. TypeOK'  BY <1>1, <1>5, <1>6, <1>7, Zenon DEF TypeOK, Commands
  <1>9. PhaseInv'
    <2>1. \A q \in Request : q # p => cmd'[q] = cmd[q]  BY <1>1, SMTT(30)
                                                           DEF TypeOK
    <2>2. ASSUME NEW j \in Idx PROVE PhaseOK(p, j)'
      <3>1. PhaseOK(p, j)  BY DEF PhaseInv
      <3>2. cmd'[p][j] = IF j = i THEN "expire" ELSE cmd[p][j]
        BY <1>1, SMTT(30) DEF TypeOK
      <3> QED  BY <1>1, <3>1, <3>2 DEF PhaseOK, HasKey, Used
    <2> QED  BY <1>1, <2>1, <2>2, PhaseFrame, Zenon
  <1> QED  BY <1>2, <1>3, <1>8, <1>9

\* An EXPIRE preserves both, and is of a descriptor with a key.
LEMMA ExpireShape ==
    ASSUME TypeOK, PhaseInv, NEW p \in Request, NEW i \in Idx, Expire(p, i)
    PROVE  /\ TypeOK' /\ PhaseInv'
           /\ HasKey(p, i) /\ CacheKey(p, i) \in Key
  <1>1. /\ pc[p] = "incr" /\ cmd[p][i] = "expire"
        /\ cmd' = [cmd EXCEPT ![p][i] = "sent"]
        /\ pc' = [pc EXCEPT ![p] =
                    IF \A j \in Idx : j # i => cmd[p][j] \in {"none", "sent"}
                    THEN "reply" ELSE @]
        /\ UNCHANGED <<now, counter, expired, localCache, stats, args, readAt,
                       overAtStart, idx, overLocal, current, result, status>>
    BY Zenon DEF Expire, given
  <1>2. HasKey(p, i)  BY <1>1, SMTT(30) DEF PhaseInv, PhaseOK
  <1>3. /\ CacheKey(p, i) \in Key /\ args[p].desc[i] \in Descriptor
        /\ UnitToDivider(Unit[args[p].desc[i]]) \in Nat
    BY <1>2, KeyFacts, DividerOf, Zenon
  <1>4. ttl' \in [Key -> Int]
    <2> PICK s \in ExpirationSeconds(args[p].desc[i]) :
               ttl' = [ttl EXCEPT ![CacheKey(p, i)] = TTLAfterExpire(p, i, s)]
      BY Zenon DEF Expire
    <2>1. s \in Int  BY <1>3, BoundsAssumption DEF ExpirationSeconds, UMax
    <2>2. TTLAfterExpire(p, i, s) \in Int
      BY <2>1, BoundsAssumption DEF TTLAfterExpire, Absent, TypeOK
    <2> QED  BY <2>2, Zenon DEF TypeOK
  <1>5. TypeOK'  BY <1>1, <1>4, Zenon DEF TypeOK, Commands, PCs
  <1>6. PhaseInv'
    <2>1. \A q \in Request : q # p => cmd'[q] = cmd[q] /\ pc'[q] = pc[q]
      BY <1>1, SMTT(30) DEF TypeOK
    <2>2. ASSUME NEW j \in Idx PROVE PhaseOK(p, j)'
      <3>1. PhaseOK(p, j)  BY DEF PhaseInv
      <3>2. cmd'[p][j] = IF j = i THEN "sent" ELSE cmd[p][j]
        BY <1>1, Zenon DEF TypeOK
      <3>3. \/ pc'[p] = "incr"
            \/ pc'[p] = "reply" /\ cmd'[p][j] \in {"none", "sent"}
        BY <1>1, <3>2, Zenon DEF TypeOK
      <3> QED  BY <1>1, <3>1, <3>2, <3>3, SMTT(30) DEF PhaseOK, HasKey, Used
    <2> QED  BY <1>1, <2>1, <2>2, PhaseFrame, Zenon
  <1> QED  BY <1>2, <1>3, <1>5, <1>6, Zenon

\* Answering a descriptor preserves both.
LEMMA ReplyShape ==
    ASSUME TypeOK, PhaseInv, NEW p \in Request, Reply(p)
    PROVE  TypeOK' /\ PhaseInv' /\ idx[p] \in Idx
  <1> DEFINE i == idx[p]
  <1>1. i \in Idx /\ args[p].n \in Idx  BY CallFacts, Zenon DEF TypeOK
  <1>2. /\ pc[p] = "reply"
        /\ UNCHANGED <<now, counter, ttl, expired, args, readAt, overAtStart,
                       overLocal, cmd, current, result>>
    BY Zenon DEF Reply, redis, given
  <1>3. status' \in [Request -> [Idx ->
                      [code : Codes, remaining : 0..(Word - 1), resetAt : Nat]]]
    <2>1. Status(p, i) \in [code : Codes, remaining : 0..(Word - 1), resetAt : Nat]
      BY <1>1, StatusType, Zenon
    <2>2. status' = [status EXCEPT ![p][i] = Status(p, i)]  BY Zenon DEF Reply
    <2> QED  BY <1>1, <2>1, <2>2, Zenon DEF TypeOK
  <1>4. stats' \in [Descriptor -> [StatNames \cup {"TotalHits"} -> Nat]]
    <2>1. stats' = [d \in Descriptor |-> StatsAfter(p, i, d)]  BY Zenon DEF Reply
    <2> QED  BY <1>1, <2>1, StatsAfterType, Zenon
  <1>5. localCache' \in [Key -> Nat]
    <2>1. now \in Nat  BY BoundsAssumption, SMTT(30) DEF TypeOK
    <2>2. HasKey(p, i) => UnitToDivider(Unit[args[p].desc[i]]) \in Nat
      BY <1>1, KeyFacts, DividerOf, ZenonT(30)
    <2>3. HasKey(p, i) => now + UnitToDivider(Unit[args[p].desc[i]]) \in Nat
      BY <2>1, <2>2
    <2> QED  BY <2>3, Zenon DEF Reply, TypeOK
  <1>6. idx' \in [Request -> Idx]
    <2>1. i < args[p].n => i + 1 \in Idx  BY <1>1, BoundsAssumption, SMTT(30)
                                             DEF Idx
    <2> QED  BY <2>1, Zenon DEF Reply, TypeOK
  <1>7. pc' \in [Request -> PCs] /\ pc'[p] \in {"reply", "done"}
        /\ \A q \in Request : q # p => pc'[q] = pc[q]
    BY <1>2, ZenonT(30) DEF Reply, TypeOK, PCs
  <1>8. TypeOK'
    BY <1>2, <1>3, <1>4, <1>5, <1>6, <1>7, ZenonT(30) DEF TypeOK
  <1>9. PhaseInv'
    <2>1. \A q \in Request : q # p => status'[q] = status[q]
      BY <1>1, ZenonT(30) DEF Reply, TypeOK
    <2>2. ASSUME NEW j \in Idx PROVE PhaseOK(p, j)'
      <3>1. PhaseOK(p, j)  BY Zenon DEF PhaseInv
      <3>2. HasKey(p, j)' <=> HasKey(p, j)  BY <1>2, Zenon DEF HasKey, Used
      <3>3. /\ pc'[p] \notin {"idle", "local", "get", "incr"}
            /\ overLocal'[p] = overLocal[p] /\ cmd'[p][j] = cmd[p][j]
        BY <1>2, <1>7
      <3> QED  BY <1>2, <3>1, <3>2, <3>3, Zenon DEF PhaseOK
    <2> QED  BY <1>2, <1>7, <2>1, <2>2, PhaseFrame, Zenon
  <1> QED  BY <1>1, <1>8, <1>9

\* A failing pipeline preserves both.
LEMMA FailShape ==
    ASSUME TypeOK, PhaseInv, NEW p \in Request, Fail(p)
    PROVE  TypeOK' /\ PhaseInv'
  <1>f. /\ pc' = [pc EXCEPT ![p] = "failed"]
        /\ UNCHANGED <<now, counter, ttl, expired, localCache, stats, args, readAt,
                       overAtStart, idx, overLocal, cmd, current, result, status>>
    BY Zenon DEF Fail, redis, given
  <1>p. pc' \in [Request -> PCs] /\ pc'[p] = "failed"
        /\ \A q \in Request : q # p => pc'[q] = pc[q]
    BY <1>f, SMTT(30) DEF TypeOK, PCs
  <1>1. TypeOK'  BY <1>f, <1>p, Zenon DEF TypeOK
  <1>2. PhaseInv'
    <2>1. ASSUME NEW j \in Idx PROVE PhaseOK(p, j)'
      <3>1. PhaseOK(p, j)  BY DEF PhaseInv
      <3> QED  BY <1>f, <1>p, <3>1, Zenon DEF PhaseOK, HasKey, Used
    <2> QED  BY <1>f, <1>p, <2>1, PhaseFrame, ZenonT(30)
  <1> QED  BY <1>1, <1>2

\* The clock, Redis expiry and local eviction preserve both.
LEMMA EnvironmentShape ==
    ASSUME TypeOK, PhaseInv,
           \/ Tick
           \/ \E k \in Key : RedisExpire(k) \/ Evict(k)
           \/ UNCHANGED vars
    PROVE  TypeOK' /\ PhaseInv'
  <1>1. UNCHANGED <<pc, args, readAt, overAtStart, idx, overLocal, cmd, current,
                    result, status, stats>>
    BY SMTT(30) DEF Tick, RedisExpire, Evict, vars, frame, given
  <1>2. PhaseInv'
    <2>1. ASSUME NEW p \in Request, NEW j \in Idx PROVE PhaseOK(p, j)'
      <3>1. PhaseOK(p, j)  BY DEF PhaseInv
      <3> QED  BY <1>1, <3>1, Zenon DEF PhaseOK, HasKey, Used
    <2> QED  BY <2>1, SMTT(30) DEF PhaseInv
  <1>f. /\ stats' \in [Descriptor -> [StatNames \cup {"TotalHits"} -> Nat]]
        /\ pc' \in [Request -> PCs] /\ args' \in [Request -> Call]
        /\ readAt' \in [Request -> 0..MaxTime]
        /\ overAtStart' \in [Request -> SUBSET Idx]
        /\ idx' \in [Request -> Idx] /\ overLocal' \in [Request -> SUBSET Idx]
        /\ cmd' \in [Request -> [Idx -> Commands]]
        /\ current' \in [Request -> [Idx -> 0..(Word - 1)]]
        /\ result' \in [Request -> [Idx -> 0..(Word - 1)]]
        /\ status' \in [Request -> [Idx ->
                          [code : Codes, remaining : 0..(Word - 1), resetAt : Nat]]]
    BY <1>1, Zenon DEF TypeOK
  <1>3. CASE Tick
    <2>1. now' \in 0..MaxTime  BY <1>3, BoundsAssumption, SMTT(30)
                                  DEF Tick, TypeOK
    <2>2. localCache' \in [Key -> Nat]  BY <1>3, SMTT(30)
                                           DEF Tick, TypeOK, Absent
    <2>3. counter' \in [Key -> Nat] /\ ttl' \in [Key -> Int] /\ expired' \subseteq Key
      BY <1>3, SMTT(30) DEF Tick, redis, TypeOK
    <2> QED  BY <1>2, <1>f, <2>1, <2>2, <2>3, ZenonT(30) DEF TypeOK
  <1>4. ASSUME NEW k \in Key, RedisExpire(k) PROVE TypeOK'
    <2>1. counter' \in [Key -> Nat] /\ ttl' \in [Key -> Int] /\ expired' \subseteq Key
      BY <1>4 DEF RedisExpire, TypeOK, Absent
    <2>2. UNCHANGED <<now, localCache>>  BY <1>4, Zenon DEF RedisExpire
    <2> QED  BY <1>f, <2>1, <2>2, Zenon DEF TypeOK
  <1>5. ASSUME NEW k \in Key, Evict(k) PROVE TypeOK'
    BY <1>f, <1>5, Zenon DEF Evict, TypeOK, redis, Absent
  <1>6. CASE UNCHANGED vars
    <2>1. /\ now' \in 0..MaxTime /\ localCache' \in [Key -> Nat]
          /\ counter' \in [Key -> Nat] /\ ttl' \in [Key -> Int] /\ expired' \subseteq Key
      BY <1>6, Zenon DEF vars, redis, TypeOK
    <2> QED  BY <1>2, <1>f, <2>1, Zenon DEF TypeOK
  <1> QED  BY <1>2, <1>3, <1>4, <1>5, <1>6

\* A step is one of the actions below; used by every proof that follows.
LEMMA NextCases ==
    ASSUME [Next]_vars
    PROVE  \/ \E p \in Request : \/ GenerateCacheKeys(p) \/ LookupLocalCache(p)
                                 \/ Reply(p) \/ Fail(p)
           \/ \E p \in Request, i \in Idx : Get(p, i) \/ IncrBy(p, i) \/ Expire(p, i)
           \/ Tick
           \/ \E k \in Key : RedisExpire(k) \/ Evict(k)
           \/ UNCHANGED vars
  BY Zenon DEF Next, Step

\* Every step preserves the type and the phase invariant.
LEMMA TypeNext ==
    ASSUME Counting, TypeOK, PhaseInv, [Next]_vars
    PROVE  TypeOK' /\ PhaseInv'
  <1>1. ASSUME NEW p \in Request,
               GenerateCacheKeys(p) \/ LookupLocalCache(p) \/ Reply(p) \/ Fail(p)
        PROVE  TypeOK' /\ PhaseInv'
    BY <1>1, GenerateCacheKeysShape, LookupLocalCacheShape, ReplyShape, FailShape, Zenon
  <1>2. ASSUME NEW p \in Request, NEW i \in Idx,
               Get(p, i) \/ IncrBy(p, i) \/ Expire(p, i)
        PROVE  TypeOK' /\ PhaseInv'
    BY <1>2, GetShape, IncrByShape, ExpireShape, Zenon
  <1> QED  BY <1>1, <1>2, NextCases, EnvironmentShape, Zenon

\* What every later proof starts from.
Typed == TypeOK /\ PhaseInv

(***************************************************************************)
(* Quota.  What makes NoSharedQuota inductive is that every executed       *)
(* INCRBY returned a value its key has not fallen below since.             *)
(***************************************************************************)
SlotOK(p, i) ==
    /\ Counted(p, i)
    /\ CacheKey(p, i) \notin expired
    /\ counter[CacheKey(p, i)] < Word
    => IncrAmount(p, i) <= result[p][i] /\ result[p][i] <= counter[CacheKey(p, i)]

SlotInv == \A p \in Request : \A i \in Idx : SlotOK(p, i)

\* What a call was given, and so what its commands do, is fixed once it counts.
SameCall(p) ==
    /\ args'[p] = args[p] /\ readAt'[p] = readAt[p]
    /\ overLocal'[p] = overLocal[p] /\ current'[p] = current[p]

\* Keys and increments depend only on what the call was given.
LEMMA SameCallFrame ==
    ASSUME NEW p \in Request, NEW i \in Idx, SameCall(p)
    PROVE  /\ HasKey(p, i)' = HasKey(p, i)
           /\ CacheKey(p, i)' = CacheKey(p, i)
           /\ IncrAmount(p, i)' = IncrAmount(p, i)
  <1>1. HasKey(p, i)' = HasKey(p, i)  BY Zenon DEF SameCall, HasKey, Used
  <1>2. CacheKey(p, i)' = CacheKey(p, i)  BY Zenon DEF SameCall, CacheKey
  <1>3. \A j \in Idx : NearLimit(p, j)' = NearLimit(p, j)
    BY Zenon DEF SameCall, NearLimit, ReadsFirst, HasKey, Used, HitsAddend
  <1>4. HitsAddendForRedis(p)' = HitsAddendForRedis(p)
    BY <1>3, Zenon DEF SameCall, HitsAddendForRedis, HitsAddend
  <1>5. IncrAmount(p, i)' = IncrAmount(p, i)
    BY <1>3, <1>4, Zenon DEF SameCall, IncrAmount, HitsAddend
  <1> QED  BY <1>1, <1>2, <1>5

\* A step that executes no INCRBY: slots, counters and results stay, except
\* for keys that expire.
NoIncrement ==
    /\ \A p \in Request, i \in Idx :
         /\ Counted(p, i)' <=> Counted(p, i)
         /\ Counted(p, i) => SameCall(p) /\ result'[p][i] = result[p][i]
    /\ \A k \in Key : k \notin expired' => k \notin expired /\ counter'[k] = counter[k]

\* A step that counts nothing keeps every slot and every total.
LEMMA NoIncrementKeepsQuota ==
    ASSUME TypeOK, PhaseInv, SlotInv, NoSharedQuota, NoIncrement
    PROVE  SlotInv' /\ NoSharedQuota'
  <1>1. ASSUME NEW p \in Request, NEW i \in Idx, Counted(p, i)'
        PROVE  /\ Counted(p, i) /\ result'[p][i] = result[p][i]
               /\ CacheKey(p, i)' = CacheKey(p, i)
               /\ IncrAmount(p, i)' = IncrAmount(p, i)
               /\ CacheKey(p, i) \in Key
    <2>1. Counted(p, i) /\ SameCall(p) /\ result'[p][i] = result[p][i]
      BY <1>1, Zenon DEF NoIncrement
    <2>2. CacheKey(p, i) \in Key
      BY <2>1, KeyFacts, Zenon DEF Counted, PhaseInv, PhaseOK
    <2> QED  BY <2>1, <2>2, SameCallFrame, Zenon
  <1>2. SlotInv'
    BY <1>1 DEF SlotInv, SlotOK, NoIncrement
  <1>3. NoSharedQuota'
    <2> SUFFICES ASSUME NEW p \in Request, NEW q \in Request,
                        NEW i \in Idx, NEW j \in Idx,
                        <<p, i>> # <<q, j>>, Counted(p, i)', Counted(q, j)',
                        CacheKey(p, i)' = CacheKey(q, j)',
                        CacheKey(p, i)' \notin expired',
                        counter'[CacheKey(p, i)'] < Word
                 PROVE  \/ result'[p][i] <= result'[q][j] - IncrAmount(q, j)'
                        \/ result'[q][j] <= result'[p][i] - IncrAmount(p, i)'
      BY DEF NoSharedQuota
    <2>1. /\ CacheKey(p, i) = CacheKey(q, j) /\ CacheKey(p, i) \notin expired
          /\ counter[CacheKey(p, i)] < Word /\ Counted(p, i) /\ Counted(q, j)
      BY <1>1, Zenon DEF NoIncrement
    <2>2. \/ result[p][i] <= result[q][j] - IncrAmount(q, j)
          \/ result[q][j] <= result[p][i] - IncrAmount(p, i)
      BY <2>1, Zenon DEF NoSharedQuota
    <2> QED  BY <1>1, <2>2, Zenon
  <1> QED  BY <1>2, <1>3

\* An INCRBY adds to one counter what it adds to that counter's slots.
LEMMA IncrByKeepsQuota ==
    ASSUME TypeOK, PhaseInv, SlotInv, NoSharedQuota,
           NEW p \in Request, NEW i \in Idx, IncrBy(p, i)
    PROVE  SlotInv' /\ NoSharedQuota'
  <1> DEFINE k == CacheKey(p, i)
             amount == IncrAmount(p, i)
  <1>1. /\ pc[p] = "incr" /\ cmd[p][i] = "incrby"
        /\ counter' = [counter EXCEPT ![k] = counter[k] + amount]
        /\ result' = [result EXCEPT ![p][i] = Uint32(counter[k] + amount)]
        /\ cmd' = [cmd EXCEPT ![p][i] = "expire"]
        /\ UNCHANGED <<expired, args, readAt, overLocal, current>>
    BY Zenon DEF IncrBy, AfterIncrBy, IncrByReply, given
  <1>2. k \in Key /\ amount \in Nat /\ counter[k] \in Nat
    BY IncrByShape, AmountType, Zenon DEF TypeOK
  <1>3. ASSUME NEW q \in Request, NEW j \in Idx
        PROVE  CacheKey(q, j)' = CacheKey(q, j) /\ IncrAmount(q, j)' = IncrAmount(q, j)
    BY <1>1, SameCallFrame, Zenon DEF SameCall
  <1>4. ASSUME NEW q \in Request, NEW j \in Idx, <<q, j>> # <<p, i>>
        PROVE  /\ Counted(q, j)' = Counted(q, j)
               /\ result'[q][j] = result[q][j]
    BY <1>1, <1>4, Zenon DEF Counted, TypeOK
  <1>5. ~Counted(p, i)  BY <1>1, Zenon DEF Counted
  <1>6. counter'[k] = counter[k] + amount /\ \A l \in Key : l # k => counter'[l] = counter[l]
    BY <1>1, <1>2, Zenon DEF TypeOK
  <1>7. counter'[k] < Word => result'[p][i] = counter[k] + amount
    <2>1. result'[p][i] = Uint32(counter[k] + amount)  BY <1>1, Zenon DEF TypeOK
    <2>2. counter[k] + amount < Word => counter[k] + amount \in 0..(Word - 1)
      BY <1>2, WordAssumption
    <2> QED  BY <1>2, <1>6, <2>1, <2>2, Uint32Range
  <1> HIDE DEF k, amount
  <1>m. ASSUME NEW l \in Key
        PROVE  /\ counter[l] \in Nat /\ counter'[l] \in Nat
               /\ counter[l] <= counter'[l]
    <2>1. counter[l] \in Nat  BY Zenon DEF TypeOK
    <2>2. CASE l = k  BY <1>2, <1>6, <2>2
    <2>3. CASE l # k  BY <1>6, <2>1, <2>3
    <2> QED  BY <2>1, <2>2, <2>3, Zenon
  <1>8. ASSUME NEW q \in Request, NEW j \in Idx, <<q, j>> # <<p, i>>,
               Counted(q, j)', CacheKey(q, j)' \notin expired',
               counter'[CacheKey(q, j)'] < Word
        PROVE  /\ IncrAmount(q, j) <= result[q][j]
               /\ result[q][j] <= counter[CacheKey(q, j)]
               /\ counter[CacheKey(q, j)] <= counter'[CacheKey(q, j)]
    <2>1. Counted(q, j) /\ CacheKey(q, j) \notin expired  BY <1>1, <1>3, <1>4, <1>8, Zenon
    <2>2. CacheKey(q, j) \in Key
      BY <2>1, KeyFacts, Zenon DEF Counted, PhaseInv, PhaseOK
    <2>3. counter[CacheKey(q, j)] <= counter'[CacheKey(q, j)]
      BY <1>m, <2>2, Zenon
    <2>4. counter[CacheKey(q, j)] < Word
      BY <1>3, <1>8, <1>m, <2>2, WordAssumption
    <2> QED  BY <2>1, <2>3, <2>4, Zenon DEF SlotInv, SlotOK
  <1>9. SlotInv'
    <2> SUFFICES ASSUME NEW q \in Request, NEW j \in Idx PROVE SlotOK(q, j)'
      BY DEF SlotInv
    <2>1. CASE <<q, j>> = <<p, i>>
      <3>1. CacheKey(q, j)' = k /\ IncrAmount(q, j)' = amount
        BY <1>3, <2>1 DEF k, amount
      <3> QED  BY <1>2, <1>6, <1>7, <2>1, <3>1 DEF SlotOK
    <2>2. CASE <<q, j>> # <<p, i>>
      <3>1. CacheKey(q, j)' = CacheKey(q, j) /\ IncrAmount(q, j)' = IncrAmount(q, j)
        BY <1>3
      <3>2. result'[q][j] = result[q][j]  BY <1>4, <2>2, Zenon
      <3>3. ASSUME Counted(q, j)', CacheKey(q, j)' \notin expired',
                   counter'[CacheKey(q, j)'] < Word
            PROVE  /\ IncrAmount(q, j)' <= result'[q][j]
                   /\ result'[q][j] <= counter'[CacheKey(q, j)']
        <4>1. /\ IncrAmount(q, j) <= result[q][j]
              /\ result[q][j] <= counter[CacheKey(q, j)]
              /\ counter[CacheKey(q, j)] <= counter'[CacheKey(q, j)]
          BY <1>8, <2>2, <3>3, Zenon
        <4>2. CacheKey(q, j) \in Key
          <5>1. Counted(q, j)  BY <1>4, <2>2, <3>3, Zenon
          <5> QED  BY <5>1, KeyFacts, Zenon DEF Counted, PhaseInv, PhaseOK
        <4>3. /\ result[q][j] \in Nat /\ counter[CacheKey(q, j)] \in Nat
              /\ counter'[CacheKey(q, j)] \in Nat
          BY <1>m, <4>2, Numbers, Zenon
        <4>4. result[q][j] <= counter'[CacheKey(q, j)]  BY <4>1, <4>3, AtMost, Zenon
        <4> QED  BY <3>1, <3>2, <4>1, <4>4, Zenon
      <3> QED  BY <3>3, Zenon DEF SlotOK
    <2> QED  BY <2>1, <2>2
  \* The new range starts where the counter was, above every range before it.
  <1>10. ASSUME NEW q \in Request, NEW j \in Idx, <<q, j>> # <<p, i>>,
                Counted(q, j)', CacheKey(q, j)' = k, k \notin expired',
                counter'[k] < Word
         PROVE  result'[q][j] <= result'[p][i] - amount
    <2>1. result[q][j] <= counter[CacheKey(q, j)] /\ CacheKey(q, j) = k
      BY <1>3, <1>8, <1>10, Zenon
    <2>2. result'[q][j] = result[q][j] /\ result'[p][i] = counter[k] + amount
      BY <1>4, <1>7, <1>10, Zenon
    <2>3. result[q][j] \in Int  BY LimitInfoFacts
    <2> QED  BY <1>2, <2>1, <2>2, <2>3
  <1>11. NoSharedQuota'
    <2> SUFFICES ASSUME NEW q \in Request, NEW r \in Request,
                        NEW j \in Idx, NEW l \in Idx,
                        <<q, j>> # <<r, l>>, Counted(q, j)', Counted(r, l)',
                        CacheKey(q, j)' = CacheKey(r, l)',
                        CacheKey(q, j)' \notin expired',
                        counter'[CacheKey(q, j)'] < Word
                 PROVE  \/ result'[q][j] <= result'[r][l] - IncrAmount(r, l)'
                        \/ result'[r][l] <= result'[q][j] - IncrAmount(q, j)'
      BY DEF NoSharedQuota
    <2>1. CASE <<q, j>> = <<p, i>>
      BY <1>3, <1>10, <2>1, Zenon DEF k, amount
    <2>2. CASE <<r, l>> = <<p, i>>
      BY <1>3, <1>10, <2>2, Zenon DEF k, amount
    <2>3. CASE <<q, j>> # <<p, i>> /\ <<r, l>> # <<p, i>>
      <3>1. /\ Counted(q, j) /\ Counted(r, l) /\ CacheKey(q, j) = CacheKey(r, l)
            /\ CacheKey(q, j) \notin expired
        BY <1>1, <1>3, <1>4, <2>3
      <3>2. CacheKey(q, j) \in Key
        BY <3>1, KeyFacts, Zenon DEF Counted, PhaseInv, PhaseOK
      <3>3. counter[CacheKey(q, j)] < Word
        BY <1>3, <1>m, <3>2, WordAssumption
      <3>4. \/ result[q][j] <= result[r][l] - IncrAmount(r, l)
            \/ result[r][l] <= result[q][j] - IncrAmount(q, j)
        BY <3>1, <3>3, Zenon DEF NoSharedQuota
      <3> QED  BY <1>3, <1>4, <2>3, <3>4, Zenon
    <2> QED  BY <2>1, <2>2, <2>3, ZenonT(40)
  <1> QED  BY <1>9, <1>11

\* Every step but an INCRBY counts nothing.
LEMMA OtherStepsNoIncrement ==
    ASSUME TypeOK, PhaseInv, [Next]_vars,
           \A p \in Request, i \in Idx : ~IncrBy(p, i)
    PROVE  NoIncrement
  <1>1. ASSUME NEW p \in Request, GenerateCacheKeys(p) PROVE NoIncrement
    <2>1. \A i \in Idx : cmd[p][i] = "none"
      BY <1>1, Zenon DEF GenerateCacheKeys, PhaseInv, PhaseOK
    <2>2. \A q \in Request : q # p => SameCall(q)
      BY <1>1, Zenon DEF GenerateCacheKeys, SameCall, TypeOK
    <2> QED  BY <1>1, <2>1, <2>2, Zenon DEF GenerateCacheKeys, NoIncrement, Counted, redis
  <1>2. ASSUME NEW p \in Request, LookupLocalCache(p) PROVE NoIncrement
    <2>1. \A i \in Idx : cmd[p][i] = "none"
      BY <1>2, Zenon DEF LookupLocalCache, PhaseInv, PhaseOK
    <2>2. \A i \in Idx : ~Counted(p, i)'
      <3>1. TypeOK' /\ PhaseInv'  BY <1>2, LookupLocalCacheShape
      <3>2. CASE cmd' = cmd  BY <2>1, <3>2 DEF Counted
      <3>3. CASE cmd' # cmd
        <4> PICK over : cmd' = [cmd EXCEPT ![p] =
                                  Pipeline(p, over, FirstCommand(p, over))]
          BY <1>2, <3>3, Zenon DEF LookupLocalCache
        <4>1. FirstCommand(p, over) \in {"get", "incrby"}  BY DEF FirstCommand
        <4>2. \A i \in Idx : cmd'[p][i] \in {"none", "get", "incrby"}
          BY <4>1, PipelineFacts DEF TypeOK, Commands
        <4> QED  BY <4>2, SMTT(30) DEF Counted
      <3> QED  BY <3>2, <3>3
    <2>3. \A q \in Request : q # p => SameCall(q) /\ cmd'[q] = cmd[q]
      BY <1>2, Zenon DEF LookupLocalCache, SameCall, TypeOK, given
    <2>4. \A i \in Idx : ~Counted(p, i)  BY <2>1, Zenon DEF Counted
    <2>5. ASSUME NEW q \in Request, NEW j \in Idx
          PROVE  (Counted(q, j)' <=> Counted(q, j)) /\ (Counted(q, j) => SameCall(q))
      BY <2>2, <2>3, <2>4, Zenon DEF Counted
    <2> QED  BY <1>2, <2>5, Zenon DEF LookupLocalCache, NoIncrement, redis
  <1>3. ASSUME NEW p \in Request, NEW i \in Idx, Get(p, i) PROVE NoIncrement
    <2>1. TypeOK' /\ PhaseInv'  BY <1>3, GetShape, Zenon
    <2>2. \A j \in Idx : ~Counted(p, j)'
      <3>1. pc[p] = "get" /\ \A j \in Idx : cmd[p][j] \in {"none", "get", "got"}
        BY <1>3, Zenon DEF Get, PhaseInv, PhaseOK
      <3>2. CASE cmd' = [cmd EXCEPT ![p][i] = "got"]
        BY <3>1, <3>2, Zenon DEF Counted, TypeOK
      <3>3. CASE cmd' = [cmd EXCEPT ![p] = Pipeline(p, {}, "incrby")]
        <4>1. \A j \in Idx : Pipeline(p, {}, "incrby")[j] \in {"none", "incrby"}
          BY PipelineFacts DEF Commands
        <4>2. cmd'[p] = Pipeline(p, {}, "incrby")  BY <3>3, Zenon DEF TypeOK
        <4> QED  BY <4>1, <4>2 DEF Counted
      <3> QED  BY <1>3, <3>2, <3>3, Zenon DEF Get
    <2>3. \A q \in Request : q # p => SameCall(q) /\ cmd'[q] = cmd[q]
      BY <1>3, ZenonT(30) DEF Get, SameCall, TypeOK, given
    <2>4. \A j \in Idx : ~Counted(p, j)
      BY <1>3, Zenon DEF Get, PhaseInv, PhaseOK, Counted
    <2>5. ASSUME NEW q \in Request, NEW j \in Idx
          PROVE  (Counted(q, j)' <=> Counted(q, j)) /\ (Counted(q, j) => SameCall(q))
      BY <2>2, <2>3, <2>4, Zenon DEF Counted
    <2> QED  BY <1>3, <2>5, Zenon DEF Get, NoIncrement, redis
  <1>4. ASSUME NEW p \in Request, NEW i \in Idx, Expire(p, i) PROVE NoIncrement
    <2>1. \A q \in Request : SameCall(q)  BY <1>4, Zenon DEF Expire, SameCall, given
    <2>2. \A q \in Request, j \in Idx : Counted(q, j)' = Counted(q, j)
      BY <1>4 DEF Expire, Counted, TypeOK
    <2> QED  BY <1>4, <2>1, <2>2, Zenon DEF Expire, NoIncrement
  <1>5. ASSUME NEW p \in Request, Reply(p) \/ Fail(p) PROVE NoIncrement
    BY <1>5, Zenon DEF Reply, Fail, NoIncrement, SameCall, Counted, redis, given
  <1>6. CASE Tick \/ \E k \in Key : RedisExpire(k) \/ Evict(k)
    BY <1>6, SMTT(30)
       DEF Tick, RedisExpire, Evict, NoIncrement, SameCall, Counted,
                redis, given, frame, TypeOK
  <1>7. CASE UNCHANGED vars
    BY <1>7, Zenon DEF vars, NoIncrement, SameCall, Counted, redis, given, frame
  <1> QED  BY <1>1, <1>2, <1>3, <1>4, <1>5, <1>6, <1>7, NextCases, Zenon

\* The strengthened quota invariant holds in every reachable state.
LEMMA SlotsHold == Spec /\ []Typed => [](SlotInv /\ NoSharedQuota)
  <1>1. Init => SlotInv /\ NoSharedQuota
    BY DEF Init, SlotInv, SlotOK, NoSharedQuota, Counted
  <1>2. TypeOK /\ PhaseInv /\ SlotInv /\ NoSharedQuota /\ [Next]_vars
          => SlotInv' /\ NoSharedQuota'
    <2> SUFFICES ASSUME TypeOK, PhaseInv, SlotInv, NoSharedQuota, [Next]_vars
                 PROVE  SlotInv' /\ NoSharedQuota'
      OBVIOUS
    <2>1. CASE \E p \in Request, i \in Idx : IncrBy(p, i)
      BY <2>1, IncrByKeepsQuota
    <2>2. CASE \A p \in Request, i \in Idx : ~IncrBy(p, i)
      BY <2>2, OtherStepsNoIncrement, NoIncrementKeepsQuota
    <2> QED  BY <2>1, <2>2
  <1> QED  BY <1>1, <1>2, PTL DEF Spec, Typed

\* A counter that has not expired only grows.
LEMMA CounterGrows ==
    ASSUME TypeOK, PhaseInv, [Next]_vars
    PROVE  \A k \in Key : k \notin expired' =>
             k \notin expired /\ counter[k] <= counter'[k]
  <1>1. \A k \in Key : counter[k] \in Nat  BY Zenon DEF TypeOK
  <1>2. ASSUME NEW p \in Request, NEW i \in Idx, IncrBy(p, i), NEW k \in Key
        PROVE  expired' = expired /\ counter[k] <= counter'[k]
    <2>1. /\ expired' = expired
          /\ counter' = [counter EXCEPT ![CacheKey(p, i)] =
                           counter[CacheKey(p, i)] + IncrAmount(p, i)]
      BY <1>2, Zenon DEF IncrBy
    <2>2. IncrAmount(p, i) \in Nat  BY AmountType
    <2>3. counter'[k] = counter[k] \/ counter'[k] = counter[k] + IncrAmount(p, i)
      BY <2>1, ZenonT(40) DEF TypeOK
    <2> QED  BY <1>1, <2>1, <2>2, <2>3
  <1>3. CASE \E p \in Request, i \in Idx : IncrBy(p, i)
    BY <1>2, <1>3, Zenon
  <1>4. CASE \A p \in Request, i \in Idx : ~IncrBy(p, i)
    BY <1>1, <1>4, OtherStepsNoIncrement DEF NoIncrement
  <1> QED  BY <1>3, <1>4, Zenon

(***************************************************************************)
(* The local cache.  Its refusals are right when every rule keeps its      *)
(* limit, that is between two reloads and without overrides.               *)
(***************************************************************************)
LimitsStatic(rpu) ==
    /\ rpu \in [Descriptor -> Nat]
    /\ \A c \in Calls : \A i \in 1..c.n :
         c.desc[i] # NoLimit => c.limit[i] = rpu[c.desc[i]]

LimitInv(rpu) ==
    \A p \in Request : \A i \in Idx :
       HasKey(p, i) => args[p].limit[i] = rpu[args[p].desc[i]]

LocalInv(rpu) ==
    \A k \in Key : localCache[k] # Absent /\ k \notin expired
                     => counter[k] > rpu[k[1]]


\* Every call carries the configured limits, in every step.
LEMMA LimitInvNext ==
    ASSUME NEW rpu, LimitsStatic(rpu), TypeOK, LimitInv(rpu), [Next]_vars
    PROVE  LimitInv(rpu)'
  <1>1. ASSUME NEW p \in Request, GenerateCacheKeys(p) PROVE LimitInv(rpu)'
    <2> PICK c \in Calls : args' = [args EXCEPT ![p] = c]
      BY <1>1, Zenon DEF GenerateCacheKeys
    <2>1. c \in Call  BY RuleAssumption
    <2> QED  BY <2>1 DEF LimitsStatic, LimitInv, HasKey, Used, TypeOK
  <1>2. CASE args' = args
    BY <1>2, Zenon DEF LimitInv, HasKey, Used
  <1>3. args' = args \/ \E p \in Request : GenerateCacheKeys(p)
    BY NextCases, ZenonT(30)
       DEF LookupLocalCache, Get, IncrBy, Expire, Reply, Fail, Tick,
                     RedisExpire, Evict, vars, frame, given
  <1> QED  BY <1>1, <1>2, <1>3, Zenon

\* What the local cache holds was over its limit, in every step.
LEMMA LocalInvNext ==
    ASSUME NEW rpu, LimitsStatic(rpu), TypeOK, TypeOK', PhaseInv, SlotInv,
           LimitInv(rpu), LocalInv(rpu), [Next]_vars
    PROVE  LocalInv(rpu)'
  <1>1. \A k \in Key : counter[k] \in Nat /\ rpu[k[1]] \in Nat
    BY Zenon DEF TypeOK, LimitsStatic, Key
  <1>3. \A k \in Key : counter'[k] \in Nat  BY Zenon DEF TypeOK
  \* Entries that were there before: the counter has only grown.
  <1>4. ASSUME NEW k \in Key, localCache[k] # Absent, k \notin expired'
        PROVE  counter'[k] > rpu[k[1]]
    BY <1>1, <1>3, <1>4, CounterGrows DEF LocalInv
  <1>5. CASE \A k \in Key : localCache'[k] # Absent => localCache[k] # Absent
    BY <1>4, <1>5, Zenon DEF LocalInv
  <1>6. ASSUME NEW p \in Request, Reply(p) PROVE LocalInv(rpu)'
    <2> DEFINE i == idx[p]
               k == CacheKey(p, i)
    <2>1. i \in Idx /\ UNCHANGED <<counter, expired>>
      BY <1>6, ReplyShape, ZenonT(30) DEF Reply, redis
    <2>2. CASE HasKey(p, i) /\ SetsLocalCache(i \in overLocal[p], LimitInfo(p, i))
      <3>1. i \notin overLocal[p] /\ result[p][i] > args[p].limit[i]
        BY <2>1, <2>2, LimitInfoFacts, Zenon DEF SetsLocalCache, IsOverLimitThresholdReached
      <3>2. Counted(p, i)
        BY <1>6, <2>1, <2>2, <3>1, Zenon DEF Reply, PhaseInv, PhaseOK, Counted
      <3>3. k \in Key /\ k[1] = args[p].desc[i]  BY <2>1, <2>2, KeyFacts, Zenon
      <3>4. args[p].limit[i] = rpu[k[1]]  BY <2>1, <2>2, <3>3, Zenon DEF LimitInv
      <3>5. args[p].limit[i] \in 0..(Word - 1) /\ result[p][i] \in Nat
        BY <2>1, CallFacts, Numbers, Zenon
      <3>6. k \notin expired => counter[k] > rpu[k[1]]
        <4> HIDE DEF k
        <4>1. counter[k] \in Nat /\ Word \in Nat  BY <1>1, <3>3, WordAssumption, Zenon
        <4>2. k \notin expired /\ counter[k] < Word => result[p][i] <= counter[k]
          BY <2>1, <3>2, Zenon DEF SlotInv, SlotOK, k
        <4>3. k \notin expired => counter[k] > args[p].limit[i]
          BY <3>1, <3>5, <4>1, <4>2, OverOrWide, Zenon
        <4> QED  BY <3>4, <4>3, Zenon
      <3>7. \A l \in Key : l # k => localCache'[l] = localCache[l]
        BY <1>6, Zenon DEF Reply, TypeOK
      <3> QED  BY <1>4, <2>1, <3>6, <3>7, Zenon DEF LocalInv
    <2>3. CASE ~(HasKey(p, i) /\ SetsLocalCache(i \in overLocal[p], LimitInfo(p, i)))
      <3>1. localCache' = localCache  BY <1>6, <2>3, Zenon DEF Reply
      <3> QED  BY <1>5, <3>1, Zenon
    <2> QED  BY <2>2, <2>3, Zenon
  <1>7. CASE \A p \in Request : ~Reply(p)
    <2>1. \A k \in Key : localCache'[k] # Absent => localCache[k] # Absent
      BY <1>7, NextCases, ZenonT(30)
         DEF GenerateCacheKeys, LookupLocalCache, Get, IncrBy, Expire, Fail, Tick,
             RedisExpire, Evict, vars, TypeOK
    <2> QED  BY <1>5, <2>1, Zenon
  <1> QED  BY <1>6, <1>7

\* Every answer from the local cache is sound, in every step.
LEMMA LocalCacheSoundNext ==
    ASSUME NEW rpu, LimitsStatic(rpu), TypeOK, TypeOK', PhaseInv, PhaseInv',
           SlotInv, LimitInv(rpu), LocalInv(rpu), LocalCacheSound, [Next]_vars
    PROVE  LocalCacheSound'
  <1> SUFFICES ASSUME NEW p \in Request, NEW i \in overLocal'[p],
                      CacheKey(p, i)' \notin expired'
               PROVE  counter'[CacheKey(p, i)'] > args'[p].limit[i]
    BY Zenon DEF LocalCacheSound
  <1>1. TypeOK' /\ PhaseInv'  OBVIOUS
  <1>2. i \in Idx  BY <1>1, Zenon DEF TypeOK
  \* A refusal from before: the call is the same and the counter has only grown.
  <1>3. CASE SameCall(p)
    <2>1. i \in overLocal[p] /\ args'[p] = args[p]  BY <1>3, Zenon DEF SameCall
    <2>2. CacheKey(p, i)' = CacheKey(p, i)  BY <1>2, <1>3, SameCallFrame, Zenon
    <2>3. HasKey(p, i)  BY <1>2, <2>1, Zenon DEF PhaseInv, PhaseOK
    <2>4. CacheKey(p, i) \in Key  BY <1>2, <2>3, KeyFacts, Zenon
    <2>5. /\ CacheKey(p, i) \notin expired
          /\ counter[CacheKey(p, i)] <= counter'[CacheKey(p, i)]
      BY <2>2, <2>4, CounterGrows, Zenon
    <2>6. counter[CacheKey(p, i)] > args[p].limit[i]
      BY <2>1, <2>5, Zenon DEF LocalCacheSound
    <2>7. counter[CacheKey(p, i)] \in Nat /\ counter'[CacheKey(p, i)] \in Nat
      BY <1>1, <2>4, Zenon DEF TypeOK
    <2>8. args[p].limit[i] \in Nat  BY <1>2, CallFacts
    <2> QED  BY <2>1, <2>2, <2>5, <2>6, <2>7, <2>8
  <1>4. CASE LookupLocalCache(p)
    <2>1. UNCHANGED <<args, readAt, counter, expired>>
      BY <1>4, Zenon DEF LookupLocalCache, redis, given
    <2>2. CacheKey(p, i)' = CacheKey(p, i)  BY <2>1, Zenon DEF CacheKey
    <2>3. CASE i \in overLocal[p]
      BY <2>1, <2>2, <2>3, Zenon DEF LocalCacheSound
    <2>4. CASE i \notin overLocal[p]
      <3>1. HasKey(p, i) /\ IsOverLimitWithLocalCache(CacheKey(p, i))
        BY <1>4, <2>4, ZenonT(30) DEF LookupLocalCache, TypeOK
      <3>2. CacheKey(p, i) \in Key /\ CacheKey(p, i)[1] = args[p].desc[i]
        BY <1>2, <3>1, KeyFacts, Zenon
      <3>3. localCache[CacheKey(p, i)] # Absent
        <4>0. now \in 0..MaxTime  BY Zenon DEF TypeOK
        <4>1. now \in Nat  BY <4>0, BoundsAssumption
        <4>2. ~(Absent > now)  BY <4>1 DEF Absent
        <4> QED  BY <3>1, <4>2, Zenon DEF IsOverLimitWithLocalCache
      <3>4. args[p].limit[i] = rpu[args[p].desc[i]]
        BY <1>2, <3>1, Zenon DEF LimitInv
      <3> QED  BY <2>1, <2>2, <3>2, <3>3, <3>4, Zenon DEF LocalInv
    <2> QED  BY <2>3, <2>4, Zenon
  <1>5. CASE GenerateCacheKeys(p) \/ \E j \in Idx : Get(p, j)
    <2>1. pc[p] \in {"idle", "get"} /\ overLocal' = overLocal
      BY <1>5, Zenon DEF GenerateCacheKeys, Get
    <2>2. PhaseOK(p, 1)  BY BoundsAssumption, SMTT(30) DEF PhaseInv, Idx
    <2>3. overLocal[p] = {}  BY <2>1, <2>2, Zenon DEF PhaseOK
    <2> QED  BY <2>1, <2>3, Zenon
  <1>6. SameCall(p) \/ LookupLocalCache(p) \/ GenerateCacheKeys(p)
          \/ \E j \in Idx : Get(p, j)
    <2>1. ASSUME NEW q \in Request,
                 GenerateCacheKeys(q) \/ LookupLocalCache(q), q # p
          PROVE  SameCall(p)
      BY <2>1, ZenonT(30)
         DEF SameCall, GenerateCacheKeys, LookupLocalCache, given, TypeOK
    <2>2. ASSUME NEW q \in Request, NEW j \in Idx, Get(q, j), q # p
          PROVE  SameCall(p)
      BY <2>2, ZenonT(40) DEF SameCall, Get, given, TypeOK
    <2>3. ASSUME NEW q \in Request, Reply(q) \/ Fail(q) PROVE SameCall(p)
      BY <2>3, Zenon DEF SameCall, Reply, Fail, given
    <2>4. ASSUME NEW q \in Request, NEW j \in Idx, IncrBy(q, j) \/ Expire(q, j)
          PROVE  SameCall(p)
      BY <2>4, Zenon DEF SameCall, IncrBy, Expire, given
    <2>5. CASE Tick \/ (\E k \in Key : RedisExpire(k) \/ Evict(k)) \/ UNCHANGED vars
      BY <2>5, Zenon DEF SameCall, Tick, RedisExpire, Evict, vars, frame, given
    <2> QED  BY <2>1, <2>2, <2>3, <2>4, <2>5, NextCases, Zenon
  <1> QED  BY <1>3, <1>4, <1>5, <1>6, Zenon

\* With static limits every refusal from the local cache is one Redis would
\* have given, for any number of calls and any eviction.
LEMMA LocalCacheHolds ==
    ASSUME NEW CONSTANT rpu, LimitsStatic(rpu)
    PROVE  Spec /\ []Typed => [](LimitInv(rpu) /\ LocalCacheSound)
  <1> DEFINE I == LimitInv(rpu) /\ LocalInv(rpu) /\ LocalCacheSound
  <1>1. Init => I
    <2> SUFFICES ASSUME Init PROVE I  OBVIOUS
    <2>1. LimitInv(rpu)
      <3>1. \A p \in Request : args[p].desc = [i \in Idx |-> NoLimit]  BY DEF Init
      <3> QED  BY <3>1, Zenon DEF LimitInv, HasKey, Used
    <2>2. LocalInv(rpu) /\ LocalCacheSound
      BY Zenon DEF Init, LocalInv, LocalCacheSound
    <2> QED  BY <2>1, <2>2
  <1>2. TypeOK /\ PhaseInv /\ TypeOK' /\ PhaseInv' /\ SlotInv /\ I /\ [Next]_vars => I'
    BY LimitInvNext, LocalInvNext, LocalCacheSoundNext, Zenon
  <1>3. I => LimitInv(rpu) /\ LocalCacheSound  OBVIOUS
  <1> HIDE DEF I
  <1> QED  BY <1>1, <1>2, <1>3, SlotsHold, PTL DEF Spec, Typed

(***************************************************************************)
(* Answers.  AnswerInv says how far the answers of a call are: no slot is  *)
(* answered before the commands of its call are done, or twice.            *)
(***************************************************************************)
NoOverflow == \A k \in Key : counter[k] < Word

AnswerOK(p) ==
    /\ pc[p] = "idle" => \A i \in Idx : ~HasKey(p, i)
    /\ pc[p] \in {"idle", "local", "get", "incr"} =>
         \A i \in Idx : status[p][i].code = "none"
    /\ pc[p] \in {"get", "incr"} => idx[p] = 1
    /\ pc[p] = "reply" => \A i \in Idx : i >= idx[p] => status[p][i].code = "none"

AnswerInv == \A p \in Request : AnswerOK(p)

\* A call that the step does not touch.
Untouched(p) ==
    /\ args'[p] = args[p] /\ readAt'[p] = readAt[p] /\ overLocal'[p] = overLocal[p]
    /\ cmd'[p] = cmd[p] /\ result'[p] = result[p] /\ status'[p] = status[p]

\* A call that a step of another call leaves alone keeps AnswerOK.
LEMMA AnswerFrame ==
    ASSUME AnswerInv, NEW p \in Request, AnswerOK(p)',
           \A q \in Request : q # p =>
              /\ pc'[q] = pc[q] /\ args'[q] = args[q]
              /\ idx'[q] = idx[q] /\ status'[q] = status[q]
    PROVE  AnswerInv'
  <1>1. ASSUME NEW q \in Request, q # p PROVE AnswerOK(q)'
    BY <1>1 DEF AnswerInv, AnswerOK, HasKey, Used
  <1> QED  BY <1>1, Zenon DEF AnswerInv

\* A descriptor is answered once, after the commands of its call.
LEMMA AnswerNext ==
    ASSUME TypeOK, PhaseInv, AnswerInv, [Next]_vars
    PROVE  AnswerInv'
  <1>1. ASSUME NEW p \in Request, GenerateCacheKeys(p) PROVE AnswerInv'
    <2>1. AnswerOK(p)'
      BY <1>1, Zenon DEF GenerateCacheKeys, AnswerInv, AnswerOK, TypeOK
    <2> QED
      BY <1>1, <2>1, AnswerFrame, Zenon DEF GenerateCacheKeys, TypeOK
  <1>2. ASSUME NEW p \in Request, LookupLocalCache(p) PROVE AnswerInv'
    <2>1. /\ pc[p] = "local" /\ UNCHANGED <<args, status>>
          /\ \/ pc' = pc
             \/ /\ idx' = [idx EXCEPT ![p] = 1]
                /\ \E over : pc' = [pc EXCEPT ![p] = NextPhase(p, over)]
          /\ \A q \in Request : q # p => idx'[q] = idx[q] /\ pc'[q] = pc[q]
      BY <1>2, Zenon DEF LookupLocalCache, given, TypeOK
    <2>2. pc'[p] = "local" \/ (idx'[p] = 1 /\ pc'[p] \in {"get", "incr", "reply"})
      BY <2>1, Zenon DEF TypeOK, NextPhase
    <2>3. AnswerOK(p)'  BY <2>1, <2>2, Zenon DEF AnswerInv, AnswerOK
    <2> QED  BY <2>1, <2>3, AnswerFrame, Zenon
  <1>3. ASSUME NEW p \in Request, NEW i \in Idx, Get(p, i) \/ IncrBy(p, i) \/ Expire(p, i)
        PROVE  AnswerInv'
    <2>1. /\ pc[p] \in {"get", "incr"} /\ UNCHANGED <<args, idx, status>>
          /\ pc'[p] \in {pc[p], "incr", "reply"}
          /\ \A q \in Request : q # p => pc'[q] = pc[q]
      BY <1>3, Zenon DEF Get, IncrBy, Expire, given, TypeOK
    <2>2. AnswerOK(p)'  BY <2>1, Zenon DEF AnswerInv, AnswerOK
    <2> QED  BY <2>1, <2>2, AnswerFrame, Zenon
  <1>4. ASSUME NEW p \in Request, Reply(p) PROVE AnswerInv'
    <2>1. idx[p] \in Idx /\ idx[p] \in Nat  BY <1>4, ReplyShape DEF Idx
    <2>2. /\ pc[p] = "reply" /\ UNCHANGED args
          /\ status' = [status EXCEPT ![p][idx[p]] = Status(p, idx[p])]
          /\ \/ idx' = [idx EXCEPT ![p] = idx[p] + 1] /\ pc' = pc
             \/ pc' = [pc EXCEPT ![p] = "done"] /\ idx' = idx
      BY <1>4, Zenon DEF Reply, given
    <2>3. \A q \in Request : q # p =>
             pc'[q] = pc[q] /\ idx'[q] = idx[q] /\ status'[q] = status[q]
      BY <2>2, Zenon DEF TypeOK
    <2>4. \A i \in Idx : i # idx[p] => status'[p][i] = status[p][i]
      BY <2>1, <2>2, Zenon DEF TypeOK
    <2>5. \/ pc'[p] = "reply" /\ idx'[p] = idx[p] + 1
          \/ pc'[p] = "done"
      BY <2>2, Zenon DEF TypeOK
    <2>6. \A i \in Idx : i >= idx[p] + 1 => i >= idx[p] /\ i # idx[p]
      BY <2>1 DEF Idx
    <2>7. AnswerOK(p)'  BY <2>1, <2>2, <2>4, <2>5, <2>6 DEF AnswerInv, AnswerOK
    <2> QED  BY <2>2, <2>3, <2>7, AnswerFrame, Zenon
  <1>5. ASSUME NEW p \in Request, Fail(p) PROVE AnswerInv'
    <2>1. pc'[p] = "failed" /\ \A q \in Request : q # p => pc'[q] = pc[q]
      BY <1>5, Zenon DEF Fail, TypeOK
    <2>2. AnswerOK(p)'  BY <2>1 DEF AnswerOK
    <2> QED  BY <1>5, <2>1, <2>2, AnswerFrame, Zenon DEF Fail, given
  <1>6. CASE Tick \/ (\E k \in Key : RedisExpire(k) \/ Evict(k)) \/ UNCHANGED vars
    <2>1. UNCHANGED <<pc, args, idx, status>>
      BY <1>6, Zenon DEF Tick, RedisExpire, Evict, vars, frame, given
    <2> QED  BY <2>1, Zenon DEF AnswerInv, AnswerOK, HasKey, Used
  <1> QED  BY <1>1, <1>2, <1>3, <1>4, <1>5, <1>6, NextCases, Zenon
\* No call has been answered at first.
LEMMA AnswerInit == Init => AnswerInv
  <1> SUFFICES ASSUME Init PROVE AnswerInv  OBVIOUS
  <1>1. ASSUME NEW p \in Request, NEW i \in Idx
        PROVE  ~HasKey(p, i) /\ status[p][i].code = "none"
    <2>1. args[p].desc[i] = NoLimit  BY DEF Init
    <2>2. status[p][i].code = "none"  BY Zenon DEF Init, NoStatus
    <2> QED  BY <2>1, <2>2, Zenon DEF HasKey
  <1>2. \A p \in Request : pc[p] = "idle"  BY Zenon DEF Init
  <1> QED  BY <1>1, <1>2, Zenon DEF AnswerInv, AnswerOK

(***************************************************************************)
(* Stop mode.  A call of several descriptors that no local entry refuses   *)
(* reads its counters before it counts.  What it read is not above the     *)
(* counter while the key lives, and is over the limit where the counter    *)
(* already was when the call began; a key it then counts although its hits *)
(* do not fit goes over.                                                   *)
(***************************************************************************)
\* Every counter has room for the hits of one more call.
HeadRoom == \A k \in Key, p \in Request : counter[k] + HitsAddend(p) < Word

\* The GETs of call p, if it had any, are behind it.
ReadAll(p) == \E i \in Idx : cmd[p][i] \in {"incrby", "expire", "sent"}

ReadsOK(p) == pc[p] = "get" => ReadsFirst(p, overLocal[p])

OverOK(p, i) ==
    i \in overAtStart[p] =>
      /\ HasKey(p, i)
      /\ CacheKey(p, i) \notin expired => counter[CacheKey(p, i)] > args[p].limit[i]

ReadOK(p, i) ==
    /\ HasKey(p, i) /\ CacheKey(p, i) \notin expired
    /\ ReadsFirst(p, overLocal[p])
    /\ (cmd[p][i] = "got" \/ ReadAll(p))
    => /\ current[p][i] <= counter[CacheKey(p, i)]
       /\ i \in overAtStart[p] => current[p][i] > args[p].limit[i]

NearOK(p, i) ==
    Counted(p, i) /\ NearLimit(p, i) /\ CacheKey(p, i) \notin expired
      => result[p][i] > args[p].limit[i]

StopOK(p) ==
    ReadsOK(p) /\ \A i \in Idx : OverOK(p, i) /\ ReadOK(p, i) /\ NearOK(p, i)

StopInv == \A p \in Request : StopOK(p)

\* A step in which call p reads and counts nothing.
Rests(p) ==
    /\ SameCall(p) /\ overAtStart'[p] = overAtStart[p] /\ result'[p] = result[p]
    /\ pc'[p] = "get" => pc[p] = "get"
    /\ ReadAll(p)' => ReadAll(p)
    /\ \A i \in Idx : /\ cmd'[p][i] = "got" => cmd[p][i] = "got"
                      /\ Counted(p, i)' => Counted(p, i)

\* What a call may raise depends only on what it was given.
LEMMA SameNearLimit ==
    ASSUME NEW p \in Request, NEW i \in Idx, SameCall(p)
    PROVE  NearLimit(p, i)' = NearLimit(p, i)
  BY Zenon DEF SameCall, NearLimit, ReadsFirst, HasKey, Used, HitsAddend

\* The key of a call that is not asked anew, and what its counter does.
LEMMA KeyStays ==
    ASSUME TypeOK, TypeOK', PhaseInv, [Next]_vars, NEW p \in Request, NEW i \in Idx,
           SameCall(p), HasKey(p, i), CacheKey(p, i)' \notin expired'
    PROVE  /\ CacheKey(p, i)' = CacheKey(p, i) /\ CacheKey(p, i) \notin expired
           /\ counter[CacheKey(p, i)] \in Nat /\ counter'[CacheKey(p, i)] \in Nat
           /\ counter[CacheKey(p, i)] <= counter'[CacheKey(p, i)]
  <1>1. CacheKey(p, i)' = CacheKey(p, i) /\ CacheKey(p, i) \in Key
    BY SameCallFrame, KeyFacts, Zenon
  <1> QED  BY <1>1, CounterGrows, Zenon DEF TypeOK

\* A counter that was over stays over.
LEMMA StillOver ==
    ASSUME TypeOK, TypeOK', PhaseInv, [Next]_vars, NEW p \in Request, NEW i \in Idx,
           SameCall(p), overAtStart'[p] = overAtStart[p], OverOK(p, i)
    PROVE  OverOK(p, i)'
  <1> SUFFICES ASSUME i \in overAtStart[p]
               PROVE  /\ HasKey(p, i)'
                      /\ CacheKey(p, i)' \notin expired' =>
                           counter'[CacheKey(p, i)'] > args'[p].limit[i]
    BY Zenon DEF OverOK
  <1>1. HasKey(p, i) /\ HasKey(p, i)' /\ args'[p] = args[p]
    BY SameCallFrame, Zenon DEF OverOK, SameCall
  <1>2. ASSUME CacheKey(p, i)' \notin expired'
        PROVE  counter'[CacheKey(p, i)'] > args'[p].limit[i]
    <2> DEFINE k == CacheKey(p, i)
    <2>1. /\ k' = k /\ k \notin expired /\ counter[k] \in Nat /\ counter'[k] \in Nat
          /\ counter[k] <= counter'[k]
      BY <1>1, <1>2, KeyStays, Zenon
    <2>2. counter[k] > args[p].limit[i]  BY <2>1, Zenon DEF OverOK
    <2>3. args[p].limit[i] \in Int  BY CallFacts
    <2>4. counter'[k] > args[p].limit[i]
      <3> HIDE DEF k
      <3> QED  BY <2>1, <2>2, <2>3
    <2> QED  BY <1>1, <2>1, <2>4, Zenon
  <1> QED  BY <1>1, <1>2, Zenon

\* What was read of a key stays below its counter.
LEMMA StillRead ==
    ASSUME TypeOK, TypeOK', PhaseInv, [Next]_vars, NEW p \in Request, NEW i \in Idx,
           SameCall(p), overAtStart'[p] = overAtStart[p], ReadOK(p, i),
           (cmd'[p][i] = "got" \/ ReadAll(p)') => (cmd[p][i] = "got" \/ ReadAll(p))
    PROVE  ReadOK(p, i)'
  <1> SUFFICES ASSUME HasKey(p, i)', CacheKey(p, i)' \notin expired',
                      ReadsFirst(p, overLocal[p])',
                      cmd'[p][i] = "got" \/ ReadAll(p)'
               PROVE  /\ current'[p][i] <= counter'[CacheKey(p, i)']
                      /\ i \in overAtStart'[p] => current'[p][i] > args'[p].limit[i]
    BY Zenon DEF ReadOK
  <1> DEFINE k == CacheKey(p, i)
  <1>1. HasKey(p, i) /\ ReadsFirst(p, overLocal[p])
    BY SameCallFrame, Zenon DEF SameCall, ReadsFirst
  <1>2. /\ k' = k /\ k \notin expired /\ counter[k] \in Nat /\ counter'[k] \in Nat
        /\ counter[k] <= counter'[k]
    BY <1>1, KeyStays, Zenon
  <1>3. /\ current[p][i] <= counter[k]
        /\ i \in overAtStart[p] => current[p][i] > args[p].limit[i]
    BY <1>1, <1>2, Zenon DEF ReadOK
  <1>4. current[p][i] \in Nat  BY Numbers, Zenon
  <1>5. current[p][i] <= counter'[k]
    <2> HIDE DEF k
    <2> QED  BY <1>2, <1>3, <1>4, AtMost, Zenon
  <1> QED  BY <1>2, <1>3, <1>5, Zenon DEF SameCall

\* A call that rests keeps what stop mode rests on.
LEMMA RestKeeps ==
    ASSUME TypeOK, TypeOK', PhaseInv, [Next]_vars, NEW p \in Request, Rests(p), StopOK(p)
    PROVE  StopOK(p)'
  <1>1. SameCall(p) /\ overAtStart'[p] = overAtStart[p]  BY Zenon DEF Rests
  <1>2. ReadsOK(p)'
    BY <1>1, Zenon DEF Rests, StopOK, ReadsOK, SameCall, ReadsFirst
  <1>3. ASSUME NEW i \in Idx PROVE OverOK(p, i)' /\ ReadOK(p, i)' /\ NearOK(p, i)'
    <2>1. OverOK(p, i) /\ ReadOK(p, i) /\ NearOK(p, i)  BY Zenon DEF StopOK
    <2>2. OverOK(p, i)'  BY <1>1, <2>1, StillOver, Zenon
    <2>3. ReadOK(p, i)'
      <3>1. (cmd'[p][i] = "got" \/ ReadAll(p)') => (cmd[p][i] = "got" \/ ReadAll(p))
        BY Zenon DEF Rests
      <3> QED  BY <1>1, <2>1, <3>1, StillRead, Zenon
    <2>4. NearOK(p, i)'
      <3> SUFFICES ASSUME Counted(p, i)', NearLimit(p, i)', CacheKey(p, i)' \notin expired'
                   PROVE  result'[p][i] > args'[p].limit[i]
        BY Zenon DEF NearOK
      <3>1. Counted(p, i) /\ NearLimit(p, i) /\ HasKey(p, i)
        BY <1>1, SameNearLimit, Zenon DEF Rests, NearLimit
      <3>2. CacheKey(p, i) \notin expired  BY <1>1, <3>1, KeyStays, Zenon
      <3> QED  BY <2>1, <3>1, <3>2, Zenon DEF NearOK, Rests, SameCall
    <2> QED  BY <2>2, <2>3, <2>4
  <1> QED  BY <1>2, <1>3, Zenon DEF StopOK

\* A call begins with nothing read and nothing counted.
LEMMA AskingKeeps ==
    ASSUME TypeOK, PhaseInv, StopInv, NEW p \in Request, GenerateCacheKeys(p)
    PROVE  StopOK(p)'
  <1> PICK c \in Calls :
        /\ args' = [args EXCEPT ![p] = c]
        /\ overAtStart' = [overAtStart EXCEPT ![p] =
             {i \in 1..c.n :
                /\ c.desc[i] # NoLimit
                /\ counter[<<c.desc[i], WindowStart(now, Unit[c.desc[i]])>>]
                     > c.limit[i]}]
    BY Zenon DEF GenerateCacheKeys
  <1>1. /\ pc[p] = "idle" /\ pc' = [pc EXCEPT ![p] = "local"]
        /\ readAt' = [readAt EXCEPT ![p] = now]
        /\ counter' = counter /\ expired' = expired /\ cmd' = cmd
    BY Zenon DEF GenerateCacheKeys, redis
  <1>2. pc'[p] # "get" /\ args'[p] = c /\ readAt'[p] = now
    BY <1>1, Zenon DEF TypeOK
  <1>3. overAtStart'[p] =
             {i \in 1..c.n :
                /\ c.desc[i] # NoLimit
                /\ counter[<<c.desc[i], WindowStart(now, Unit[c.desc[i]])>>]
                     > c.limit[i]}
    BY Zenon DEF TypeOK
  <1>4. ASSUME NEW i \in Idx PROVE cmd'[p][i] = "none" /\ OverOK(p, i)'
    <2>1. cmd'[p][i] = "none"  BY <1>1, Zenon DEF PhaseInv, PhaseOK
    <2>2. ASSUME i \in overAtStart'[p]
          PROVE  HasKey(p, i)' /\ counter'[CacheKey(p, i)'] > args'[p].limit[i]
      BY <1>1, <1>2, <1>3, <2>2, Zenon DEF HasKey, Used, CacheKey
    <2> QED  BY <2>1, <2>2, Zenon DEF OverOK
  <1> QED  BY <1>2, <1>4, Zenon DEF StopOK, ReadsOK, ReadOK, ReadAll, NearOK, Counted

\* The local lookups start a pipeline of GETs only where the counters are read
\* first.
LEMMA LookupKeeps ==
    ASSUME TypeOK, TypeOK', PhaseInv, StopInv, NEW p \in Request, LookupLocalCache(p)
    PROVE  StopOK(p)'
  <1>1. /\ pc[p] = "local"
        /\ UNCHANGED <<counter, expired, args, readAt, overAtStart>>
    BY Zenon DEF LookupLocalCache, redis, given
  <1>2. ASSUME NEW i \in Idx PROVE OverOK(p, i)'
    <2>1. OverOK(p, i)  BY Zenon DEF StopInv, StopOK
    <2> QED  BY <1>1, <2>1, Zenon DEF OverOK, HasKey, Used, CacheKey
  <1>3. \A i \in Idx : cmd[p][i] = "none"  BY <1>1, Zenon DEF PhaseInv, PhaseOK
  <1>4. CASE UNCHANGED <<pc, cmd>>
    <2>1. pc'[p] # "get" /\ \A i \in Idx : cmd'[p][i] = "none"  BY <1>1, <1>3, <1>4, Zenon
    <2> QED  BY <1>2, <2>1, Zenon DEF StopOK, ReadsOK, ReadOK, ReadAll, NearOK, Counted
  <1>5. ASSUME NEW over, overLocal' = [overLocal EXCEPT ![p] = over],
               pc' = [pc EXCEPT ![p] = NextPhase(p, over)],
               cmd' = [cmd EXCEPT ![p] = Pipeline(p, over, FirstCommand(p, over))]
        PROVE  StopOK(p)'
    <2> DEFINE c == FirstCommand(p, over)
    <2>1. /\ overLocal'[p] = over /\ pc'[p] = NextPhase(p, over)
          /\ cmd'[p] = Pipeline(p, over, c)
      BY <1>5, ZenonT(40) DEF TypeOK
    <2>2. c \in {"get", "incrby"} /\ (c = "incrby" => ~ReadsFirst(p, over))
      BY DEF FirstCommand
    <2>3. ReadsFirst(p, overLocal[p])' = ReadsFirst(p, over)
      BY <1>1, <2>1, Zenon DEF ReadsFirst
    <2> HIDE DEF c
    <2>4. \A i \in Idx : cmd'[p][i] \in {"none", c}
      <3>1. c \in Commands  BY <2>2, Zenon DEF Commands
      <3>2. \A i \in Idx : Pipeline(p, over, c)[i] = IF HasKey(p, i) /\ i \notin over
                                                     THEN c ELSE "none"
        BY <3>1, PipelineFacts, Zenon
      <3> QED  BY <2>1, <3>2, Zenon
    <2>5. ReadsOK(p)'
      <3>1. NextPhase(p, over) = "get" => ReadsFirst(p, over)  BY DEF NextPhase
      <3> QED  BY <2>1, <2>3, <3>1, Zenon DEF ReadsOK
    <2>6. ASSUME NEW i \in Idx PROVE ~Counted(p, i)' /\ cmd'[p][i] # "got"
      BY <2>2, <2>4 DEF Counted
    <2>7. ReadAll(p)' => ~ReadsFirst(p, over)
      <3>1. ReadAll(p)' => c = "incrby"  BY <2>2, <2>4 DEF ReadAll
      <3> QED  BY <2>2, <3>1, Zenon
    <2> QED  BY <1>2, <2>3, <2>5, <2>6, <2>7, Zenon DEF StopOK, ReadOK, NearOK
  <1> QED  BY <1>4, <1>5, Zenon DEF LookupLocalCache

\* A GET reads what the counter is.
LEMMA ReadingKeeps ==
    ASSUME TypeOK, TypeOK', PhaseInv, [Next]_vars, HeadRoom, StopInv,
           NEW p \in Request, NEW i \in Idx, Get(p, i)
    PROVE  StopOK(p)'
  <1> DEFINE k == CacheKey(p, i)
  <1>1. /\ pc[p] = "get" /\ cmd[p][i] = "get"
        /\ current' = [current EXCEPT ![p][i] = Uint32(counter[k])]
        /\ UNCHANGED <<counter, expired, args, readAt, overAtStart, overLocal, result>>
    BY Zenon DEF Get, redis, given
  <1>2. /\ ReadsFirst(p, overLocal[p]) /\ overLocal[p] = {}
        /\ ReadsFirst(p, overLocal[p])' /\ HasKey(p, i)
    <2>1. ReadsFirst(p, overLocal[p])  BY <1>1, Zenon DEF StopInv, StopOK, ReadsOK
    <2> QED  BY <1>1, <2>1, Zenon DEF PhaseInv, PhaseOK, ReadsFirst
  <1>3. ASSUME NEW j \in Idx
        PROVE  /\ OverOK(p, j) /\ ReadOK(p, j) /\ OverOK(p, j)'
               /\ HasKey(p, j)' = HasKey(p, j) /\ CacheKey(p, j)' = CacheKey(p, j)
    <2>1. OverOK(p, j) /\ ReadOK(p, j)  BY Zenon DEF StopInv, StopOK
    <2> QED  BY <1>1, <2>1, Zenon DEF OverOK, HasKey, Used, CacheKey
  <1>4. current'[p][i] = counter[k] /\ \A j \in Idx : j # i => current'[p][j] = current[p][j]
    <2>1. k \in Key  BY <1>2, KeyFacts, Zenon
    <2>2. counter[k] \in Nat /\ HitsAddend(p) \in Nat
      BY <2>1, Numbers, Zenon DEF TypeOK
    <2>3. counter[k] + HitsAddend(p) < Word  BY <2>1, Zenon DEF HeadRoom
    <2> HIDE DEF k
    <2>4. counter[k] \in 0..(Word - 1)  BY <2>2, <2>3, WordAssumption
    <2>5. Uint32(counter[k]) = counter[k]  BY <2>4, Uint32Range, WordAssumption
    <2>6. current[p] \in [Idx -> 0..(Word - 1)]  BY Zenon DEF TypeOK
    <2>7. current'[p] = [current[p] EXCEPT ![i] = counter[k]]
      BY <1>1, <2>5, ZenonT(40) DEF TypeOK
    <2> QED  BY <2>6, <2>7, Zenon
  <1>5. ASSUME NEW j \in Idx, cmd[p][j] = "got" \/ j = i, HasKey(p, j),
               CacheKey(p, j) \notin expired
        PROVE  /\ current'[p][j] <= counter[CacheKey(p, j)]
               /\ j \in overAtStart[p] => current'[p][j] > args[p].limit[j]
    <2>1. CASE j = i
      <3>1. counter[k] \in Nat  BY <1>2, KeyFacts, Zenon DEF TypeOK
      <3>2. counter[k] <= counter[k]
        <4> HIDE DEF k
        <4> QED  BY <3>1
      <3> QED  BY <1>3, <1>4, <1>5, <2>1, <3>2, Zenon DEF OverOK
    <2>2. CASE j # i
      BY <1>2, <1>3, <1>4, <1>5, <2>2, Zenon DEF ReadOK
    <2> QED  BY <2>1, <2>2
  <1>6. ASSUME NEW j \in Idx, HasKey(p, j) PROVE cmd[p][j] \in {"get", "got"}
    BY <1>1, <1>2, <1>6, Zenon DEF PhaseInv, PhaseOK
  <1>7. CASE cmd' = [cmd EXCEPT ![p][i] = "got"] /\ UNCHANGED pc
    <2>1. \A j \in Idx : cmd'[p][j] = IF j = i THEN "got" ELSE cmd[p][j]
      BY <1>7, ZenonT(40) DEF TypeOK
    <2>2. \A j \in Idx : cmd[p][j] \in {"none", "get", "got"}
      BY <1>1, Zenon DEF PhaseInv, PhaseOK
    <2>3. ~ReadAll(p)' /\ \A j \in Idx : ~Counted(p, j)'  BY <2>1, <2>2 DEF ReadAll, Counted
    <2>4. \A j \in Idx : cmd'[p][j] = "got" => cmd[p][j] = "got" \/ j = i  BY <2>1, Zenon
    <2>5. ReadsOK(p)'  BY <1>2, Zenon DEF ReadsOK
    <2>6. ASSUME NEW j \in Idx PROVE ReadOK(p, j)'
      BY <1>1, <1>3, <1>5, <2>3, <2>4, Zenon DEF ReadOK
    <2> QED  BY <1>3, <2>3, <2>5, <2>6, Zenon DEF StopOK, NearOK
  <1>8. CASE /\ \A j \in Idx : j # i => cmd[p][j] # "get"
             /\ cmd' = [cmd EXCEPT ![p] = Pipeline(p, {}, "incrby")]
             /\ pc' = [pc EXCEPT ![p] = "incr"]
    <2>1. cmd'[p] = Pipeline(p, {}, "incrby") /\ pc'[p] = "incr"
      BY <1>8, Zenon DEF TypeOK
    <2>2. \A j \in Idx : ~Counted(p, j)'
      <3>1. \A j \in Idx : Pipeline(p, {}, "incrby")[j] \in {"none", "incrby"}
        BY PipelineFacts DEF Commands
      <3> QED  BY <2>1, <3>1 DEF Counted
    <2>3. \A j \in Idx : HasKey(p, j) => cmd[p][j] = "got" \/ j = i
      BY <1>6, <1>8, Zenon
    <2>4. ReadsOK(p)'  BY <1>2, Zenon DEF ReadsOK
    <2>5. ASSUME NEW j \in Idx PROVE ReadOK(p, j)'
      BY <1>1, <1>3, <1>5, <2>3, Zenon DEF ReadOK
    <2> QED  BY <1>3, <2>2, <2>4, <2>5, Zenon DEF StopOK, NearOK
  <1> QED  BY <1>7, <1>8, Zenon DEF Get

\* With room in the counter, neither the sum that decides nor the INCRBY wraps.
LEMMA NoWrap ==
    ASSUME TypeOK, HeadRoom, NEW p \in Request, NEW i \in Idx, HasKey(p, i),
           NEW c \in Nat, c <= counter[CacheKey(p, i)]
    PROVE  Uint32(c + HitsAddend(p)) = c + HitsAddend(p)
  <1> DEFINE k == CacheKey(p, i)
             h == HitsAddend(p)
  <1>1. k \in Key  BY KeyFacts, Zenon
  <1>2. counter[k] \in Nat  BY <1>1, Zenon DEF TypeOK
  <1>3. h \in Nat  BY CallFacts
  <1>4. counter[k] + h < Word  BY <1>1, Zenon DEF HeadRoom
  <1>5. c <= counter[k]  OBVIOUS
  <1> HIDE DEF k, h
  <1>6. c + h \in Int /\ c + h \in 0..(Word - 1)
    BY <1>2, <1>3, <1>4, <1>5, WordAssumption
  <1>7. Uint32(c + h) = c + h  BY <1>6, Uint32Range, Zenon
  <1> QED  BY <1>7 DEF h

\* A key that is counted although its hits do not fit goes over its limit.
LEMMA CountingKeeps ==
    ASSUME TypeOK, TypeOK', PhaseInv, [Next]_vars, HeadRoom, StopInv,
           NEW p \in Request, NEW i \in Idx, IncrBy(p, i)
    PROVE  StopOK(p)'
  <1> DEFINE k == CacheKey(p, i)
             h == HitsAddend(p)
  <1>1. /\ cmd[p][i] = "incrby" /\ pc' = pc
        /\ result' = [result EXCEPT ![p][i] = IncrByReply(p, i)]
        /\ cmd' = [cmd EXCEPT ![p][i] = "expire"]
        /\ expired' = expired /\ SameCall(p) /\ overAtStart'[p] = overAtStart[p]
    BY Zenon DEF IncrBy, AfterIncrBy, given, SameCall
  <1>2. ReadAll(p)  BY <1>1, Zenon DEF ReadAll
  <1>3. ReadsOK(p)'
    BY <1>1, Zenon DEF StopInv, StopOK, ReadsOK, SameCall, ReadsFirst
  <1>4. ASSUME NEW j \in Idx
        PROVE  OverOK(p, j)' /\ ReadOK(p, j)' /\ ReadOK(p, j) /\ NearOK(p, j)
    <2>1. OverOK(p, j) /\ ReadOK(p, j) /\ NearOK(p, j)  BY Zenon DEF StopInv, StopOK
    <2> QED  BY <1>1, <1>2, <2>1, StillOver, StillRead, Zenon
  <1>5. /\ result'[p][i] = IncrByReply(p, i)
        /\ \A j \in Idx : j # i => result'[p][j] = result[p][j] /\ cmd'[p][j] = cmd[p][j]
    <2>1. result[p] \in [Idx -> 0..(Word - 1)] /\ cmd[p] \in [Idx -> Commands]
      BY Zenon DEF TypeOK
    <2>2. /\ result'[p] = [result[p] EXCEPT ![i] = IncrByReply(p, i)]
          /\ cmd'[p] = [cmd[p] EXCEPT ![i] = "expire"]
      BY <1>1, ZenonT(40) DEF TypeOK
    <2> QED  BY <2>1, <2>2, Zenon
  <1>6. ASSUME NearLimit(p, i), k \notin expired
        PROVE  result'[p][i] > args[p].limit[i]
    <2>1. HasKey(p, i) /\ ReadsFirst(p, overLocal[p])  BY <1>6, Zenon DEF NearLimit
    <2>2. current[p][i] <= counter[k]  BY <1>2, <1>4, <1>6, <2>1, Zenon DEF ReadOK
    <2>3. k \in Key  BY <2>1, KeyFacts, Zenon
    <2>4. counter[k] \in Nat  BY <2>3, ZenonT(40) DEF TypeOK
    <2>5. current[p][i] \in Nat  BY Numbers, Zenon
    <2>6. counter[k] <= counter[k]
      <3> HIDE DEF k
      <3> QED  BY <2>4
    <2>7. Uint32(current[p][i] + h) = current[p][i] + h  BY <2>1, <2>2, <2>5, NoWrap, Zenon
    <2>8. Uint32(counter[k] + h) = counter[k] + h  BY <2>1, <2>4, <2>6, NoWrap, Zenon
    <2>9. result'[p][i] = Uint32(counter[k] + h)
      BY <1>5, <1>6, Zenon DEF IncrByReply, IncrAmount
    <2>10. Uint32(current[p][i] + h) > args[p].limit[i]  BY <1>6, Zenon DEF NearLimit
    <2>11. h \in Nat /\ args[p].limit[i] \in Nat  BY Numbers, Zenon
    <2> HIDE DEF k, h
    <2> QED  BY <2>2, <2>4, <2>5, <2>7, <2>8, <2>9, <2>10, <2>11
  <1>7. ASSUME NEW j \in Idx PROVE NearOK(p, j)'
    <2> SUFFICES ASSUME Counted(p, j)', NearLimit(p, j)', CacheKey(p, j)' \notin expired'
                 PROVE  result'[p][j] > args'[p].limit[j]
      BY Zenon DEF NearOK
    <2>1. NearLimit(p, j) /\ CacheKey(p, j) \notin expired /\ args'[p] = args[p]
      BY <1>1, SameNearLimit, SameCallFrame, Zenon DEF SameCall
    <2>2. CASE j = i  BY <1>6, <2>1, <2>2, Zenon
    <2>3. CASE j # i
      <3>1. Counted(p, j) /\ result'[p][j] = result[p][j]  BY <1>5, <2>3, Zenon DEF Counted
      <3> QED  BY <1>4, <2>1, <3>1, Zenon DEF NearOK
    <2> QED  BY <2>2, <2>3
  <1> QED  BY <1>3, <1>4, <1>7, Zenon DEF StopOK

\* In every step, the calls that do not read or count rest.
LEMMA OthersRest ==
    ASSUME TypeOK, PhaseInv, [Next]_vars
    PROVE  \/ \A p \in Request : Rests(p)
           \/ \E p \in Request :
                /\ \/ GenerateCacheKeys(p) \/ LookupLocalCache(p)
                   \/ \E i \in Idx : Get(p, i) \/ IncrBy(p, i)
                /\ \A q \in Request : q # p => Rests(q)
  <1>1. ASSUME NEW p \in Request,
               \/ GenerateCacheKeys(p) \/ LookupLocalCache(p)
               \/ \E i \in Idx : Get(p, i) \/ IncrBy(p, i)
        PROVE  \A q \in Request : q # p => Rests(q)
    <2>1. ASSUME NEW q \in Request, q # p
          PROVE  /\ SameCall(q) /\ overAtStart'[q] = overAtStart[q]
                 /\ result'[q] = result[q] /\ pc'[q] = pc[q] /\ cmd'[q] = cmd[q]
      <3>1. CASE GenerateCacheKeys(p)
        BY <2>1, <3>1, ZenonT(40) DEF GenerateCacheKeys, SameCall, TypeOK
      <3>2. CASE LookupLocalCache(p)
        BY <2>1, <3>2, Zenon DEF LookupLocalCache, SameCall, TypeOK, given
      <3>3. ASSUME NEW i \in Idx, Get(p, i)
            PROVE  /\ SameCall(q) /\ overAtStart'[q] = overAtStart[q]
                   /\ result'[q] = result[q] /\ pc'[q] = pc[q] /\ cmd'[q] = cmd[q]
        BY <2>1, <3>3, ZenonT(30) DEF Get, SameCall, TypeOK, given
      <3>4. ASSUME NEW i \in Idx, IncrBy(p, i)
            PROVE  /\ SameCall(q) /\ overAtStart'[q] = overAtStart[q]
                   /\ result'[q] = result[q] /\ pc'[q] = pc[q] /\ cmd'[q] = cmd[q]
        BY <2>1, <3>4, ZenonT(30) DEF IncrBy, SameCall, TypeOK, given
      <3> QED  BY <1>1, <3>1, <3>2, <3>3, <3>4, Zenon
    <2> QED  BY <2>1, Zenon DEF Rests, ReadAll, Counted
  <1>2. ASSUME NEW p \in Request, NEW i \in Idx, Expire(p, i), NEW q \in Request
        PROVE  Rests(q)
    <2>1. /\ SameCall(q) /\ overAtStart'[q] = overAtStart[q] /\ result'[q] = result[q]
          /\ cmd[p][i] = "expire" /\ cmd' = [cmd EXCEPT ![p][i] = "sent"]
      BY <1>2, Zenon DEF Expire, SameCall, given
    <2>2. pc'[q] = "get" => pc[q] = "get"  BY <1>2, SMT DEF Expire, TypeOK
    <2>3. \A j \in Idx : \/ cmd'[q][j] = cmd[q][j]
                         \/ cmd[q][j] = "expire" /\ cmd'[q][j] = "sent"
      BY <2>1, Zenon DEF TypeOK
    <2>4. ReadAll(q)' => ReadAll(q)  BY <2>3, Zenon DEF ReadAll
    <2>5. \A j \in Idx : /\ cmd'[q][j] = "got" => cmd[q][j] = "got"
                         /\ Counted(q, j)' => Counted(q, j)
      BY <2>3 DEF Counted
    <2> QED  BY <2>1, <2>2, <2>4, <2>5, Zenon DEF Rests
  <1>3. ASSUME NEW p \in Request, Reply(p) \/ Fail(p), NEW q \in Request
        PROVE  Rests(q)
    <2>1. /\ SameCall(q) /\ overAtStart'[q] = overAtStart[q] /\ result'[q] = result[q]
          /\ cmd' = cmd
      BY <1>3, Zenon DEF Reply, Fail, SameCall, given
    <2>2. pc'[q] = "get" => pc[q] = "get"  BY <1>3, Zenon DEF Reply, Fail, TypeOK
    <2> QED  BY <2>1, <2>2, Zenon DEF Rests, ReadAll, Counted
  <1>4. CASE Tick \/ (\E k \in Key : RedisExpire(k) \/ Evict(k)) \/ UNCHANGED vars
    <2>1. UNCHANGED <<pc, args, readAt, overAtStart, overLocal, cmd, current, result>>
      BY <1>4, Zenon DEF Tick, RedisExpire, Evict, vars, frame, given
    <2> QED  BY <2>1, Zenon DEF Rests, SameCall, ReadAll, Counted
  <1> QED  BY <1>1, <1>2, <1>3, <1>4, NextCases, Zenon

\* The invariant of stop mode, as long as the counters have room.
LEMMA StopHolds == Spec /\ []Typed /\ []HeadRoom => []StopInv
  <1>1. Init => StopInv
    <2>1. Init => \A p \in Request : /\ overAtStart[p] = {} /\ pc[p] # "get"
                                     /\ \A i \in Idx : cmd[p][i] = "none"
      BY DEF Init
    <2> QED  BY <2>1, Zenon DEF StopInv, StopOK, ReadsOK, OverOK, ReadOK, ReadAll,
                                NearOK, Counted
  <1>2. TypeOK /\ TypeOK' /\ PhaseInv /\ HeadRoom /\ StopInv /\ [Next]_vars => StopInv'
    <2> SUFFICES ASSUME TypeOK, TypeOK', PhaseInv, HeadRoom, StopInv, [Next]_vars,
                        NEW p \in Request
                 PROVE  StopOK(p)'
      BY Zenon DEF StopInv
    <2>1. StopOK(p)  BY Zenon DEF StopInv
    <2>2. CASE Rests(p)  BY <2>1, <2>2, RestKeeps, Zenon
    <2>3. CASE \/ GenerateCacheKeys(p) \/ LookupLocalCache(p)
               \/ \E i \in Idx : Get(p, i) \/ IncrBy(p, i)
      BY <2>3, AskingKeeps, LookupKeeps, ReadingKeeps, CountingKeeps, Zenon
    <2> QED  BY <2>2, <2>3, OthersRest, Zenon
  <1> QED  BY <1>1, <1>2, PTL DEF Spec, Typed

\* A key over its limit when the call began is near the limit when it is read.
LEMMA StopTakesNoQuota ==
    ASSUME TypeOK, PhaseInv, HeadRoom, StopInv
    PROVE  StopModeTakesNoQuota
  <1> SUFFICES ASSUME NEW p \in Request, NEW i \in Idx,
                      StopCacheKeyIncrementWhenOverlimit, args[p].n > 1,
                      overAtStart[p] # {},
                      \A j \in Idx : HasKey(p, j) => CacheKey(p, j) \notin expired,
                      Counted(p, i), IncrAmount(p, i) > 0,
                      ~(result[p][i] > args[p].limit[i])
               PROVE  FALSE
    BY Zenon DEF StopModeTakesNoQuota
  <1>1. ASSUME NEW j \in Idx PROVE OverOK(p, j) /\ ReadOK(p, j) /\ NearOK(p, j)
    BY Zenon DEF StopInv, StopOK
  <1>2. ~NearLimit(p, i)
    <2>1. NearLimit(p, i) => HasKey(p, i)  BY Zenon DEF NearLimit
    <2> QED  BY <1>1, <2>1, Zenon DEF NearOK
  <1>3. HitsAddendForRedis(p) > 0  BY <1>2, Zenon DEF IncrAmount
  <1>4. overLocal[p] = {} /\ \A j \in Idx : ~NearLimit(p, j)
    <2>1. HitsAddendForRedis(p) # 0
      <3>1. ~(0 > 0)  OBVIOUS
      <3> QED  BY <1>3, <3>1, Zenon
    <2> QED  BY <2>1, Zenon DEF HitsAddendForRedis
  <1>5. ReadsFirst(p, overLocal[p])  BY <1>4, Zenon DEF ReadsFirst
  <1>6. ReadAll(p)  BY Zenon DEF ReadAll, Counted
  <1>7. PICK j \in Idx : j \in overAtStart[p]  BY Zenon DEF TypeOK
  <1>8. HasKey(p, j) /\ CacheKey(p, j) \notin expired  BY <1>1, <1>7, Zenon DEF OverOK
  <1>9. current[p][j] <= counter[CacheKey(p, j)] /\ current[p][j] > args[p].limit[j]
    BY <1>1, <1>5, <1>6, <1>7, <1>8, Zenon DEF ReadOK
  <1>10. current[p][j] \in Nat  BY Numbers, Zenon
  <1>11. Uint32(current[p][j] + HitsAddend(p)) = current[p][j] + HitsAddend(p)
    BY <1>8, <1>9, <1>10, NoWrap, Zenon
  <1>12. HitsAddend(p) \in Nat /\ args[p].limit[j] \in Nat  BY Numbers, Zenon
  <1>13. current[p][j] + HitsAddend(p) > args[p].limit[j]
    BY <1>9, <1>10, <1>12, SumAbove, Zenon
  <1> QED  BY <1>4, <1>5, <1>8, <1>11, <1>13, Zenon DEF NearLimit
================================================================================
