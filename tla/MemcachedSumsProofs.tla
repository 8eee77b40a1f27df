-------------------------- MODULE MemcachedSumsProofs --------------------------
(***************************************************************************)
(* The theorems about the sums of hits of Memcached, Flush and the local   *)
(* cache.  SeenInv says what a call read, and LocalInv why the local cache *)
(* holds a key; their steps take Counting for granted.  FiniteInv says     *)
(* that only finitely many calls have begun and that the WaitGroup counts  *)
(* the workers with a task.  From it follows Counting: Hits counts pairs   *)
(* of a slot and a number, so a sum of hits is the cardinality of a finite *)
(* set.                                                                    *)
(***************************************************************************)
EXTENDS MemcachedProofs

(***************************************************************************)
(* What a call read.                                                       *)
(***************************************************************************)
\* Descriptor i of call p was looked up.
LookedUp(p, i) ==
    /\ pc[p] \in Read \cup {"get"} /\ HasKey(p, i)
    /\ i \notin overLocal[p] \cup toGet[p]
    /\ faults = 0 /\ CacheKey(p, i) \notin dropped

\* The hits of the calls that had returned are among those it saw.
AfterSeen(p, i) ==
    \A q \in after[p], j \in Idx :
       /\ HasKey(q, j) /\ j \notin overLocal[q]
       /\ CacheKey(q, j) = CacheKey(p, i)
       => <<q, j>> \in seen[p][i]

ReadOK(p, i) ==
    LookedUp(p, i) => /\ before[p][i] = Decoded(Hits(seen[p][i]))
                      /\ seen[p][i] \subseteq CountedOn(CacheKey(p, i))
                      /\ autoFlush => AfterSeen(p, i)

\* An answer stays the one that the counter read gave.
CodeOK(p, i) ==
    code[p][i] # "none" /\ HasKey(p, i) =>
       code[p][i] = ResponseCode(i \in overLocal[p], LimitInfo(p, i),
                                 args[p].desc[i] \in ShadowMode)

SeenOK(p, i) == seen[p][i] \subseteq counted /\ ReadOK(p, i) /\ CodeOK(p, i)

SeenInv == \A p \in Request, i \in Idx : SeenOK(p, i)

FullInv == BaseInv /\ LossInv /\ SumInv /\ WaitInv /\ SeenInv

\* Counted hits keep their number.
LEMMA HitsSeen ==
    ASSUME BaseInv, SumInv, [Next]_vars, NEW S, S \subseteq counted
    PROVE  Hits(S)' = Hits(S)
  BY CountedKept, HitsKept, Zenon

\* What a call saw of the calls before it does not change.
LEMMA AfterSeenKept ==
    ASSUME BaseInv, [Next]_vars, NEW p \in Request, NEW i \in Idx, KeysKept(p),
           after'[p] = after[p], seen'[p][i] = seen[p][i], AfterSeen(p, i)
    PROVE  AfterSeen(p, i)'
  <1>1. ASSUME NEW q \in after[p] PROVE KeysKept(q) /\ overLocal'[q] = overLocal[q]
    <2>1. q \in Request /\ pc[q] = "done"  BY ZenonT(30) DEF BaseInv, MemType, CallInv, CallOK
    <2> QED  BY <2>1, KeysStay, Zenon DEF Read
  <1> QED  BY <1>1, Zenon DEF AfterSeen, KeysKept

\* A descriptor that was looked up keeps what was read for it.
LEMMA ReadKept ==
    ASSUME BaseInv, SumInv, [Next]_vars, NEW p \in Request, NEW i \in Idx, SeenOK(p, i),
           after'[p] = after[p], seen'[p][i] = seen[p][i], before'[p][i] = before[p][i],
           pc'[p] \in Read \cup {"get"} => pc[p] \in Read \cup {"get"},
           i \in overLocal[p] \cup toGet[p] => i \in overLocal'[p] \cup toGet'[p],
           autoFlush' = autoFlush
    PROVE  ReadOK(p, i)'
  <1> SUFFICES ASSUME LookedUp(p, i)'
               PROVE  /\ before'[p][i] = Decoded(Hits(seen[p][i]))'
                      /\ seen'[p][i] \subseteq CountedOn(CacheKey(p, i))'
                      /\ autoFlush' => AfterSeen(p, i)'
    BY Zenon DEF ReadOK
  <1>1. pc[p] \in Read \cup {"get"}  BY Zenon DEF LookedUp
  <1>2. KeysKept(p)  BY <1>1, KeysStay, Zenon DEF Read
  <1>3. faults = 0
    BY Monotone DEF LookedUp, BaseInv, MemType
  <1>4. LookedUp(p, i)  BY <1>1, <1>2, <1>3, Monotone, Zenon DEF LookedUp, KeysKept
  <1>5. PICK S : S = seen[p][i]  BY Zenon
  <1>6. S \subseteq counted /\ S \subseteq CountedOn(CacheKey(p, i))
    BY <1>4, <1>5, Zenon DEF SeenOK, ReadOK
  <1>7. before'[p][i] = Decoded(Hits(seen[p][i]))'
    <2>1. Hits(S)' = Hits(S)  BY <1>6, HitsSeen, Zenon
    <2>2. Hits(seen[p][i])' = Hits(S)'  BY <1>5, Zenon DEF Hits, HitsOf
    <2>3. before[p][i] = Decoded(Hits(S))  BY <1>4, <1>5, Zenon DEF SeenOK, ReadOK
    <2> QED  BY <2>1, <2>2, <2>3, Zenon DEF Decoded
  <1>8. S \subseteq CountedOn(CacheKey(p, i))'
    <2>1. \A s \in S : KeysKept(s[1])  BY <1>6, CountedKept, Zenon
    <2>2. counted \subseteq counted'  BY Monotone, Zenon
    <2> QED  BY <1>2, <1>6, <2>1, <2>2, Zenon DEF CountedOn, KeysKept
  <1>9. autoFlush => AfterSeen(p, i)'
    BY <1>2, <1>4, AfterSeenKept, Zenon DEF SeenOK, ReadOK
  <1> QED  BY <1>5, <1>7, <1>8, <1>9, Zenon

\* GetMulti reads what is in the counter, the hits of returned calls included.
LEMMA GetReads ==
    ASSUME FullInv, [Next]_vars, NEW p \in Request, NEW i \in Idx, NEW k \in Key, Get(p, k)
    PROVE  ReadOK(p, i)'
  <1> USE DEF FullInv
  <1>1. /\ UNCHANGED <<after, pc, overLocal, counted, dropped, faults, autoFlush, args>>
        /\ pc[p] = "get" /\ toGet' = [toGet EXCEPT ![p] = @ \ {j \in toGet[p] : CacheKey(p, j) = k}]
    BY Zenon DEF Get, given, memcache, async, tasks
  <1>2. KeysKept(p)  BY <1>1, KeysStay, Zenon
  <1>3. CASE i \in toGet[p] /\ CacheKey(p, i) = k
    <2> SUFFICES ASSUME LookedUp(p, i)'
                 PROVE  /\ before'[p][i] = Decoded(Hits(seen[p][i]))'
                        /\ seen'[p][i] \subseteq CountedOn(CacheKey(p, i))'
                        /\ autoFlush' => AfterSeen(p, i)'
      BY Zenon DEF ReadOK
    <2>1. PICK S : S = CountedOn(k)  BY Zenon
    <2>2. before'[p][i] = Decoded(item[k]) /\ seen'[p][i] = S
      BY <1>3, <2>1, Zenon DEF Get, BaseInv, MemType
    <2>3. k \notin dropped /\ faults = 0  BY <1>1, <1>2, <1>3, Zenon DEF LookedUp, KeysKept
    <2>4. item[k] = Hits(S) /\ S \subseteq counted
      BY <2>1, <2>3, Zenon DEF SumInv, CounterIsSumOfHits, CountedOn
    <2>5. Hits(seen[p][i])' = Hits(S)
      <3>1. Hits(S)' = Hits(S)  BY <2>4, HitsSeen, Zenon
      <3>2. Hits(seen[p][i])' = Hits(S)'  BY <2>2, Zenon DEF Hits, HitsOf
      <3> QED  BY <3>1, <3>2, Zenon
    <2>6. S \subseteq CountedOn(CacheKey(p, i))'
      <3>1. \A s \in S : KeysKept(s[1])  BY <2>4, CountedKept, Zenon
      <3>2. \A s \in S : s \in counted /\ CacheKey(s[1], s[2]) = CacheKey(p, i)
        BY <1>3, <2>1, Zenon DEF CountedOn
      <3> QED  BY <1>1, <1>2, <3>1, <3>2, Zenon DEF CountedOn, KeysKept
    <2>7. ASSUME autoFlush, NEW q \in after[p], NEW j \in Idx,
                 HasKey(q, j)', j \notin overLocal'[q], CacheKey(q, j)' = CacheKey(p, i)'
          PROVE  <<q, j>> \in S
      <3>1. q \in Request /\ pc[q] = "done"
        BY <2>7, ZenonT(30) DEF BaseInv, MemType, CallInv, CallOK
      <3>2. KeysKept(q)  BY <3>1, KeysStay, Zenon
      <3>3. HasKey(q, j) /\ j \notin overLocal[q] /\ CacheKey(q, j) = k /\ todo[q] = {}
        BY <1>1, <1>2, <1>3, <2>7, <3>1, <3>2, Zenon DEF KeysKept, WaitInv
      <3>4. <<q, j>> \in Slot /\ <<q, j>>[1] = q /\ <<q, j>>[2] = j  BY <2>7, <3>1, Zenon DEF Slot
      <3>5. \/ <<q, j>> \in counted \/ faults > 0 \/ k \in dropped
        BY <3>1, <3>3, <3>4, Zenon DEF LossInv, NoHitLostInRace
      <3>6. <<q, j>> \in counted  BY <2>3, <3>5
      <3> QED  BY <2>1, <3>3, <3>4, <3>6, Zenon DEF CountedOn
    <2>8. autoFlush => AfterSeen(p, i)'
      BY <1>1, <2>2, <2>7, Zenon DEF AfterSeen
    <2> QED  BY <1>1, <2>2, <2>4, <2>5, <2>6, <2>8, Zenon DEF Decoded
  <1>4. CASE ~(i \in toGet[p] /\ CacheKey(p, i) = k)
    <2>1. before'[p][i] = before[p][i] /\ seen'[p][i] = seen[p][i]
      BY <1>4, Zenon DEF Get, BaseInv, MemType
    <2>2. i \in toGet[p] => i \in toGet'[p]
      BY <1>1, <1>4, Zenon DEF BaseInv, MemType
    <2>3. SeenOK(p, i)  BY Zenon DEF SeenInv
    <2> QED  BY <1>1, <2>1, <2>2, <2>3, ReadKept, Zenon
  <1> QED  BY <1>3, <1>4, Zenon

\* After the loop that collects keysToGet every key is to be read, or refused.
LEMMA LookupLast ==
    ASSUME BaseInv, NEW p \in Request, NEW i \in Idx, LookupLocalCache(p),
           pc'[p] = "get", HasKey(p, i)
    PROVE  i \in overLocal'[p] \cup toGet'[p]
  <1>1. idx[p] = args[p].n
    BY Zenon DEF LookupLocalCache, IsLast, BaseInv, MemType
  <1>2. overLocal[p] \cup toGet[p] \subseteq overLocal'[p] \cup toGet'[p]
    BY Zenon DEF LookupLocalCache, BaseInv, MemType
  <1>3. HasKey(p, idx[p]) => idx[p] \in overLocal'[p] \cup toGet'[p]
    BY Zenon DEF LookupLocalCache, BaseInv, MemType
  <1>4. i = idx[p] \/ i \in 1..(idx[p] - 1)
    <2>1. i \in 1..args[p].n /\ args[p].n \in Nat
      BY BoundsAssumption DEF HasKey, Used, BaseInv, MemType, Call, Idx
    <2> QED  BY <1>1, <2>1
  <1>5. i \in 1..(idx[p] - 1) => i \in overLocal[p] \cup toGet[p]
    BY Zenon DEF LookupLocalCache, BaseInv, CallInv, CallOK
  <1> QED  BY <1>2, <1>3, <1>4, <1>5, Zenon

\* A call that reads a counter sees what was counted until then.
LEMMA ReadStep ==
    ASSUME FullInv, [Next]_vars, NEW p \in Request, NEW i \in Idx, CallAct(p)
    PROVE  ReadOK(p, i)'
  <1>1. BaseInv /\ SumInv /\ SeenOK(p, i)  BY Zenon DEF FullInv, SeenInv
  <1>2. CASE GenerateCacheKeys(p)
    <2>1. pc'[p] = "local"  BY <1>1, <1>2, Zenon DEF GenerateCacheKeys, BaseInv, MemType
    <2> QED  BY <2>1, Zenon DEF ReadOK, LookedUp, Read
  <1>3. CASE LookupLocalCache(p)
    <2>1. pc'[p] \in {"local", "get"} /\ pc[p] = "local"
      BY <1>1, <1>3, Zenon DEF LookupLocalCache, BaseInv, MemType
    <2>2. KeysKept(p)  BY <1>1, <2>1, KeysStay, Zenon
    <2> QED  BY <1>1, <1>3, <2>1, <2>2, LookupLast, Zenon DEF ReadOK, LookedUp, Read, KeysKept
  <1>4. ASSUME NEW k \in Key, Get(p, k) PROVE ReadOK(p, i)'  BY <1>4, GetReads, Zenon
  <1>5. CASE GetError(p)
    <2>1. faults' # 0  BY <1>1, <1>5 DEF GetError, BaseInv, MemType
    <2> QED  BY <2>1, Zenon DEF ReadOK, LookedUp
  <1>6. CASE Reply(p) \/ Submit(p) \/ Flush(p)
    <2>1. /\ UNCHANGED <<after, seen, before, overLocal, toGet, autoFlush>>
          /\ pc[p] \in Read \cup {"get"}
      BY <1>6, Zenon DEF Reply, Submit, Flush, given, Read
    <2> QED  BY <1>1, <2>1, ReadKept, Zenon
  <1> QED  BY <1>2, <1>3, <1>4, <1>5, <1>6, Zenon DEF CallAct, DoLimit

\* An answer that is not touched still fits what was read.
LEMMA CodeKept ==
    ASSUME NEW p \in Request, NEW i \in Idx, CodeOK(p, i), args'[p] = args[p],
           overLocal'[p] = overLocal[p], before'[p] = before[p], code'[p][i] = code[p][i]
    PROVE  CodeOK(p, i)'
  BY Zenon DEF CodeOK, HasKey, Used, LimitInfo, HitsAddend

\* An answer fits what the call has read.
LEMMA CodeStep ==
    ASSUME FullInv, [Next]_vars, NEW p \in Request, NEW i \in Idx, CallAct(p)
    PROVE  CodeOK(p, i)'
  <1>1. BaseInv /\ CodeOK(p, i)  BY Zenon DEF FullInv, SeenInv, SeenOK
  <1>2. CASE pc'[p] \notin Read
    <2>1. CallInv'  BY <1>1, BaseNext, Zenon DEF BaseInv
    <2> QED  BY <1>2, <2>1, Zenon DEF CallInv, CallOK, CodeOK
  <1>3. CASE Reply(p)
    <2>1. UNCHANGED <<args, overLocal, before>>  BY <1>3, Zenon DEF Reply, given
    <2>2. CASE i = idx[p] /\ HasKey(p, i)
      <3>1. code'[p][i] = ResponseCode(i \in overLocal[p], LimitInfo(p, i),
                                       args[p].desc[i] \in ShadowMode)
        BY <1>1, <1>3, <2>2, Zenon DEF Reply, BaseInv, MemType
      <3> QED  BY <2>1, <3>1, Zenon DEF CodeOK, LimitInfo, HitsAddend
    <2>3. CASE i # idx[p]
      <3>1. code'[p][i] = code[p][i]  BY <1>1, <1>3, <2>3, Zenon DEF Reply, BaseInv, MemType
      <3> QED  BY <1>1, <2>1, <3>1, CodeKept, Zenon
    <2>4. CASE ~HasKey(p, i)
      BY <2>1, <2>4, Zenon DEF CodeOK, HasKey, Used
    <2> QED  BY <2>2, <2>3, <2>4, Zenon
  <1>4. CASE Submit(p) \/ Flush(p)
    <2>1. UNCHANGED <<args, overLocal, before, code>>  BY <1>4, Zenon DEF Submit, Flush, given
    <2> QED  BY <1>1, <2>1, CodeKept, Zenon
  <1>5. CASE pc'[p] \in Read /\ ~(Reply(p) \/ Submit(p) \/ Flush(p))
    BY <1>1, <1>5, ZenonT(40)
    DEF CallAct, DoLimit, GenerateCacheKeys, LookupLocalCache, Get, GetError, BaseInv, MemType, Read
  <1> QED  BY <1>2, <1>3, <1>4, <1>5, Zenon

\* Only GetMulti changes what a call saw.
LEMMA SeenCounted ==
    ASSUME FullInv, [Next]_vars, NEW p \in Request, NEW i \in Idx, CallAct(p)
    PROVE  seen'[p][i] \subseteq counted'
  <1>1. /\ seen[p][i] \subseteq counted /\ counted \subseteq counted'
        /\ \A k : CountedOn(k) \subseteq counted
    BY Monotone, Zenon DEF FullInv, SeenInv, SeenOK, CountedOn
  <1>2. ASSUME NEW k \in Key, Get(p, k) PROVE seen'[p][i] \in {seen[p][i], CountedOn(k)}
    BY <1>2, Zenon DEF Get, FullInv, BaseInv, MemType
  <1>3. CASE ~\E k \in Key : Get(p, k)
    <2>1. seen' = seen
      BY <1>3, Zenon DEF CallAct, DoLimit, GenerateCacheKeys, LookupLocalCache, GetError, Reply,
                         Submit, Flush
    <2> QED  BY <1>1, <2>1, Zenon
  <1> QED  BY <1>1, <1>2, <1>3, Zenon

\* Every step keeps SeenInv.
LEMMA SeenStep ==
    ASSUME FullInv, [Next]_vars
    PROVE  SeenInv'
  <1> SUFFICES ASSUME NEW p \in Request, NEW i \in Idx PROVE SeenOK(p, i)'
    BY Zenon DEF SeenInv
  <1>1. BaseInv /\ SumInv /\ SeenOK(p, i)  BY Zenon DEF FullInv, SeenInv
  <1>2. CASE CallAct(p)
    BY <1>2, ReadStep, CodeStep, SeenCounted, Zenon DEF SeenOK
  <1>3. ASSUME SameCall(p), autoFlush' = autoFlush PROVE SeenOK(p, i)'
    <2>1. ReadOK(p, i)'  BY <1>1, <1>3, ReadKept, Zenon DEF SameCall
    <2>2. CodeOK(p, i)'  BY <1>1, <1>3, CodeKept, Zenon DEF SameCall, SeenOK
    <2>3. seen'[p][i] \subseteq counted'
      BY <1>1, <1>3, Monotone, Zenon DEF SameCall, SeenOK
    <2> QED  BY <2>1, <2>2, <2>3, Zenon DEF SeenOK
  <1>4. ASSUME NEW q \in Request \ {p}, CallAct(q) PROVE SameCall(p) /\ autoFlush' = autoFlush
    BY <1>1, <1>4, CallActs, Zenon DEF CallMoves, BaseInv
  <1>5. ASSUME NEW w \in Request, NEW j \in Idx, Command(w, j)
        PROVE  SameCall(p) /\ autoFlush' = autoFlush
    BY <1>1, <1>5, CommandActs, Zenon DEF TaskMoves, given, frame, SameCall
  <1>6. ASSUME (\E w \in Request : Between(w)) \/ Environment
        PROVE  SameCall(p) /\ autoFlush' = autoFlush
    BY <1>1, <1>6, RestActs, Zenon DEF BaseInv, RestMoves, given, frame, SameCall
  <1> QED  BY <1>2, <1>3, <1>4, <1>5, <1>6, Steps, Zenon

\* A descriptor the counter has answered was looked up.
LEMMA AnsweredIsLookedUp ==
    ASSUME FullInv, NEW p \in Request, NEW i \in Idx, HasKey(p, i), i \notin overLocal[p],
           faults = 0, CacheKey(p, i) \notin dropped, pc[p] \in Read
    PROVE  LookedUp(p, i) /\ ReadOK(p, i)
  <1>1. toGet[p] = {}  BY Zenon DEF FullInv, BaseInv, CallInv, CallOK
  <1> QED  BY <1>1, Zenon DEF LookedUp, FullInv, SeenInv, SeenOK

\* In integration tests a call reads the hits of those that returned before it.
LEMMA FlushedAreSeen == FullInv => FlushedHitsAreSeen
  <1>1. SUFFICES ASSUME FullInv, autoFlush, NEW p \in Request, NEW i \in Idx,
                        pc[p] \in Read, HasKey(p, i), i \notin overLocal[p],
                        faults = 0, CacheKey(p, i) \notin dropped
                 PROVE  AfterSeen(p, i)
    BY Zenon DEF FlushedHitsAreSeen, AfterSeen, Read
  <1> QED  BY <1>1, AnsweredIsLookedUp, Zenon DEF ReadOK

\* An answer is the one that the hits counted before it call for.
LEMMA AnswersFit == FullInv => AnswerFitsCounter
  <1>1. SUFFICES ASSUME FullInv, NEW p \in Request, NEW i \in Idx, NEW hits,
                        hits = Hits(seen[p][i]), code[p][i] # "none", HasKey(p, i),
                        i \notin overLocal[p], args[p].desc[i] \notin ShadowMode,
                        faults = 0, CacheKey(p, i) \notin dropped,
                        hits < Word \div 2, hits + HitsAddend(p) < Word
                 PROVE  (code[p][i] = "OVER_LIMIT") <=> (hits + HitsAddend(p) > args[p].limit[i])
    BY Zenon DEF AnswerFitsCounter
  <1>2. pc[p] \in Read  BY <1>1, Zenon DEF FullInv, BaseInv, CallInv, CallOK
  <1>3. ReadOK(p, i) /\ LookedUp(p, i)  BY <1>1, <1>2, AnsweredIsLookedUp, Zenon
  <1>4. before[p][i] = hits  BY <1>1, <1>3, Zenon DEF ReadOK, Decoded
  <1>5. code[p][i] = ResponseCode(FALSE, LimitInfo(p, i), FALSE)
    BY <1>1, Zenon DEF FullInv, SeenInv, SeenOK, CodeOK, ResponseCode, IsOverLimit
  <1>6. LimitInfo(p, i).limitAfterIncrease = Uint32(hits + HitsAddend(p))
        /\ LimitInfo(p, i).overLimitThreshold = args[p].limit[i]
    BY <1>4, Zenon DEF LimitInfo, NewRateLimitInfo
  <1>7. Uint32(hits + HitsAddend(p)) = hits + HitsAddend(p)
    <2>1. MemType  BY <1>1, Zenon DEF FullInv, BaseInv
    <2>2. before[p][i] \in Nat /\ HitsAddend(p) \in 1..Word
      BY <2>1, HitsAddendOf, Zenon DEF MemType
    <2> QED  BY <1>1, <1>4, <2>2, WordAssumption DEF Uint32
  <1> QED  BY <1>5, <1>6, <1>7, Zenon
           DEF ResponseCode, IsOverLimit, IsOverLimitThresholdReached

(***************************************************************************)
(* The local cache.                                                        *)
(***************************************************************************)
\* The limit of a rule does not change while the program runs.
StaticLimits(L) ==
    /\ L \in [Descriptor -> Nat]
    /\ \A c \in Calls : \A i \in 1..c.n : c.desc[i] # NoLimit => c.limit[i] = L[c.desc[i]]

\* A call that has not begun asks for nothing.
IdleInv == \A p \in Request : pc[p] = "idle" => \A i : ~HasKey(p, i)

LocalInv(L) ==
    faults = 0 => \A k \in Key \ dropped :
       localCache[k] > now => Hits(Committed(k)) > L[k[1]]

\* A call that has not begun still asks for nothing.
LEMMA IdleStep ==
    ASSUME BaseInv, IdleInv, [Next]_vars
    PROVE  IdleInv'
  <1> SUFFICES ASSUME NEW p \in Request, pc'[p] = "idle" PROVE \A i : ~HasKey(p, i)'
    BY Zenon DEF IdleInv
  <1>1. pc[p] = "idle"  BY KeysStay, Zenon
  <1>2. args'[p] = args[p]
    BY StepMoves, Zenon DEF CallMoves, SameCall, TaskMoves, RestMoves, given
  <1> QED  BY <1>1, <1>2, Zenon DEF IdleInv, HasKey, Used

\* Only calls that have submitted have a task.
LEMMA TodoIsLate ==
    ASSUME BaseInv, NEW p \in Request, NEW i \in todo[p]
    PROVE  pc[p] \in Late
  <1>1. pc[p] \in Early => todo[p] = {}  BY Zenon DEF BaseInv, CallInv, CallOK
  <1>2. pc[p] \in Early \/ pc[p] \in Late  BY Zenon DEF BaseInv, MemType, Early, Late
  <1> QED  BY <1>1, <1>2, Zenon

\* Hits on their way to a counter stay on their way until they are in it.
LEMMA CommittedGrows ==
    ASSUME FullInv, [Next]_vars, faults' = 0, NEW k \in Key \ dropped', NEW s \in Committed(k)
    PROVE  s \in Committed(k)' /\ KeysKept(s[1])
  <1> USE DEF FullInv
  <1>1. s \in Slot
    BY Zenon DEF Committed, Pending, Unsubmitted, CountedOn, BaseInv, MemType
  <1>2. PICK p \in Request, i \in Idx : s = <<p, i>> /\ s[1] = p /\ s[2] = i  BY <1>1 DEF Slot
  <1>3. CASE s \in CountedOn(k)
    <2>1. KeysKept(p)  BY <1>2, <1>3, CountedKept, Zenon DEF CountedOn
    <2>2. counted \subseteq counted'  BY Monotone, Zenon
    <2> QED  BY <1>2, <1>3, <2>1, <2>2, Zenon DEF Committed, CountedOn, KeysKept
  <1>4. CASE s \in Pending(k)
    <2>1. i \in todo[p] /\ CacheKey(p, i) = k  BY <1>2, <1>4, Zenon DEF Pending
    <2>2. pc[p] \in Late  BY <2>1, TodoIsLate, Zenon
    <2>3. KeysKept(p)  BY <2>2, KeysStay, Zenon DEF Late
    <2>4. CASE i \in todo'[p]
      BY <1>1, <1>2, <2>1, <2>3, <2>4, Zenon DEF Committed, Pending, KeysKept
    <2>5. CASE i \notin todo'[p]
      <3>1. Settled(p, i)'  BY <2>1, <2>2, <2>3, <2>5, TaskSettles, Zenon
      <3>2. ~(faults' > 0)  OBVIOUS
      <3>3. s \in counted'  BY <1>2, <2>1, <2>3, <3>1, <3>2, Zenon DEF Settled, KeysKept
      <3> QED  BY <1>2, <2>1, <2>3, <3>3, Zenon DEF Committed, CountedOn, KeysKept
    <2> QED  BY <2>4, <2>5, Zenon
  <1>5. CASE s \in Unsubmitted(k)
    <2>1. /\ pc[p] \in {"reply", "submit"} /\ HasKey(p, i)
          /\ i \notin overLocal[p] /\ CacheKey(p, i) = k
      BY <1>2, <1>5, Zenon DEF Unsubmitted
    <2>2. KeysKept(p) /\ pc'[p] \in Read /\ overLocal'[p] = overLocal[p]
      BY <2>1, KeysStay, Zenon DEF Read
    <2>3. CASE pc'[p] \in {"reply", "submit"}
      BY <1>1, <1>2, <2>1, <2>2, <2>3, Zenon DEF Committed, Unsubmitted, KeysKept
    <2>4. CASE pc'[p] \in Late
      <3>1. pc[p] \notin Late  BY <2>1, Zenon DEF Late
      <3>2. CallMoves(p)  BY <2>4, <3>1, SubmitsItself, Zenon
      <3>3. i \in todo'[p]  BY <2>1, <2>4, <3>1, <3>2, Zenon DEF CallMoves
      <3> QED  BY <1>1, <1>2, <2>1, <2>2, <3>3, Zenon DEF Committed, Pending, KeysKept
    <2> QED  BY <2>2, <2>3, <2>4, Zenon DEF Read, Late
  <1> QED  BY <1>3, <1>4, <1>5, Zenon DEF Committed

\* A key enters the local cache only when a descriptor is answered.
SetsEntry(p, k) ==
    /\ Reply(p) /\ HasKey(p, idx[p]) /\ CacheKey(p, idx[p]) = k
    /\ SetsLocalCache(idx[p] \in overLocal[p], LimitInfo(p, idx[p]))

\* Only a Reply puts a key into the local cache.
LEMMA LocalActs ==
    ASSUME BaseInv, [Next]_vars, NEW k \in Key, localCache'[k] > now'
    PROVE  localCache[k] > now \/ \E p \in Request : SetsEntry(p, k)
  <1>1. localCache \in [Key -> Nat] /\ now \in Nat
    BY BoundsAssumption DEF BaseInv, MemType
  <1>2. ASSUME UNCHANGED <<localCache, now>> PROVE localCache[k] > now  BY <1>2
  <1>3. ASSUME NEW p \in Request, Reply(p) PROVE localCache[k] > now \/ SetsEntry(p, k)
    <2>1. CASE UNCHANGED localCache
      <3>1. now' = now  BY <1>3, Zenon DEF Reply
      <3> QED  BY <1>2, <2>1, <3>1, Zenon
    <2>2. CASE ~UNCHANGED localCache
      <3>1. /\ HasKey(p, idx[p]) /\ now' = now
            /\ SetsLocalCache(idx[p] \in overLocal[p], LimitInfo(p, idx[p]))
            /\ \E t : localCache' = [localCache EXCEPT ![CacheKey(p, idx[p])] = t]
        BY <1>3, <2>2, Zenon DEF Reply
      <3>2. k = CacheKey(p, idx[p]) \/ localCache'[k] = localCache[k]  BY <1>1, <3>1, Zenon
      <3> QED  BY <1>3, <3>1, <3>2, Zenon DEF SetsEntry
    <2> QED  BY <2>1, <2>2, Zenon
  <1>4. ASSUME NEW p \in Request, CallAct(p), ~Reply(p) PROVE UNCHANGED <<localCache, now>>
    BY <1>4, Zenon DEF CallAct, DoLimit, GenerateCacheKeys, LookupLocalCache, Get, GetError,
                       Submit, Flush
  <1>5. ASSUME NEW w \in Request, NEW i \in Idx, Command(w, i) PROVE UNCHANGED <<localCache, now>>
    BY <1>5, CommandActs, Zenon DEF TaskMoves
  <1>6. ASSUME NEW w \in Request, Between(w) PROVE UNCHANGED <<localCache, now>>
    BY <1>6, Zenon DEF Between, TaskDone, WorkerTick
  <1>7. ASSUME Tick PROVE localCache[k] > now
    BY <1>1, <1>7 DEF Tick, Absent
  <1>8. ASSUME NEW j \in Key, Evict(j) PROVE localCache[k] > now
    BY <1>1, <1>8 DEF Evict, Absent
  <1>9. ASSUME (\E j \in Key : EvictItem(j)) \/ UNCHANGED vars PROVE UNCHANGED <<localCache, now>>
    BY <1>9, Zenon DEF EvictItem, vars
  <1> QED  BY <1>2, <1>3, <1>4, <1>5, <1>6, <1>7, <1>8, <1>9, Steps, ZenonT(40) DEF Environment

\* The answer that enters a key saw hits that, with its own, exceed the limit.
LEMMA EntryIsDue ==
    ASSUME NEW L, StaticLimits(L), FullInv, Counting, [Next]_vars, faults' = 0,
           NEW p \in Request, NEW k \in Key \ dropped', SetsEntry(p, k)
    PROVE  \E S \in SUBSET (Committed(k)') : /\ Hits(S) > L[k[1]]
                                             /\ \A s \in S : KeysKept(s[1])
  <1> USE DEF FullInv
  <1>1. PICK i : i = idx[p]  BY Zenon
  <1>2. /\ Reply(p) /\ HasKey(p, i) /\ CacheKey(p, i) = k /\ i \notin overLocal[p]
        /\ IsOverLimitThresholdReached(LimitInfo(p, i))
    BY <1>1, Zenon DEF SetsEntry, SetsLocalCache
  <1>3. i \in Idx /\ k[1] = args[p].desc[i]  BY <1>2, KeyOf, Zenon DEF BaseInv
  <1>4. /\ pc[p] \in {"get", "reply"} /\ toGet[p] = {}
        /\ pc'[p] \in {"reply", "submit"} /\ overLocal' = overLocal
    <2>1. \/ pc[p] = "get" /\ toGet[p] = {}
          \/ pc[p] = "reply"
      BY <1>2, Zenon DEF Reply
    <2>2. pc[p] = "reply" => toGet[p] = {}  BY Zenon DEF BaseInv, CallInv, CallOK, Read
    <2>3. pc'[p] \in {"reply", "submit"} /\ overLocal' = overLocal
      BY <1>2, Zenon DEF Reply, BaseInv, MemType
    <2> QED  BY <2>1, <2>2, <2>3, Zenon
  <1>5. KeysKept(p)  BY <1>4, KeysStay, ZenonT(40)
  <1>6. faults = 0 /\ k \notin dropped  BY Monotone DEF BaseInv, MemType
  <1>7. LookedUp(p, i)  BY <1>2, <1>4, <1>6, Zenon DEF LookedUp, Read
  <1>8. PICK R : R = seen[p][i]  BY Zenon
  <1>9. before[p][i] = Decoded(Hits(R)) /\ R \subseteq CountedOn(k)
    BY <1>2, <1>3, <1>7, <1>8, Zenon DEF SeenInv, SeenOK, ReadOK
  <1>10. PICK s : s = <<p, i>> /\ s \in Slot /\ s[1] = p /\ s[2] = i
    <2>1. <<p, i>> \in Slot /\ <<p, i>>[1] = p /\ <<p, i>>[2] = i  BY <1>3 DEF Slot
    <2> QED  BY <2>1, Zenon
  <1>11. s \notin counted
    BY <1>4, <1>10, Zenon DEF SumInv, CountedOK, Late
  <1>12. R \cup {s} \subseteq Committed(k)'
    <2>1. s \in Unsubmitted(k)'
      BY <1>2, <1>4, <1>5, <1>10, Zenon DEF Unsubmitted, KeysKept
    <2>2. R \subseteq Committed(k)'  BY <1>9, CommittedGrows, Zenon DEF Committed
    <2> QED  BY <2>1, <2>2, Zenon DEF Committed
  <1>13. \A t \in R \cup {s} : KeysKept(t[1])
    BY <1>5, <1>9, <1>10, CountedKept, Zenon DEF CountedOn
  <1>14. Hits(R \cup {s}) > L[k[1]]
    <2>1. FiniteSlots(R) /\ s \notin R
      BY <1>9, <1>11, Zenon DEF Counting, HitsLaws, CountedOn
    <2>2. Hits(R \cup {s}) = Hits(R) + HitsAddend(p)
      BY <1>10, <2>1, Zenon DEF Counting, HitsLaws
    <2>3. Hits(R) \in Nat /\ HitsAddend(p) \in 1..Word
      BY <2>1, HitsAddendOf, Zenon DEF BaseInv, Counting, HitsLaws
    <2>4. Uint32(Decoded(Hits(R)) + HitsAddend(p)) > args[p].limit[i]
      BY <1>2, <1>9, Zenon DEF IsOverLimitThresholdReached, LimitInfo, NewRateLimitInfo
    <2>5. Decoded(Hits(R)) \in 0..Hits(R)  BY <2>3 DEF Decoded
    <2>6. args[p].limit[i] = L[k[1]] /\ L[k[1]] \in Nat
      <3>1. args[p] \in Calls  BY <1>4, Zenon DEF BaseInv, CallInv, CallOK
      <3>2. args[p].desc[i] \in Descriptor  BY <1>2, KeyOf, Zenon DEF BaseInv
      <3>3. args[p].limit[i] = L[args[p].desc[i]]
        BY <1>2, <3>1, Zenon DEF StaticLimits, HasKey, Used
      <3>4. L[args[p].desc[i]] \in Nat  BY <3>2, Zenon DEF StaticLimits
      <3> QED  BY <1>3, <3>3, <3>4, Zenon
    <2>7. Uint32(Decoded(Hits(R)) + HitsAddend(p)) <= Decoded(Hits(R)) + HitsAddend(p)
      BY <2>3, <2>5, WordAssumption DEF Uint32
    <2>8. Uint32(Decoded(Hits(R)) + HitsAddend(p)) \in Nat
      BY <2>3, <2>5, WordAssumption DEF Uint32
    <2> QED  BY <2>2, <2>3, <2>4, <2>5, <2>6, <2>7, <2>8
  <1> QED  BY <1>12, <1>13, <1>14, Zenon

\* A key enters the local cache when its window is used up or about to be, and a
\* window does not recover.
LEMMA LocalStep ==
    ASSUME NEW L, StaticLimits(L), FullInv, LocalInv(L), Counting, Counting', [Next]_vars
    PROVE  LocalInv(L)'
  <1> SUFFICES ASSUME faults' = 0, NEW k \in Key \ dropped', localCache'[k] > now'
               PROVE  Hits(Committed(k))' > L[k[1]]
    BY Zenon DEF LocalInv
  <1>1. faults = 0 /\ k \in Key \ dropped  BY Monotone DEF FullInv, BaseInv, MemType
  <1>2. \E S \in SUBSET (Committed(k)') : Hits(S) > L[k[1]] /\ \A s \in S : KeysKept(s[1])
    <2>1. CASE localCache[k] > now
      <3>1. PICK S : S = Committed(k)  BY Zenon
      <3>2. Hits(S) > L[k[1]]  BY <1>1, <2>1, <3>1, Zenon DEF LocalInv
      <3>3. \A s \in S : s \in Committed(k)' /\ KeysKept(s[1])  BY <3>1, CommittedGrows, Zenon
      <3> QED  BY <3>2, <3>3, Zenon
    <2>2. CASE \E p \in Request : SetsEntry(p, k)  BY <2>2, EntryIsDue, Zenon
    <2> QED  BY <2>1, <2>2, LocalActs, Zenon DEF FullInv
  <1>3. PICK S \in SUBSET (Committed(k)') : Hits(S) > L[k[1]] /\ \A s \in S : KeysKept(s[1])
    BY <1>2, Zenon
  <1>4. PICK T : T = Committed(k)'  BY Zenon
  <1>5. Hits(S)' = Hits(S)  BY <1>3, HitsKept, Zenon
  <1>6. HitsLaws' /\ FiniteSlots(T)  BY <1>4, Zenon DEF Counting
  <1>7. Hits(S)' <= Hits(T)'  BY <1>3, <1>4, <1>6, Zenon DEF HitsLaws, FiniteSlots
  <1>8. Hits(Committed(k))' = Hits(T)'  BY <1>4, Zenon DEF Hits, HitsOf
  <1>9. Hits(S) \in Nat /\ Hits(T)' \in Nat /\ L[k[1]] \in Nat
    <2>1. FiniteSlots(S)  BY <1>3, <1>4, <1>6, Zenon DEF Counting, HitsLaws
    <2>2. Hits(S) \in Nat  BY <2>1, Zenon DEF Counting, HitsLaws
    <2>3. Hits(T)' \in Nat  BY <1>6, Zenon DEF HitsLaws, FiniteSlots
    <2>4. k[1] \in Descriptor  BY DEF Key
    <2> QED  BY <2>2, <2>3, <2>4, Zenon DEF StaticLimits
  <1> QED  BY <1>3, <1>5, <1>7, <1>8, <1>9

\* Every refusal of the local cache is due.
LEMMA RefusalsDue ==
    ASSUME NEW L, StaticLimits(L)
    PROVE  FullInv /\ Counting /\ IdleInv /\ LocalInv(L) => LocalRefusalIsDue
  <1>1. SUFFICES ASSUME FullInv, Counting, IdleInv, LocalInv(L), faults = 0,
                        NEW k \in Key \ dropped,
                        NEW p \in Request, NEW i \in Idx,
                        localCache[k] > now, HasKey(p, i), CacheKey(p, i) = k
                 PROVE  item[k] + Hits(Pending(k)) + Hits(Unsubmitted(k)) > args[p].limit[i]
    BY Zenon DEF LocalRefusalIsDue
  <1>2. MemType /\ BaseInv /\ SumInv  BY <1>1, Zenon DEF FullInv, BaseInv
  <1>3. PICK C, P, U : C = CountedOn(k) /\ P = Pending(k) /\ U = Unsubmitted(k)  BY Zenon
  <1>4. Hits(C \cup P \cup U) > L[k[1]]
    BY <1>1, <1>3, Zenon DEF LocalInv, Committed
  <1>5. FiniteSlots(C \cup P \cup U)
    BY <1>1, <1>3, Zenon DEF Counting, Committed
  <1>6. FiniteSlots(C) /\ FiniteSlots(P) /\ FiniteSlots(U)
    <2>1. \A S \in SUBSET (C \cup P \cup U) : FiniteSlots(S)
      BY <1>1, <1>5, Zenon DEF Counting, HitsLaws
    <2> QED  BY <2>1, Zenon
  <1>7. FiniteSlots(C \cup P) /\ Hits(C \cup P) <= Hits(C) + Hits(P)
    BY <1>1, <1>6, Zenon DEF Counting, HitsLaws
  <1>8. Hits(C \cup P \cup U) <= Hits(C \cup P) + Hits(U)
    BY <1>1, <1>6, <1>7, Zenon DEF Counting, HitsLaws
  <1>9. /\ Hits(C) \in Nat /\ Hits(P) \in Nat /\ Hits(U) \in Nat
        /\ Hits(C \cup P) \in Nat /\ Hits(C \cup P \cup U) \in Nat
    BY <1>1, <1>5, <1>6, <1>7, Zenon DEF Counting, HitsLaws
  <1>10. item[k] = Hits(C)
    BY <1>1, <1>2, <1>3, Zenon DEF SumInv, CounterIsSumOfHits
  <1>11. args[p].limit[i] = L[k[1]] /\ L[k[1]] \in Nat
    <2>1. args[p] \in Calls  BY <1>1, <1>2, Zenon DEF IdleInv, BaseInv, CallInv, CallOK
    <2>2. args[p].desc[i] \in Descriptor /\ k[1] = args[p].desc[i]
      BY <1>1, <1>2, KeyOf, Zenon
    <2>3. args[p].limit[i] = L[args[p].desc[i]]
      BY <1>1, <2>1, Zenon DEF StaticLimits, HasKey, Used
    <2>4. L[args[p].desc[i]] \in Nat  BY <2>2, Zenon DEF StaticLimits
    <2> QED  BY <2>2, <2>3, <2>4, Zenon
  <1>12. item[k] + Hits(P) + Hits(U) > args[p].limit[i]
    BY <1>4, <1>7, <1>8, <1>9, <1>10, <1>11
  <1> QED  BY <1>3, <1>12, Zenon

(***************************************************************************)
(* The WaitGroup.                                                          *)
(***************************************************************************)
\* The calls that have begun; behaviours start with none.
Begun == {p \in Request : pc[p] # "idle"}

\* The WaitGroup counts the workers that have a task.
FiniteInv ==
    /\ IsFiniteSet(Begun)
    /\ IsFiniteSet(Busy) /\ waitGroup = Cardinality(Busy)

\* The WaitGroup follows the workers that have a task.
LEMMA WaitActs ==
    ASSUME BaseInv, [Next]_vars
    PROVE  \/ Busy' = Busy /\ waitGroup' = waitGroup
           \/ \E w \in Request \ Busy : Busy' = Busy \cup {w} /\ waitGroup' = waitGroup + 1
           \/ \E w \in Busy : Busy' = Busy \ {w} /\ waitGroup' = waitGroup - 1
  <1>1. ASSUME UNCHANGED <<worker, waitGroup>> PROVE Busy' = Busy /\ waitGroup' = waitGroup
    BY <1>1, Zenon DEF Busy
  <1>2. ASSUME NEW p \in Request, Submit(p)
        PROVE  \E w \in Request \ Busy : Busy' = Busy \cup {w} /\ waitGroup' = waitGroup + 1
    <2>1. PICK w \in Request : worker[w] \in {"idle", "none"} /\ Assign(w, p)
      BY <1>2, SubmitAssigns, Zenon DEF BaseInv
    <2>2. worker' = [worker EXCEPT ![w] = "busy"] /\ waitGroup' = waitGroup + 1
      BY <2>1, Zenon DEF Assign, Joins
    <2>3. Busy' = Busy \cup {w} /\ w \notin Busy
      BY <2>1, <2>2 DEF Busy, BaseInv, MemType
    <2> QED  BY <2>2, <2>3, Zenon
  <1>3. ASSUME NEW p \in Request, CallAct(p), ~Submit(p) PROVE UNCHANGED <<worker, waitGroup>>
    BY <1>3, Zenon DEF CallAct, GenerateCacheKeys, DoLimit, GetError, LookupLocalCache,
                       Get, Reply, Flush, async, pool
  <1>4. ASSUME NEW w \in Request, NEW i \in Idx, Command(w, i) PROVE UNCHANGED <<worker, waitGroup>>
    BY <1>4, CommandActs, Zenon DEF TaskMoves, pool
  <1>5. ASSUME Environment PROVE UNCHANGED <<worker, waitGroup>>
    BY <1>5, Zenon DEF Environment, Tick, Evict, EvictItem, vars, async, pool
  <1>6. ASSUME NEW w \in Request, TaskDone(w)
        PROVE  \E v \in Busy : Busy' = Busy \ {v} /\ waitGroup' = waitGroup - 1
    BY <1>6, Zenon DEF TaskDone, Busy, BaseInv, MemType
  <1>7. ASSUME NEW w \in Request, WorkerTick(w)
        PROVE  Busy' = Busy /\ waitGroup' = waitGroup
    BY <1>7, Zenon DEF WorkerTick, Busy, BaseInv, MemType
  <1> QED  BY <1>1, <1>2, <1>3, <1>4, <1>5, <1>6, <1>7, Steps, ZenonT(30) DEF Between

\* At the start nothing is read.
LEMMA SeenInit ==
    ASSUME Init
    PROVE  SeenInv
  BY Zenon DEF Init, SeenInv, SeenOK, ReadOK, LookedUp, Read, CodeOK

(***************************************************************************)
(* Finite sets: why Counting holds.                                        *)
(***************************************************************************)
F == INSTANCE FiniteSetTheorems

\* The library's IsFiniteSet is that of FiniteSets.
LEMMA SameFinite == ASSUME NEW S PROVE F!IsFiniteSet(S) <=> IsFiniteSet(S)
  BY Zenon DEF F!IsFiniteSet, IsFiniteSet

\* The library's Cardinality is that of FiniteSets.
LEMMA SameCardinality == ASSUME NEW S PROVE F!Cardinality(S) = Cardinality(S)
  BY Zenon DEF F!Cardinality, Cardinality

\* The library's facts that are needed, about the operators of FiniteSets.
LEMMA EmptyFacts ==
    ASSUME NEW S
    PROVE  /\ IsFiniteSet({}) /\ Cardinality({}) = 0
           /\ IsFiniteSet(S) /\ Cardinality(S) = 0 => S = {}
  BY F!FS_EmptySet, SameFinite, SameCardinality, Zenon

\* The numbers up to n.
LEMMA IntervalFacts ==
    ASSUME NEW n \in Nat
    PROVE  IsFiniteSet(1..n) /\ Cardinality(1..n) = n
  <1>1. F!IsFiniteSet(1..n) /\ F!Cardinality(1..n) = n  BY F!FS_Interval
  <1> QED  BY <1>1, SameFinite, SameCardinality, Zenon

\* Part of a finite set.
LEMMA SubsetFacts ==
    ASSUME NEW S, NEW T, IsFiniteSet(T), S \subseteq T
    PROVE  IsFiniteSet(S) /\ Cardinality(S) \in Nat /\ Cardinality(S) <= Cardinality(T)
  <1>1. F!IsFiniteSet(S) /\ F!Cardinality(S) <= F!Cardinality(T)
    BY F!FS_Subset, SameFinite, Zenon
  <1> QED  BY <1>1, F!FS_CardinalityType, SameFinite, SameCardinality, Zenon

\* The union of two finite sets.
LEMMA UnionFacts ==
    ASSUME NEW S, NEW T, IsFiniteSet(S), IsFiniteSet(T)
    PROVE  /\ IsFiniteSet(S \cup T)
           /\ Cardinality(S \cup T) = Cardinality(S) + Cardinality(T) - Cardinality(S \cap T)
  BY F!FS_Union, SameFinite, SameCardinality, ZenonT(40)

\* Pairs from two finite sets.
LEMMA ProductFacts ==
    ASSUME NEW S, NEW T, IsFiniteSet(S), IsFiniteSet(T)
    PROVE  IsFiniteSet(S \X T) /\ Cardinality(S \X T) = Cardinality(S) * Cardinality(T)
  BY F!FS_Product, SameFinite, SameCardinality, Zenon

\* One element more or less.
LEMMA ElementFacts ==
    ASSUME NEW S, NEW x, IsFiniteSet(S)
    PROVE  /\ IsFiniteSet({x}) /\ Cardinality({x}) = 1
           /\ IsFiniteSet(S \cup {x}) /\ IsFiniteSet(S \ {x})
           /\ x \notin S => Cardinality(S \cup {x}) = Cardinality(S) + 1
           /\ x \in S => Cardinality(S \ {x}) = Cardinality(S) - 1
  BY F!FS_Singleton, F!FS_AddElement, F!FS_RemoveElement, SameFinite, SameCardinality, Zenon

\* Finitely many slots have finitely many hits.
LEMMA HitsFinite ==
    ASSUME MemType, NEW S, FiniteSlots(S)
    PROVE  IsFiniteSet(HitsOf(S)) /\ Hits(S) \in Nat
  <1>1. IsFiniteSet(1..Word)  BY WordAssumption, IntervalFacts
  <1>2. IsFiniteSet(S \X (1..Word))  BY <1>1, ProductFacts, Zenon DEF FiniteSlots
  <1>3. HitsOf(S) \subseteq S \X (1..Word)
    <2>1. ASSUME NEW s \in S PROVE 1..HitsAddend(s[1]) \subseteq 1..Word
      <3>1. s[1] \in Request  BY DEF FiniteSlots, Slot
      <3>2. HitsAddend(s[1]) \in 1..Word  BY <3>1, HitsAddendOf, Zenon
      <3> QED  BY <3>2, WordAssumption
    <2>2. ASSUME NEW x \in HitsOf(S) PROVE x \in S \X (1..Word)
      <3>1. PICK s \in S : x \in {s} \X (1..HitsAddend(s[1]))  BY <2>2, Zenon DEF HitsOf
      <3>2. x[1] = s /\ x[2] \in 1..HitsAddend(s[1]) /\ x = <<x[1], x[2]>>  BY <3>1
      <3> QED  BY <2>1, <3>2
    <2> QED  BY <2>2, Zenon
  <1>4. IsFiniteSet(HitsOf(S))  BY <1>2, <1>3, SubsetFacts, Zenon
  <1> QED  BY <1>4, SubsetFacts, Zenon DEF Hits

\* No slots have no hits.
LEMMA HitsEmpty == Hits({}) = 0
  <1>1. HitsOf({}) = {}  BY Zenon DEF HitsOf
  <1> QED  BY <1>1, EmptyFacts, Zenon DEF Hits

\* Hits of one more slot.
LEMMA HitsAdd ==
    ASSUME MemType, NEW S, FiniteSlots(S), NEW s \in Slot \ S
    PROVE  Hits(S \cup {s}) = Hits(S) + HitsAddend(s[1])
  <1> DEFINE T == {s} \X (1..HitsAddend(s[1]))
  <1>1. HitsAddend(s[1]) \in 1..Word  BY HitsAddendOf DEF Slot
  <1>2. IsFiniteSet(T) /\ Cardinality(T) = HitsAddend(s[1])
    <2>1. IsFiniteSet({s}) /\ Cardinality({s}) = 1  BY EmptyFacts, ElementFacts, Zenon
    <2>2. /\ IsFiniteSet(1..HitsAddend(s[1]))
          /\ Cardinality(1..HitsAddend(s[1])) = HitsAddend(s[1])
      BY <1>1, IntervalFacts, WordAssumption
    <2>3. IsFiniteSet(T) /\ Cardinality(T) = 1 * HitsAddend(s[1])
      <3>1. PICK A, B : A = {s} /\ B = 1..HitsAddend(s[1])  BY Zenon
      <3>2. IsFiniteSet(A \X B) /\ Cardinality(A \X B) = Cardinality(A) * Cardinality(B)
        BY <2>1, <2>2, <3>1, ProductFacts, Zenon
      <3> QED  BY <2>1, <2>2, <3>1, <3>2, Zenon
    <2> QED  BY <1>1, <2>3, WordAssumption
  <1>3. HitsOf(S \cup {s}) = HitsOf(S) \cup T  BY Zenon DEF HitsOf
  <1> HIDE DEF T
  <1>4. HitsOf(S) \cap T = {}
    <2>1. \A x \in HitsOf(S) : x[1] \in S  BY DEF HitsOf
    <2>2. \A x \in T : x[1] = s  BY DEF T
    <2> QED  BY <2>1, <2>2, Zenon
  <1>5. IsFiniteSet(HitsOf(S)) /\ Hits(S) \in Nat  BY HitsFinite, Zenon
  <1>6. Cardinality(HitsOf(S) \cup T) =
           Cardinality(HitsOf(S)) + Cardinality(T) - Cardinality(HitsOf(S) \cap T)
    BY <1>2, <1>5, UnionFacts, Zenon
  <1>7. Hits(S \cup {s}) = Hits(S) + HitsAddend(s[1]) - 0
    BY <1>2, <1>3, <1>4, <1>6, EmptyFacts, Zenon DEF Hits
  <1> QED  BY <1>1, <1>5, <1>7, WordAssumption

\* Hits of fewer slots, and of two sets of slots.
LEMMA HitsMonotone ==
    ASSUME MemType, NEW S, NEW T, FiniteSlots(T), S \subseteq T
    PROVE  FiniteSlots(S) /\ Hits(S) <= Hits(T)
  <1>1. IsFiniteSet(HitsOf(T))  BY HitsFinite, Zenon
  <1>2. HitsOf(S) \subseteq HitsOf(T)  BY Zenon DEF HitsOf
  <1>3. IsFiniteSet(S)  BY SubsetFacts, Zenon DEF FiniteSlots
  <1> QED  BY <1>1, <1>2, <1>3, SubsetFacts, Zenon DEF Hits, FiniteSlots

\* Hits of two sets of slots.
LEMMA HitsUnion ==
    ASSUME MemType, NEW S, NEW T, FiniteSlots(S), FiniteSlots(T)
    PROVE  FiniteSlots(S \cup T) /\ Hits(S \cup T) <= Hits(S) + Hits(T)
  <1>1. /\ IsFiniteSet(HitsOf(S)) /\ IsFiniteSet(HitsOf(T))
        /\ Hits(S) \in Nat /\ Hits(T) \in Nat
    BY HitsFinite, Zenon
  <1>2. HitsOf(S \cup T) = HitsOf(S) \cup HitsOf(T)  BY Zenon DEF HitsOf
  <1>3. Cardinality(HitsOf(S) \cap HitsOf(T)) \in Nat
    BY <1>1, SubsetFacts, Zenon
  <1>4. Hits(S \cup T) = Hits(S) + Hits(T) - Cardinality(HitsOf(S) \cap HitsOf(T))
    BY <1>1, <1>2, UnionFacts, Zenon DEF Hits
  <1>5. FiniteSlots(S \cup T)  BY UnionFacts, Zenon DEF FiniteSlots
  <1> QED  BY <1>1, <1>3, <1>4, <1>5

\* The laws of sums that the steps use.
LEMMA HitsLawsHold ==
    ASSUME MemType
    PROVE  HitsLaws
  BY HitsFinite, HitsAdd, HitsMonotone, HitsUnion, Zenon DEF HitsLaws

\* A step begins at most one call.
LEMMA BegunStep ==
    ASSUME BaseInv, [Next]_vars, IsFiniteSet(Begun)
    PROVE  IsFiniteSet(Begun')
  <1>1. ASSUME NEW p \in Request, CallMoves(p) PROVE Begun' \subseteq Begun \cup {p}
    BY <1>1, Zenon DEF CallMoves, SameCall, Begun
  <1>2. ASSUME RestMoves \/ \E p \in Request, i \in Idx : TaskMoves(p, i)
        PROVE  Begun' = Begun
    <2>1. pc' = pc  BY <1>2, Zenon DEF RestMoves, TaskMoves, frame
    <2> QED  BY <2>1, Zenon DEF Begun
  <1>3. ASSUME NEW p PROVE IsFiniteSet(Begun \cup {p})  BY ElementFacts, Zenon
  <1>4. ASSUME NEW p, Begun' \subseteq Begun \cup {p} PROVE IsFiniteSet(Begun')
    BY <1>3, <1>4, SubsetFacts, Zenon
  <1> QED  BY <1>1, <1>2, <1>4, StepMoves, Zenon

\* Every step keeps FiniteInv.
LEMMA FiniteStep ==
    ASSUME BaseInv, FiniteInv, [Next]_vars
    PROVE  FiniteInv'
  <1>1. IsFiniteSet(Begun')  BY BegunStep, Zenon DEF FiniteInv
  <1>2. ASSUME NEW w \in Request \ Busy, Busy' = Busy \cup {w}, waitGroup' = waitGroup + 1
        PROVE  IsFiniteSet(Busy') /\ waitGroup' = Cardinality(Busy')
    BY <1>2, ElementFacts, Zenon DEF FiniteInv
  <1>3. ASSUME NEW w \in Busy, Busy' = Busy \ {w}, waitGroup' = waitGroup - 1
        PROVE  IsFiniteSet(Busy') /\ waitGroup' = Cardinality(Busy')
    BY <1>3, ElementFacts, Zenon DEF FiniteInv
  <1> QED  BY <1>1, <1>2, <1>3, WaitActs, Zenon DEF FiniteInv

\* What the steps take for granted about sums and the WaitGroup.
LEMMA CountingHolds == BaseInv /\ SumInv /\ FiniteInv => Counting
  <1> SUFFICES ASSUME BaseInv, SumInv, FiniteInv PROVE Counting
    BY Zenon
  <1>1. IsFiniteSet(Begun \X Idx)
    <2>1. IsFiniteSet(Idx)  BY IntervalFacts, BoundsAssumption DEF Idx
    <2> QED  BY <2>1, ProductFacts, Zenon DEF FiniteInv
  <1>2. ASSUME NEW k PROVE FiniteSlots(Committed(k))
    <2>1. Committed(k) \subseteq Slot
      BY Zenon DEF Committed, Pending, Unsubmitted, CountedOn, BaseInv, MemType
    <2>2. ASSUME NEW s \in Committed(k) PROVE pc[s[1]] # "idle"
      <3>1. s[1] \in Request  BY <2>1 DEF Slot
      <3>2. CASE s \in CountedOn(k)  BY <3>2, Zenon DEF CountedOn, SumInv, CountedOK, Late
      <3>3. CASE s \in Pending(k)
        BY <3>1, <3>3, TodoIsLate, Zenon DEF Pending, Late
      <3>4. CASE s \in Unsubmitted(k)  BY <3>4, Zenon DEF Unsubmitted
      <3> QED  BY <3>2, <3>3, <3>4, Zenon DEF Committed
    <2>3. Committed(k) \subseteq Begun \X Idx  BY <2>1, <2>2 DEF Slot, Begun
    <2>4. IsFiniteSet(Committed(k))  BY <1>1, <2>3, SubsetFacts, Zenon
    <2> QED  BY <2>1, <2>4, Zenon DEF FiniteSlots
  <1>3. FiniteSlots(counted)
    <2>1. counted \subseteq Slot  BY Zenon DEF BaseInv, MemType
    <2>2. counted \subseteq Begun \X Idx
      BY <2>1 DEF SumInv, CountedOK, Late, Begun, Slot
    <2> QED  BY <1>1, <2>1, <2>2, SubsetFacts, Zenon DEF FiniteSlots
  <1>4. waitGroup = 0 => Busy = {}  BY EmptyFacts, Zenon DEF FiniteInv
  <1> QED  BY <1>2, <1>3, <1>4, HitsLawsHold, Zenon DEF Counting, BaseInv

\* At the start nothing is counted and no worker has a task.
LEMMA SumInit ==
    ASSUME Init
    PROVE  SumInv /\ WaitInv /\ FiniteInv
  <1>1. Begun = {}  BY Zenon DEF Init, Begun
  <1>2. \A k : CountedOn(k) = {}  BY Zenon DEF Init, CountedOn
  <1>3. CounterIsSumOfHits
    BY <1>2, HitsEmpty, Zenon DEF CounterIsSumOfHits, Init, Absent
  <1>4. Busy = {}  BY Zenon DEF Init, Busy
  <1> QED  BY <1>1, <1>3, <1>4, EmptyFacts, Zenon DEF SumInv, WaitInv, FiniteInv, Init

\* The invariants hold in every reachable state.
LEMMA FullHolds == Spec => [](FullInv /\ FiniteInv /\ Counting)
  <1>1. Init => FullInv /\ FiniteInv
    BY BaseInit, LossInit, SumInit, SeenInit, Zenon DEF FullInv
  <1>2. FullInv /\ FiniteInv => Counting  BY CountingHolds, Zenon DEF FullInv
  <1>3. FullInv /\ FiniteInv /\ [Next]_vars => FullInv' /\ FiniteInv'
    <2>1. SUFFICES ASSUME FullInv, FiniteInv, [Next]_vars PROVE FullInv' /\ FiniteInv'
      BY Zenon
    <2>2. SeenInv'  BY <2>1, SeenStep, Zenon
    <2>3. BaseInv' /\ LossInv'  BY <2>1, BaseNext, LossStep, Zenon DEF FullInv
    <2>4. SumInv' /\ WaitInv' /\ FiniteInv'
      BY <1>2, <2>1, SumStep, WaitStep, FiniteStep, Zenon DEF FullInv
    <2> QED  BY <2>2, <2>3, <2>4, Zenon DEF FullInv
  <1> QED  BY <1>1, <1>2, <1>3, PTL DEF Spec

\* Nothing is counted twice or overwritten: while memcached keeps a key, its
\* value is the sum of the hits of the increments executed on it, whatever the
\* order in which the tasks race to create it (cache_impl.go:161-177).
THEOREM CountersAreSums == Spec => []CounterIsSumOfHits
  <1>1. FullInv => CounterIsSumOfHits  BY Zenon DEF FullInv, SumInv
  <1> QED  BY <1>1, FullHolds, PTL

\* With AutoFlushForIntegrationTests the hits of a call that has returned are in
\* the counter any later call reads: waitGroup.Wait() returns only when every
\* task submitted before has made its increments (cache_impl.go:143-147).
THEOREM ReturnedHitsAreRead == Spec => []FlushedHitsAreSeen
  BY FlushedAreSeen, FullHolds, PTL

\* A call is answered OVER_LIMIT by memcached exactly when the hits counted
\* before it read the counter, with its own, exceed the limit
\* (cache_impl.go:121-141, base_limiter.go:100-117).
THEOREM AnswersFitCounters == Spec => []AnswerFitsCounter
  BY AnswersFit, FullHolds, PTL

\* The local cache refuses a key only when its window is used up, or will be
\* once the increments on their way are carried out, provided that limits do
\* not change (base_limiter.go:103-116, cache_impl.go:139-144).
THEOREM LocalRefusalsAreDue ==
    ASSUME NEW L, StaticLimits(L)
    PROVE  Spec => []LocalRefusalIsDue
  <1>1. Init => IdleInv /\ LocalInv(L)
    <2>1. Init => IdleInv
      BY BoundsAssumption DEF Init, IdleInv, HasKey, Used, Idx
    <2>2. Init => LocalInv(L)  BY DEF Init, LocalInv, Absent
    <2> QED  BY <2>1, <2>2
  <1>2. /\ FullInv /\ Counting /\ Counting' /\ IdleInv /\ LocalInv(L) /\ [Next]_vars
        => IdleInv' /\ LocalInv(L)'
    BY IdleStep, LocalStep, Zenon DEF FullInv
  <1>3. FullInv /\ Counting /\ IdleInv /\ LocalInv(L) => LocalRefusalIsDue
    BY RefusalsDue, Zenon
  <1> QED  BY <1>1, <1>2, <1>3, FullHolds, PTL DEF Spec
================================================================================
