------------------------- MODULE FixedCacheSumsProofs --------------------------
(***************************************************************************)
(* The theorems about FixedCache that add up the hits of several calls,    *)
(* for any number of calls, descriptors and hits.                          *)
(*                                                                         *)
(* A window admits no more hits than its limit has.  CodeInv says that an  *)
(* admitted slot was given a result within its limit; its hits have places *)
(* of their own below that result, so they are at most as many.            *)
(*                                                                         *)
(* The statistics are what the final counters say.  TileInv says that the  *)
(* counted slots leave no gap below the counter of their key, so that the  *)
(* hits of a key and the numbers up to its counter correspond one to one;  *)
(* StatInv that a statistic is the number of the hits answered so far that *)
(* lie over, or near, the limit; DoneInv that a call that is done has      *)
(* answered all its descriptors with a limit.                              *)
(*                                                                         *)
(* FiniteLaws states the facts about finite sets that the counting uses;   *)
(* FiniteLawsHold derives them from the library at the end of the module.  *)
(***************************************************************************)
EXTENDS FixedCacheTypeProofs, FixedCacheSums

(***************************************************************************)
(* Quota respected.  An admitted descriptor was given a result within its  *)
(* limit, so its share of the counter, which no other has, lies within the *)
(* limit too: the hits admitted are at most as many as the limit has.      *)
(***************************************************************************)
CodeOK(p, i) ==
    HasKey(p, i) /\ args[p].desc[i] \notin ShadowMode /\ status[p][i].code = "OK"
      => i \notin overLocal[p] /\ result[p][i] <= args[p].limit[i]

CodeInv == \A p \in Request, i \in Idx : CodeOK(p, i)

\* A step of one call leaves the others alone; it changes what an answer rests on
\* only before the call has one.
LEMMA CallSteps ==
    ASSUME TypeOK, PhaseInv, [Next]_vars, NEW p \in Request
    PROVE  \/ Untouched(p) /\ current'[p] = current[p]
           \/ /\ status'[p] = status[p]
              /\ pc[p] \in {"idle", "local", "get", "incr"}
           \/ Reply(p)
  <1> DEFINE Goal == \/ Untouched(p) /\ current'[p] = current[p]
                     \/ /\ status'[p] = status[p]
                        /\ pc[p] \in {"idle", "local", "get", "incr"}
                     \/ Reply(p)
  <1>1. ASSUME NEW q \in Request, GenerateCacheKeys(q) PROVE Goal
    BY <1>1, Zenon DEF GenerateCacheKeys, Untouched, TypeOK
  <1>2. ASSUME NEW q \in Request, LookupLocalCache(q) PROVE Goal
    BY <1>2, Zenon DEF LookupLocalCache, given, Untouched, TypeOK
  <1>3. ASSUME NEW q \in Request, NEW i \in Idx, Get(q, i) \/ IncrBy(q, i) \/ Expire(q, i)
        PROVE  Goal
    BY <1>3, ZenonT(40) DEF Get, IncrBy, Expire, given, Untouched, TypeOK
  <1>4. ASSUME NEW q \in Request, Reply(q), q # p PROVE Goal
    BY <1>4, Zenon DEF Reply, given, Untouched, TypeOK
  <1>5. CASE \/ \E q \in Request : Fail(q)
             \/ Tick \/ (\E k \in Key : RedisExpire(k) \/ Evict(k)) \/ UNCHANGED vars
    BY <1>5, Zenon DEF Fail, Tick, RedisExpire, Evict, vars, frame, given, Untouched
  <1> QED  BY <1>1, <1>2, <1>3, <1>4, <1>5, NextCases, Zenon

\* An answer is given by what INCRBY returned, and both stay.
LEMMA CodeNext ==
    ASSUME TypeOK, PhaseInv, AnswerInv, CodeInv, [Next]_vars
    PROVE  CodeInv'
  <1> SUFFICES ASSUME NEW p \in Request, NEW i \in Idx PROVE CodeOK(p, i)'
    BY Zenon DEF CodeInv
  <1>1. CodeOK(p, i)  BY Zenon DEF CodeInv
  <1>2. CASE Untouched(p)  BY <1>1, <1>2, Zenon DEF Untouched, CodeOK, HasKey, Used
  <1>3. CASE status'[p] = status[p] /\ pc[p] \in {"idle", "local", "get", "incr"}
    <2>1. status[p][i].code = "none"  BY <1>3, Zenon DEF AnswerInv, AnswerOK
    <2> QED  BY <1>3, <2>1, Zenon DEF CodeOK
  <1>4. CASE Reply(p)
    <2>1. /\ UNCHANGED <<args, overLocal, result>>
          /\ status' = [status EXCEPT ![p][idx[p]] = Status(p, idx[p])]
      BY <1>4, Zenon DEF Reply, given
    <2>2. CASE i # idx[p]
      <3>1. status'[p][i] = status[p][i]  BY <2>1, <2>2, Zenon DEF TypeOK
      <3> QED  BY <1>1, <2>1, <3>1, Zenon DEF CodeOK, HasKey, Used
    <2>3. CASE i = idx[p]
      <3>1. status'[p][i].code = Status(p, i).code  BY <2>1, <2>3, Zenon DEF TypeOK
      <3>2. HasKey(p, i) /\ args[p].desc[i] \notin ShadowMode /\ Status(p, i).code = "OK"
              => i \notin overLocal[p] /\ ~(result[p][i] > args[p].limit[i])
        BY LimitInfoFacts, Zenon
           DEF Status, ResponseCode, IsOverLimit, IsOverLimitThresholdReached
      <3>3. result[p][i] \in Nat /\ args[p].limit[i] \in Nat  BY LimitInfoFacts, CallFacts
      <3>4. ~(result[p][i] > args[p].limit[i]) => result[p][i] <= args[p].limit[i]
        BY <3>3
      <3> QED  BY <2>1, <3>1, <3>2, <3>4, Zenon DEF CodeOK, HasKey, Used
    <2> QED  BY <2>2, <2>3
  <1> QED  BY <1>2, <1>3, <1>4, CallSteps, Zenon

\* Every answer is the one its result calls for, at any time.
LEMMA CodesHold == Spec /\ []Typed => [](AnswerInv /\ CodeInv)
  <1>1. Init => AnswerInv /\ CodeInv
    <2> SUFFICES ASSUME Init PROVE AnswerInv /\ CodeInv  OBVIOUS
    <2>1. ASSUME NEW p \in Request, NEW i \in Idx PROVE status[p][i].code = "none"
      BY Zenon DEF Init, NoStatus
    <2> QED  BY <2>1, AnswerInit, Zenon DEF CodeInv, CodeOK
  <1>2. TypeOK /\ PhaseInv /\ AnswerInv /\ CodeInv /\ [Next]_vars => AnswerInv' /\ CodeInv'
    BY AnswerNext, CodeNext
  <1> QED  BY <1>1, <1>2, PTL DEF Spec, Typed

\* The calls that are admitted have counted all their hits.
CountsInFull ==
    \A p \in Request : Admitted(p) => \A i \in Idx : IncrAmount(p, i) = HitsAddend(p)

\* Outside stop mode every call does.
LEMMA AllCountInFull == ~StopCacheKeyIncrementWhenOverlimit => CountsInFull
  BY Zenon DEF CountsInFull, IncrAmount, HitsAddendForRedis

\* In stop mode this takes more: a call that leaves out its hits somewhere must be
\* refused, so the key it stopped for must still be the one it read.
KeysOutliveCalls ==
    \A p \in Request, i \in Idx :
       pc[p] = "reply" /\ HasKey(p, i) => CacheKey(p, i) \notin expired

\* A descriptor whose hits did not fit when its counter was read is not admitted.
NearCodeOK(p, i) == status[p][i].code = "OK" => ~NearLimit(p, i)

NearCodeInv == \A p \in Request, i \in Idx : NearCodeOK(p, i)

\* The INCRBY of such a descriptor took its counter over the limit, and the answer
\* says so.
LEMMA NearCodeNext ==
    ASSUME TypeOK, PhaseInv, AnswerInv, StopInv, KeysOutliveCalls, ShadowMode = {},
           NearCodeInv, [Next]_vars
    PROVE  NearCodeInv'
  <1> SUFFICES ASSUME NEW p \in Request, NEW i \in Idx PROVE NearCodeOK(p, i)'
    BY Zenon DEF NearCodeInv
  <1>1. NearCodeOK(p, i)  BY Zenon DEF NearCodeInv
  <1>2. CASE Untouched(p) /\ current'[p] = current[p]
    <2>1. NearLimit(p, i)' = NearLimit(p, i)
      BY <1>2, Zenon DEF Untouched, NearLimit, ReadsFirst, HasKey, Used, HitsAddend
    <2> QED  BY <1>1, <1>2, <2>1, Zenon DEF Untouched, NearCodeOK
  <1>3. CASE status'[p] = status[p] /\ pc[p] \in {"idle", "local", "get", "incr"}
    <2>1. status[p][i].code = "none"  BY <1>3, Zenon DEF AnswerInv, AnswerOK
    <2> QED  BY <1>3, <2>1, Zenon DEF NearCodeOK
  <1>4. CASE Reply(p)
    <2>1. /\ UNCHANGED <<args, overLocal, current, result>> /\ pc[p] = "reply"
          /\ status' = [status EXCEPT ![p][idx[p]] = Status(p, idx[p])]
      BY <1>4, Zenon DEF Reply, given
    <2>2. NearLimit(p, i)' = NearLimit(p, i)
      BY <2>1, Zenon DEF NearLimit, ReadsFirst, HasKey, Used, HitsAddend
    <2>3. CASE i # idx[p]
      <3>1. status'[p][i] = status[p][i]  BY <2>1, <2>3, Zenon DEF TypeOK
      <3> QED  BY <1>1, <2>2, <3>1, Zenon DEF NearCodeOK
    <2>4. CASE i = idx[p]
      <3> SUFFICES ASSUME NearLimit(p, i) PROVE status'[p][i].code # "OK"
        BY <2>2, Zenon DEF NearCodeOK
      <3>1. status'[p][i].code = Status(p, i).code  BY <2>1, <2>4, Zenon DEF TypeOK
      <3>2. HasKey(p, i) /\ overLocal[p] = {}  BY Zenon DEF NearLimit, ReadsFirst
      <3>3. CacheKey(p, i) \notin expired  BY <2>1, <3>2, Zenon DEF KeysOutliveCalls
      <3>4. Counted(p, i)  BY <2>1, <3>2, Zenon DEF PhaseInv, PhaseOK, Counted
      <3>5. result[p][i] > args[p].limit[i]
        BY <3>3, <3>4, Zenon DEF StopInv, StopOK, NearOK
      <3>6. IsOverLimitThresholdReached(LimitInfo(p, i))
        BY <3>5, LimitInfoFacts, Zenon DEF IsOverLimitThresholdReached
      <3>7. args[p].desc[i] \notin ShadowMode  OBVIOUS
      <3>8. Status(p, i).code = "OVER_LIMIT"
        BY <3>2, <3>6, <3>7, Zenon DEF Status, ResponseCode, IsOverLimit
      <3> QED  BY <3>1, <3>8
    <2> QED  BY <2>3, <2>4
  <1> QED  BY <1>2, <1>3, <1>4, CallSteps, Zenon

\* So it is in every reachable state.
LEMMA NearCodesHold ==
    ASSUME ShadowMode = {}
    PROVE  Spec /\ []Typed /\ []HeadRoom /\ []KeysOutliveCalls => []NearCodeInv
  <1>1. Init => NearCodeInv
    <2> SUFFICES ASSUME Init, NEW p \in Request, NEW i \in Idx PROVE NearCodeOK(p, i)
      BY Zenon DEF NearCodeInv
    <2>1. status[p][i].code = "none"  BY Zenon DEF Init, NoStatus
    <2> QED  BY <2>1, Zenon DEF NearCodeOK
  <1>2. TypeOK /\ PhaseInv /\ AnswerInv /\ StopInv /\ KeysOutliveCalls /\ NearCodeInv
        /\ [Next]_vars => NearCodeInv'
    BY NearCodeNext, Zenon
  <1> QED  BY <1>1, <1>2, StopHolds, CodesHold, PTL DEF Spec, Typed

\* An admitted call had no reason to leave out its hits anywhere.
LEMMA StoppedCountInFull ==
    ASSUME TypeOK, PhaseInv, CodeInv, NearCodeInv, ShadowMode = {}
    PROVE  CountsInFull
  <1> SUFFICES ASSUME NEW p \in Request, Admitted(p), NEW i \in Idx
               PROVE  IncrAmount(p, i) = HitsAddend(p)
    BY Zenon DEF CountsInFull
  <1>1. ASSUME NEW j \in Idx, HasKey(p, j)
        PROVE  j \notin overLocal[p] /\ ~NearLimit(p, j)
    <2>1. status[p][j].code = "OK"  BY <1>1, Zenon DEF Admitted, HasKey
    <2>2. args[p].desc[j] \notin ShadowMode  OBVIOUS
    <2> QED  BY <1>1, <2>1, <2>2, Zenon DEF CodeInv, CodeOK, NearCodeInv, NearCodeOK
  <1>2. \A j \in Idx : ~NearLimit(p, j)  BY <1>1, Zenon DEF NearLimit
  <1>3. overLocal[p] = {}
    <2>1. ASSUME NEW j \in overLocal[p] PROVE FALSE
      <3>1. j \in Idx  BY Zenon DEF TypeOK
      <3>2. HasKey(p, j)  BY <3>1, Zenon DEF PhaseInv, PhaseOK
      <3> QED  BY <1>1, <3>1, <3>2, Zenon
    <2> QED  BY <2>1, Zenon
  <1> QED  BY <1>2, <1>3, Zenon DEF IncrAmount, HitsAddendForRedis

\* What such a call added to each of its keys is all its hits.
LEMMA AdmittedAdded ==
    ASSUME TypeOK, PhaseInv, CodeInv, NearCodeInv, ShadowMode = {}
    PROVE  AdmittedIsCounted
  <1> SUFFICES ASSUME NEW p \in Request, Admitted(p), NEW i \in Idx, HasKey(p, i)
               PROVE  Counted(p, i) /\ IncrAmount(p, i) = HitsAddend(p)
    BY Zenon DEF AdmittedIsCounted
  <1>1. pc[p] = "done" /\ status[p][i].code = "OK"  BY Zenon DEF Admitted, HasKey
  <1>2. args[p].desc[i] \notin ShadowMode  OBVIOUS
  <1>3. i \notin overLocal[p]  BY <1>1, <1>2, Zenon DEF CodeInv, CodeOK
  <1>4. Counted(p, i)  BY <1>1, <1>3, Zenon DEF PhaseInv, PhaseOK, Counted
  <1>5. IncrAmount(p, i) = HitsAddend(p)  BY StoppedCountInFull, Zenon DEF CountsInFull
  <1> QED  BY <1>4, <1>5

\* An admitted slot was counted in full, and the answer it was given is its result.
LEMMA AdmittedCounted ==
    ASSUME TypeOK, PhaseInv, CodeInv, SlotInv, CountsInFull,
           NEW k \in Key \ expired, counter[k] < Word, NEW s \in AdmittedOn(k)
    PROVE  /\ s[1] \in Request /\ s[2] \in Idx /\ s = <<s[1], s[2]>>
           /\ Counted(s[1], s[2]) /\ CacheKey(s[1], s[2]) = k
           /\ IncrAmount(s[1], s[2]) = HitsAddend(s[1])
           /\ HitsAddend(s[1]) \in Nat /\ result[s[1]][s[2]] \in Nat
           /\ HitsAddend(s[1]) <= result[s[1]][s[2]]
           /\ args[s[1]].limit[s[2]] \in 0..(Word - 1)
           /\ result[s[1]][s[2]] <= args[s[1]].limit[s[2]]
  <1>1. s[1] \in Request /\ s[2] \in Idx /\ s = <<s[1], s[2]>>  BY DEF AdmittedOn
  <1> DEFINE p == s[1]
             i == s[2]
  <1> HIDE DEF p, i
  <1>2. p \in Request /\ i \in Idx  BY <1>1 DEF p, i
  <1>3. Admitted(p) /\ HasKey(p, i) /\ CacheKey(p, i) = k /\ k[1] \notin ShadowMode
    BY Zenon DEF AdmittedOn, p, i
  <1>4. args[p].desc[i] \notin ShadowMode  BY <1>3, Zenon DEF CacheKey
  <1>5. pc[p] = "done" /\ status[p][i].code = "OK"
    BY <1>3, Zenon DEF Admitted, HasKey
  <1>6. i \notin overLocal[p] /\ result[p][i] <= args[p].limit[i]
    BY <1>2, <1>3, <1>4, <1>5, Zenon DEF CodeInv, CodeOK
  <1>7. Counted(p, i)
    BY <1>2, <1>3, <1>5, <1>6, Zenon DEF PhaseInv, PhaseOK, Counted
  <1>8. IncrAmount(p, i) = HitsAddend(p)  BY <1>2, <1>3, Zenon DEF CountsInFull
  <1>9. HitsAddend(p) \in Nat /\ args[p].limit[i] \in 0..(Word - 1)
    BY <1>2, CallFacts
  <1>10. result[p][i] \in Nat  BY <1>2, LimitInfoFacts
  <1>11. IncrAmount(p, i) <= result[p][i]
    BY <1>2, <1>3, <1>7, Zenon DEF SlotInv, SlotOK
  <1> QED  BY <1>1, <1>3, <1>6, <1>7, <1>8, <1>9, <1>10, <1>11, Zenon DEF p, i

(***************************************************************************)
(* Statistics.  TileInv says that every unit of a counter is the share of  *)
(* an INCRBY, and DoneInv that a call that is done has answered every      *)
(* descriptor with a limit.                                                *)
(***************************************************************************)
Covers(p, i, n) == result[p][i] - IncrAmount(p, i) < n /\ n <= result[p][i]

TileInv ==
    \A k \in Key \ expired : \A n \in 1..counter[k] :
       \E p \in Request, i \in Idx :
          Counted(p, i) /\ CacheKey(p, i) = k /\ Covers(p, i, n)

\* What a counter gains is the share of the INCRBY that raised it.
LEMMA TileNext ==
    ASSUME TypeOK, PhaseInv, TileInv, NoOverflow', [Next]_vars
    PROVE  TileInv'
  <1> SUFFICES ASSUME NEW k \in Key, k \notin expired', NEW n \in 1..counter'[k]
               PROVE  \E p \in Request, i \in Idx :
                         (Counted(p, i) /\ CacheKey(p, i) = k /\ Covers(p, i, n))'
    BY Zenon DEF TileInv
  <1>1. ASSUME k \notin expired, n \in 1..counter[k],
               \A p \in Request, i \in Idx : Counted(p, i) =>
                 Counted(p, i)' /\ SameCall(p) /\ result'[p][i] = result[p][i]
        PROVE  \E p \in Request, i \in Idx :
                  (Counted(p, i) /\ CacheKey(p, i) = k /\ Covers(p, i, n))'
    <2>1. PICK p \in Request, i \in Idx :
                  Counted(p, i) /\ CacheKey(p, i) = k /\ Covers(p, i, n)
      BY <1>1, Zenon DEF TileInv
    <2>2. Counted(p, i)' /\ SameCall(p) /\ result'[p][i] = result[p][i]
      BY <1>1, <2>1, Zenon
    <2>3. CacheKey(p, i)' = CacheKey(p, i) /\ IncrAmount(p, i)' = IncrAmount(p, i)
      BY <2>2, SameCallFrame, Zenon
    <2> QED  BY <2>1, <2>2, <2>3, Zenon DEF Covers
  <1>2. CASE \A p \in Request, i \in Idx : ~IncrBy(p, i)
    <2>1. NoIncrement  BY <1>2, OtherStepsNoIncrement, Zenon
    <2>2. k \notin expired /\ counter'[k] = counter[k]  BY <2>1, Zenon DEF NoIncrement
    <2> QED  BY <1>1, <2>1, <2>2, Zenon DEF NoIncrement
  <1>3. ASSUME NEW p \in Request, NEW i \in Idx, IncrBy(p, i)
        PROVE  \E q \in Request, j \in Idx :
                  (Counted(q, j) /\ CacheKey(q, j) = k /\ Covers(q, j, n))'
    <2> DEFINE c == CacheKey(p, i)
               amount == IncrAmount(p, i)
    <2>1. /\ cmd[p][i] = "incrby"
          /\ counter' = [counter EXCEPT ![c] = counter[c] + amount]
          /\ result' = [result EXCEPT ![p][i] = Uint32(counter[c] + amount)]
          /\ cmd' = [cmd EXCEPT ![p][i] = "expire"]
          /\ UNCHANGED <<expired, args, readAt, overLocal, current>>
      BY <1>3, Zenon DEF IncrBy, AfterIncrBy, IncrByReply, given
    <2>2. c \in Key /\ amount \in Nat /\ counter[c] \in Nat
      BY <1>3, IncrByShape, AmountType, Zenon DEF TypeOK
    <2>3. \A q \in Request : SameCall(q)  BY <2>1, Zenon DEF SameCall
    <2>4. ASSUME NEW q \in Request, NEW j \in Idx, Counted(q, j)
          PROVE  Counted(q, j)' /\ SameCall(q) /\ result'[q][j] = result[q][j]
      <3>1. ~(q = p /\ j = i)  BY <2>1, <2>4 DEF Counted
      <3>2. cmd'[q][j] = cmd[q][j] /\ result'[q][j] = result[q][j]
        BY <2>1, <3>1, ZenonT(40) DEF TypeOK
      <3> QED  BY <2>3, <2>4, <3>2, Zenon DEF Counted
    <2>5. CASE n \in 1..counter[k]  BY <1>1, <2>1, <2>4, <2>5, Zenon
    <2>6. CASE n \notin 1..counter[k]
      <3>1. counter'[k] # counter[k]  BY <2>6
      <3>2. c = k  BY <2>1, <3>1, ZenonT(40) DEF TypeOK
      <3>3. counter'[k] = counter[k] + amount  BY <2>1, <3>2, Zenon DEF TypeOK
      <3>4. counter[k] + amount < Word  BY <3>3, Zenon DEF NoOverflow
      <3>5. Uint32(counter[k] + amount) = counter[k] + amount
        BY <2>2, <3>2, <3>4, WordAssumption DEF Uint32
      <3>6. result'[p][i] = counter[k] + amount /\ Counted(p, i)'
        BY <2>1, <3>2, <3>5 DEF TypeOK, Counted
      <3>7. CacheKey(p, i)' = k /\ IncrAmount(p, i)' = amount
        BY <2>3, <3>2, SameCallFrame, Zenon
      <3>8. counter[k] + amount - amount < n /\ n <= counter[k] + amount
        BY <2>2, <2>6, <3>2, <3>3
      <3>9. result'[p][i] - IncrAmount(p, i)' < n /\ n <= result'[p][i]
        BY <2>2, <3>2, <3>6, <3>7, <3>8
      <3>10. Covers(p, i, n)'  BY <3>9, Zenon DEF Covers
      <3> QED  BY <3>6, <3>7, <3>10, Zenon
    <2> QED  BY <2>5, <2>6
  <1> QED  BY <1>2, <1>3, Zenon

DoneOK(p) ==
    /\ pc[p] = "reply" =>
         \A i \in Idx : HasKey(p, i) /\ i < idx[p] => status[p][i].code # "none"
    /\ pc[p] = "done" =>
         \A i \in Idx : HasKey(p, i) => status[p][i].code # "none"

DoneInv == \A p \in Request : DoneOK(p)

\* Only answering moves a call on among its answers.
LEMMA PhaseSteps ==
    ASSUME TypeOK, PhaseInv, AnswerInv, [Next]_vars, NEW p \in Request, ~Reply(p)
    PROVE  \/ UNCHANGED <<pc[p], args[p], idx[p], status[p]>>
           \/ pc'[p] \notin {"reply", "done"}
           \/ pc'[p] = "reply" /\ idx'[p] = 1
  <1> DEFINE Goal == \/ UNCHANGED <<pc[p], args[p], idx[p], status[p]>>
                     \/ pc'[p] \notin {"reply", "done"}
                     \/ pc'[p] = "reply" /\ idx'[p] = 1
  <1>1. ASSUME NEW q \in Request, GenerateCacheKeys(q) \/ Fail(q) PROVE Goal
    BY <1>1, Zenon DEF GenerateCacheKeys, Fail, given, TypeOK
  <1>2. ASSUME NEW q \in Request, LookupLocalCache(q) PROVE Goal
    <2>1. CASE q # p  BY <1>2, <2>1, Zenon DEF LookupLocalCache, given, TypeOK
    <2>2. CASE q = p
      <3>1. /\ pc[p] = "local"
            /\ \/ pc' = pc
               \/ /\ idx' = [idx EXCEPT ![p] = 1]
                  /\ \E over : pc' = [pc EXCEPT ![p] = NextPhase(p, over)]
        BY <1>2, <2>2, Zenon DEF LookupLocalCache
      <3> QED  BY <3>1, Zenon DEF NextPhase, TypeOK
    <2> QED  BY <2>1, <2>2
  <1>3. ASSUME NEW q \in Request, NEW i \in Idx, Get(q, i) \/ IncrBy(q, i) \/ Expire(q, i)
        PROVE  Goal
    <2>1. CASE q # p  BY <1>3, <2>1, Zenon DEF Get, IncrBy, Expire, given, TypeOK
    <2>2. CASE q = p
      <3>1. pc[p] \in {"get", "incr"} /\ idx' = idx /\ pc'[p] \in {pc[p], "incr", "reply"}
        BY <1>3, <2>2, Zenon DEF Get, IncrBy, Expire, TypeOK
      <3>2. idx[p] = 1  BY <3>1, Zenon DEF AnswerInv, AnswerOK
      <3> QED  BY <3>1, <3>2, Zenon
    <2> QED  BY <2>1, <2>2
  <1>4. ASSUME NEW q \in Request, Reply(q), q # p PROVE Goal
    BY <1>4, Zenon DEF Reply, given, TypeOK
  <1>5. CASE Tick \/ (\E k \in Key : RedisExpire(k) \/ Evict(k)) \/ UNCHANGED vars
    BY <1>5, Zenon DEF Tick, RedisExpire, Evict, vars, frame, given
  <1> QED  BY <1>1, <1>2, <1>3, <1>4, <1>5, NextCases, Zenon

\* An answer is one of the two codes.
LEMMA Answered ==
    ASSUME TypeOK, NEW p \in Request, NEW i \in Idx
    PROVE  Status(p, i).code # "none"
  BY Zenon DEF Status, ResponseCode

\* Only Reply answers, in order, so DoneInv is kept.
LEMMA DoneNext ==
    ASSUME TypeOK, PhaseInv, AnswerInv, DoneInv, [Next]_vars
    PROVE  DoneInv'
  <1> SUFFICES ASSUME NEW p \in Request PROVE DoneOK(p)'  BY Zenon DEF DoneInv
  <1>1. DoneOK(p)  BY Zenon DEF DoneInv
  <1>2. CASE UNCHANGED <<pc[p], args[p], idx[p], status[p]>>
    BY <1>1, <1>2, Zenon DEF DoneOK, HasKey, Used
  <1>3. CASE pc'[p] \notin {"reply", "done"}  BY <1>3, Zenon DEF DoneOK
  <1>4. CASE pc'[p] = "reply" /\ idx'[p] = 1
    <2>1. \A i \in Idx : ~(i < 1)  BY DEF Idx
    <2>2. pc'[p] # "done"  BY <1>4
    <2> QED  BY <1>4, <2>1, <2>2, Zenon DEF DoneOK
  <1>5. CASE Reply(p)
    <2>1. /\ pc[p] = "reply" /\ args' = args /\ idx[p] \in Idx
          /\ status' = [status EXCEPT ![p][idx[p]] = Status(p, idx[p])]
          /\ \/ idx'[p] = idx[p] + 1 /\ pc'[p] = "reply"
             \/ idx[p] = args[p].n /\ pc'[p] = "done"
      BY <1>5, Zenon DEF Reply, given, TypeOK
    <2>2. ASSUME NEW i \in Idx, HasKey(p, i), i <= idx[p]
          PROVE  status'[p][i].code # "none"
      <3>1. CASE i = idx[p]
        <4>1. status'[p][i] = Status(p, i)  BY <2>1, <3>1, ZenonT(40) DEF TypeOK
        <4> QED  BY <4>1, Answered, Zenon
      <3>2. CASE i # idx[p]
        <4>1. status'[p][i] = status[p][i]  BY <2>1, <3>2, Zenon DEF TypeOK
        <4>2. i < idx[p]  BY <2>1, <2>2, <3>2 DEF Idx
        <4> QED  BY <1>1, <2>1, <2>2, <4>1, <4>2, Zenon DEF DoneOK
      <3> QED  BY <3>1, <3>2
    <2>3. \A i \in Idx : HasKey(p, i)' = HasKey(p, i)  BY <2>1, Zenon DEF HasKey, Used
    <2>4. \A i \in Idx : i < idx[p] + 1 => i <= idx[p]  BY <2>1 DEF Idx
    <2>5. \A i \in Idx : HasKey(p, i) => i <= args[p].n
      BY CallFacts DEF HasKey, Used, Idx
    <2>6. CASE idx'[p] = idx[p] + 1 /\ pc'[p] = "reply"
      BY <2>2, <2>3, <2>4, <2>6, Zenon DEF DoneOK
    <2>7. CASE idx[p] = args[p].n /\ pc'[p] = "done"
      BY <2>2, <2>3, <2>5, <2>7, Zenon DEF DoneOK
    <2> QED  BY <2>1, <2>6, <2>7
  <1> QED  BY <1>2, <1>3, <1>4, <1>5, PhaseSteps, Zenon

\* The near-limit threshold is not above the limit: the ratio is at most 1.
LEMMA NearIsBelow ==
    ASSUME NEW l \in Nat
    PROVE  NearLimitThreshold(l) \in 0..l
  <1> DEFINE m == l * NearNum
             t == m \div NearDen
  <1>1. m \in Nat /\ l * NearDen \in Nat  BY RatioAssumption
  <1>2. m <= l * NearDen  BY RatioAssumption
  <1> HIDE DEF m
  <1>3. t \in Nat /\ t * NearDen <= m  BY <1>1, RatioAssumption
  <1> HIDE DEF t
  <1>4. t * NearDen <= l * NearDen  BY <1>1, <1>2, <1>3, RatioAssumption
  <1>5. t <= l  BY <1>3, <1>4, RatioAssumption
  <1>6. t = NearLimitThreshold(l)  BY DEF m, t, NearLimitThreshold
  <1> QED  BY <1>3, <1>5, <1>6

\* The size of the part of (b, e] in (lo, hi].
Overlap(b, e, lo, hi) ==
    LET top == IF e < hi THEN e ELSE hi
        low == IF b > lo THEN b ELSE lo
    IN  IF top <= low THEN 0 ELSE top - low

\* INCRBY took a counter from b to e, in the range of a uint32.
Raised(limit, b, hits, e) ==
    limit \in Nat /\ b \in Nat /\ hits \in Nat /\ e = b + hits /\ e < Word

\* What a descriptor that INCRBY counted in full adds to the statistics, when its
\* result was not below its hits: the part of (b, b + hits] above the limit, and
\* the part between the threshold and the limit.
LEMMA OverIncrease ==
    ASSUME NEW limit, NEW b, NEW hits, NEW e, Raised(limit, b, hits, e), NEW shadow
    PROVE  StatIncrease("OverLimit", FALSE, NewRateLimitInfo(limit, b, e), hits, shadow)
             = Overlap(b, e, limit, e)
  <1>0. limit \in Nat /\ b \in Nat /\ hits \in Nat /\ e = b + hits /\ e < Word
    BY Zenon DEF Raised
  <1> USE <1>0
  <1> DEFINE info == NewRateLimitInfo(limit, b, b + hits)
  <1>1. /\ info.overLimitThreshold = limit
        /\ info.limitBeforeIncrease = b /\ info.limitAfterIncrease = b + hits
    BY Zenon DEF NewRateLimitInfo
  <1> HIDE DEF info
  <1>2. b + hits > limit => Uint32(b + hits - limit) = b + hits - limit
    BY Uint32Range, WordAssumption
  <1>3. IsOverLimitThresholdReached(info) <=> b + hits > limit
    BY <1>1, Zenon DEF IsOverLimitThresholdReached
  <1>4. b + hits > limit =>
          OverLimitHits(info, hits) = IF b >= limit THEN hits ELSE b + hits - limit
    <2>1. OverLimitHits(info, hits) = IF b >= limit THEN hits ELSE Uint32(b + hits - limit)
      BY <1>1 DEF OverLimitHits
    <2> QED  BY <1>2, <2>1, Zenon
  <1>5. ~(b + hits > limit) <=> b + hits <= limit  OBVIOUS
  <1>6. StatIncrease("OverLimit", FALSE, info, hits, shadow)
          = IF IsOverLimitThresholdReached(info) THEN OverLimitHits(info, hits) ELSE 0
    BY DEF StatIncrease
  <1> DEFINE v == IF b + hits <= limit THEN 0
                  ELSE IF b >= limit THEN hits ELSE b + hits - limit
  <1>7. StatIncrease("OverLimit", FALSE, info, hits, shadow) = v
    BY <1>3, <1>4, <1>5, <1>6, Zenon
  <1>8. v = Overlap(b, b + hits, limit, b + hits)  BY DEF Overlap
  <1> HIDE DEF v
  <1> QED  BY <1>7, <1>8, Zenon DEF info

\* The same for near_limit, between the near threshold and the limit.
LEMMA NearIncrease ==
    ASSUME NEW limit, NEW b, NEW hits, NEW e, Raised(limit, b, hits, e), NEW shadow
    PROVE  StatIncrease("NearLimit", FALSE, NewRateLimitInfo(limit, b, e), hits, shadow)
             = Overlap(b, e, NearLimitThreshold(limit), limit)
  <1>0. limit \in Nat /\ b \in Nat /\ hits \in Nat /\ e = b + hits /\ e < Word
    BY Zenon DEF Raised
  <1> USE <1>0
  <1> DEFINE info == NewRateLimitInfo(limit, b, b + hits)
             near == NearLimitThreshold(limit)
  <1>1. /\ info.overLimitThreshold = limit /\ info.nearLimitThreshold = near
        /\ info.limitBeforeIncrease = b /\ info.limitAfterIncrease = b + hits
    BY Zenon DEF NewRateLimitInfo
  <1>2. near \in Nat /\ near <= limit  BY NearIsBelow
  <1> HIDE DEF info, near
  <1>3. IsOverLimitThresholdReached(info) <=> b + hits > limit
    BY <1>1, Zenon DEF IsOverLimitThresholdReached
  <1>4. StatIncrease("NearLimit", FALSE, info, hits, shadow)
          = IF IsOverLimitThresholdReached(info)
            THEN NearHitsWhenOver(info) ELSE NearHitsWhenWithin(info, hits)
    BY DEF StatIncrease
  <1>5. CASE b + hits > limit
    <2>1. b < limit => Uint32(limit - UMax(near, b)) = limit - UMax(near, b)
      <3>1. UMax(near, b) \in Nat /\ (b < limit => UMax(near, b) <= limit)
        BY <1>2 DEF UMax
      <3>2. b < limit => limit - UMax(near, b) \in 0..(Word - 1)
        BY <1>5, <3>1, WordAssumption
      <3> QED  BY <3>1, <3>2, Uint32Range
    <2>2. NearHitsWhenOver(info) = IF b >= limit THEN 0 ELSE limit - UMax(near, b)
      <3>1. ~(b >= limit) => b < limit  OBVIOUS
      <3> QED  BY <1>1, <2>1, <3>1, Zenon DEF NearHitsWhenOver
    <2>3. (IF b >= limit THEN 0 ELSE limit - UMax(near, b)) = Overlap(b, b + hits, near, limit)
      BY <1>2, <1>5 DEF Overlap, UMax
    <2> QED  BY <1>3, <1>4, <1>5, <2>2, <2>3, Zenon DEF info, near
  <1>6. CASE ~(b + hits > limit)
    <2>1. b + hits > near => Uint32(b + hits - near) = b + hits - near
      BY <1>2, Uint32Range, WordAssumption
    <2>2. NearHitsWhenWithin(info, hits)
            = IF b + hits <= near THEN 0 ELSE IF b >= near THEN hits ELSE b + hits - near
      <3>1. ~(b + hits <= near) => b + hits > near  BY <1>2
      <3>2. NearHitsWhenWithin(info, hits)
              = IF b + hits <= near THEN 0
                ELSE IF b >= near THEN hits ELSE Uint32(b + hits - near)
        BY <1>1, <1>2 DEF NearHitsWhenWithin
      <3> QED  BY <2>1, <3>1, <3>2, Zenon
    <2>3. (IF b + hits <= near THEN 0 ELSE IF b >= near THEN hits ELSE b + hits - near)
            = Overlap(b, b + hits, near, limit)
      BY <1>2, <1>6 DEF Overlap
    <2> QED  BY <1>3, <1>4, <1>6, <2>2, <2>3, Zenon DEF info, near
  <1> QED  BY <1>5, <1>6, Zenon

\* The descriptors of rule d that have been answered, their hits beyond the limit,
\* and their hits between the threshold and the limit.
AnsweredOn(d) ==
    {s \in Request \X Idx :
       /\ HasKey(s[1], s[2]) /\ args[s[1]].desc[s[2]] = d
       /\ status[s[1]][s[2]].code # "none"}

OverOf(p, i) ==
    {j \in 1..HitsAddend(p) :
       \/ i \in overLocal[p]
       \/ args[p].limit[i] < result[p][i] - HitsAddend(p) + j}

NearOf(p, i) ==
    {j \in 1..HitsAddend(p) :
       /\ i \notin overLocal[p]
       /\ NearLimitThreshold(args[p].limit[i]) < result[p][i] - HitsAddend(p) + j
       /\ result[p][i] - HitsAddend(p) + j <= args[p].limit[i]}

OverHits(d) == UNION {{s} \X OverOf(s[1], s[2]) : s \in AnsweredOn(d)}
NearHits(d) == UNION {{s} \X NearOf(s[1], s[2]) : s \in AnsweredOn(d)}

\* The statistics are the numbers of those hits.
StatInv ==
    \A d \in Descriptor : Unexpired(d) =>
       /\ IsFiniteSet(OverHits(d)) /\ stats[d]["OverLimit"] = Cardinality(OverHits(d))
       /\ IsFiniteSet(NearHits(d)) /\ stats[d]["NearLimit"] = Cardinality(NearHits(d))

IsAnswered(p, i, d) ==
    HasKey(p, i) /\ args[p].desc[i] = d /\ status[p][i].code # "none"

\* The answer of a descriptor is there, and rests on the same counts.
SameAnswer(p, i, d) ==
    /\ IsAnswered(p, i, d)' <=> IsAnswered(p, i, d)
    /\ IsAnswered(p, i, d) => /\ OverOf(p, i)' = OverOf(p, i)
                              /\ NearOf(p, i)' = NearOf(p, i)

\* Answers that rest on the same counts contribute the same hits.
LEMMA SameHits ==
    ASSUME NEW d, \A p \in Request, i \in Idx : SameAnswer(p, i, d)
    PROVE  OverHits(d)' = OverHits(d) /\ NearHits(d)' = NearHits(d)
  <1>1. ASSUME NEW s \in Request \X Idx
        PROVE  /\ (s \in AnsweredOn(d))' <=> s \in AnsweredOn(d)
               /\ s \in AnsweredOn(d) => /\ OverOf(s[1], s[2])' = OverOf(s[1], s[2])
                                         /\ NearOf(s[1], s[2])' = NearOf(s[1], s[2])
    <2>1. s[1] \in Request /\ s[2] \in Idx  OBVIOUS
    <2> QED  BY <2>1, Zenon DEF AnsweredOn, SameAnswer, IsAnswered
  <1>2. AnsweredOn(d)' = AnsweredOn(d)  BY <1>1, Zenon DEF AnsweredOn
  <1>3. ASSUME NEW s \in AnsweredOn(d)
        PROVE  /\ OverOf(s[1], s[2])' = OverOf(s[1], s[2])
               /\ NearOf(s[1], s[2])' = NearOf(s[1], s[2])
    BY <1>1, Zenon DEF AnsweredOn
  <1> QED  BY <1>2, <1>3, Zenon DEF OverHits, NearHits

\* What an answer contributes depends only on what the call was given.
LEMMA SameCounts ==
    ASSUME NEW p \in Request, NEW i \in Idx,
           args'[p] = args[p], overLocal'[p] = overLocal[p], result'[p] = result[p]
    PROVE  OverOf(p, i)' = OverOf(p, i) /\ NearOf(p, i)' = NearOf(p, i)
  BY Zenon DEF OverOf, NearOf, HitsAddend

\* No step but a Reply changes an answer, or a statistic about limits.
LEMMA OtherStepsSameHits ==
    ASSUME TypeOK, PhaseInv, AnswerInv, [Next]_vars, \A p \in Request : ~Reply(p),
           NEW d \in Descriptor
    PROVE  /\ OverHits(d)' = OverHits(d) /\ NearHits(d)' = NearHits(d)
           /\ stats'[d]["OverLimit"] = stats[d]["OverLimit"]
           /\ stats'[d]["NearLimit"] = stats[d]["NearLimit"]
  <1>1. ASSUME NEW p \in Request, NEW i \in Idx PROVE SameAnswer(p, i, d)
    <2>1. CASE Untouched(p)
      <3>1. OverOf(p, i)' = OverOf(p, i) /\ NearOf(p, i)' = NearOf(p, i)
        BY <2>1, SameCounts, Zenon DEF Untouched
      <3>2. IsAnswered(p, i, d)' <=> IsAnswered(p, i, d)
        BY <2>1, Zenon DEF Untouched, IsAnswered, HasKey, Used
      <3> QED  BY <3>1, <3>2, Zenon DEF SameAnswer
    <2>2. CASE status'[p] = status[p] /\ pc[p] \in {"idle", "local", "get", "incr"}
      <3>1. status[p][i].code = "none"  BY <2>2, Zenon DEF AnswerInv, AnswerOK
      <3> QED  BY <2>2, <3>1, Zenon DEF SameAnswer, IsAnswered
    <2> QED  BY <2>1, <2>2, CallSteps, Zenon
  <1>2. \/ stats' = stats
        \/ \E p \in Request : GenerateCacheKeys(p)
    BY NextCases, ZenonT(40) DEF LookupLocalCache, Get, IncrBy, Expire, Fail, Tick, RedisExpire,
                            Evict, vars
  <1>3. ASSUME NEW p \in Request, GenerateCacheKeys(p)
        PROVE  /\ stats'[d]["OverLimit"] = stats[d]["OverLimit"]
               /\ stats'[d]["NearLimit"] = stats[d]["NearLimit"]
    <2>1. PICK n : stats'[d] = [stats[d] EXCEPT !["TotalHits"] = n]
      BY <1>3, Zenon DEF GenerateCacheKeys
    <2>2. stats[d] \in [StatNames \cup {"TotalHits"} -> Nat]  BY Zenon DEF TypeOK
    <2> QED  BY <2>1, <2>2 DEF StatNames
  <1> QED  BY <1>1, <1>2, <1>3, SameHits, Zenon

\* A Reply answers one descriptor, on counts that stay.
LEMMA ReplyCounts ==
    ASSUME TypeOK, AnswerInv, NEW p \in Request, Reply(p)
    PROVE  /\ pc[p] = "reply" /\ idx[p] \in Idx /\ status[p][idx[p]].code = "none"
           /\ status'[p][idx[p]].code # "none"
           /\ UNCHANGED <<args, overLocal, result>>
           /\ \A q \in Request, j \in Idx : ~(q = p /\ j = idx[p]) =>
                status'[q][j] = status[q][j]
           /\ \A d \in Descriptor : stats'[d] = StatsAfter(p, idx[p], d)
  <1>1. /\ pc[p] = "reply" /\ idx[p] \in Idx
        /\ status' = [status EXCEPT ![p][idx[p]] = Status(p, idx[p])]
        /\ UNCHANGED <<args, overLocal, result>>
        /\ stats' = [d \in Descriptor |-> StatsAfter(p, idx[p], d)]
    BY Zenon DEF Reply, given, TypeOK
  <1>2. idx[p] >= idx[p]  BY <1>1 DEF Idx
  <1>3. status[p][idx[p]].code = "none"  BY <1>1, <1>2, Zenon DEF AnswerInv, AnswerOK
  <1>4. status'[p][idx[p]] = Status(p, idx[p])  BY <1>1, Zenon DEF TypeOK
  <1>5. \A q \in Request, j \in Idx : ~(q = p /\ j = idx[p]) => status'[q][j] = status[q][j]
    BY <1>1, Zenon DEF TypeOK
  <1>6. \A d \in Descriptor : stats'[d] = StatsAfter(p, idx[p], d)  BY <1>1
  <1> QED  BY <1>1, <1>3, <1>4, <1>5, <1>6, Answered, Zenon

\* A Reply to a descriptor of another rule, or of none.
LEMMA ReplyElsewhere ==
    ASSUME TypeOK, AnswerInv, NEW p \in Request, Reply(p), NEW d \in Descriptor,
           ~(HasKey(p, idx[p]) /\ args[p].desc[idx[p]] = d)
    PROVE  /\ OverHits(d)' = OverHits(d) /\ NearHits(d)' = NearHits(d)
           /\ stats'[d] = stats[d]
  <1>1. ASSUME NEW q \in Request, NEW j \in Idx PROVE SameAnswer(q, j, d)
    <2>1. OverOf(q, j)' = OverOf(q, j) /\ NearOf(q, j)' = NearOf(q, j)
      BY ReplyCounts, SameCounts, Zenon
    <2>2. IsAnswered(q, j, d)' <=> IsAnswered(q, j, d)
      BY ReplyCounts, ZenonT(40) DEF IsAnswered, HasKey, Used
    <2> QED  BY <2>1, <2>2, Zenon DEF SameAnswer
  <1>2. stats'[d] = stats[d]
    <2>1. stats'[d] = StatsAfter(p, idx[p], d)  BY ReplyCounts, Zenon
    <2> QED  BY <2>1, Zenon DEF StatsAfter
  <1> QED  BY <1>1, <1>2, SameHits, Zenon

\* A Reply to a descriptor of the rule adds its hits to those answered.
LEMMA ReplyAdds ==
    ASSUME TypeOK, AnswerInv, NEW p \in Request, Reply(p), NEW d \in Descriptor,
           HasKey(p, idx[p]), args[p].desc[idx[p]] = d
    PROVE  /\ OverHits(d)' = OverHits(d) \cup ({<<p, idx[p]>>} \X OverOf(p, idx[p]))
           /\ NearHits(d)' = NearHits(d) \cup ({<<p, idx[p]>>} \X NearOf(p, idx[p]))
           /\ \A x \in OverHits(d) \cup NearHits(d) : x[1] # <<p, idx[p]>>
           /\ \A s \in {"OverLimit", "NearLimit"} :
                stats'[d][s] = stats[d][s] +
                  StatIncrease(s, idx[p] \in overLocal[p], LimitInfo(p, idx[p]),
                               HitsAddend(p), d \in ShadowMode)
  <1> DEFINE t == <<p, idx[p]>>
  <1>1. t \in Request \X Idx /\ t[1] = p /\ t[2] = idx[p]  BY ReplyCounts
  <1>2. ASSUME NEW q \in Request, NEW j \in Idx
        PROVE  /\ OverOf(q, j)' = OverOf(q, j) /\ NearOf(q, j)' = NearOf(q, j)
               /\ IsAnswered(q, j, d)' <=> IsAnswered(q, j, d) \/ (q = p /\ j = idx[p])
    <2>1. OverOf(q, j)' = OverOf(q, j) /\ NearOf(q, j)' = NearOf(q, j)
      BY ReplyCounts, SameCounts, Zenon
    <2>2. /\ HasKey(q, j)' <=> HasKey(q, j)
          /\ args'[q].desc[j] = args[q].desc[j]
      BY ReplyCounts, Zenon DEF HasKey, Used
    <2>3. CASE q = p /\ j = idx[p]  BY <2>1, <2>2, <2>3, ReplyCounts, Zenon DEF IsAnswered
    <2>4. CASE ~(q = p /\ j = idx[p])
      <3>1. status'[q][j] = status[q][j]  BY <2>4, ReplyCounts, ZenonT(40)
      <3> QED  BY <2>1, <2>2, <2>4, <3>1, Zenon DEF IsAnswered
    <2> QED  BY <2>3, <2>4
  <1>3. t \notin AnsweredOn(d)  BY <1>1, ReplyCounts, Zenon DEF AnsweredOn
  <1>4. AnsweredOn(d)' = AnsweredOn(d) \cup {t}
    <2>1. ASSUME NEW s \in Request \X Idx
          PROVE  (s \in AnsweredOn(d))' <=> s \in AnsweredOn(d) \/ s = t
      <3>1. s[1] \in Request /\ s[2] \in Idx /\ (s = t <=> s[1] = p /\ s[2] = idx[p])
        OBVIOUS
      <3> QED  BY <1>2, <3>1, Zenon DEF AnsweredOn, IsAnswered
    <2> QED  BY <1>1, <2>1, Zenon DEF AnsweredOn
  <1>5. \A s \in AnsweredOn(d) : s[1] \in Request /\ s[2] \in Idx  BY DEF AnsweredOn
  <1>6. /\ OverHits(d)' = UNION {{s} \X OverOf(s[1], s[2]) : s \in AnsweredOn(d) \cup {t}}
        /\ NearHits(d)' = UNION {{s} \X NearOf(s[1], s[2]) : s \in AnsweredOn(d) \cup {t}}
    <2>1. \A s \in AnsweredOn(d) \cup {t} : /\ OverOf(s[1], s[2])' = OverOf(s[1], s[2])
                                           /\ NearOf(s[1], s[2])' = NearOf(s[1], s[2])
      BY <1>1, <1>2, <1>5, Zenon
    <2> HIDE DEF t
    <2> QED  BY <1>4, <2>1, Zenon DEF OverHits, NearHits
  <1>7. \A x \in OverHits(d) \cup NearHits(d) : x[1] \in AnsweredOn(d)
    BY DEF OverHits, NearHits
  <1>8. ASSUME NEW s \in {"OverLimit", "NearLimit"}
        PROVE  stats'[d][s] = stats[d][s] +
                  StatIncrease(s, idx[p] \in overLocal[p], LimitInfo(p, idx[p]),
                               HitsAddend(p), d \in ShadowMode)
    <2>1. s \in DOMAIN stats[d] /\ s # "TotalHits"  BY DEF TypeOK, StatNames
    <2>2. stats'[d] = StatsAfter(p, idx[p], d)  BY ReplyCounts, Zenon
    <2> QED  BY <2>1, <2>2, Zenon DEF StatsAfter
  <1> HIDE DEF t
  <1>9. /\ UNION {{s} \X OverOf(s[1], s[2]) : s \in AnsweredOn(d) \cup {t}}
             = OverHits(d) \cup ({t} \X OverOf(t[1], t[2]))
        /\ UNION {{s} \X NearOf(s[1], s[2]) : s \in AnsweredOn(d) \cup {t}}
             = NearHits(d) \cup ({t} \X NearOf(t[1], t[2]))
    BY ZenonT(40) DEF OverHits, NearHits
  <1> QED  BY <1>1, <1>3, <1>6, <1>7, <1>8, <1>9, Zenon DEF t

\* What is answered by Redis was counted in full, above what others had counted.
LEMMA CountedInFull ==
    ASSUME TypeOK, PhaseInv, SlotInv, NoOverflow, ~StopCacheKeyIncrementWhenOverlimit,
           NEW p \in Request, NEW i \in Idx, pc[p] \in {"reply", "done"},
           HasKey(p, i), i \notin overLocal[p], CacheKey(p, i) \notin expired
    PROVE  /\ Counted(p, i) /\ IncrAmount(p, i) = HitsAddend(p)
           /\ result[p][i] - HitsAddend(p) \in Nat /\ result[p][i] \in 0..(Word - 1)
           /\ result[p][i] <= counter[CacheKey(p, i)]
           /\ LimitInfo(p, i) = NewRateLimitInfo(args[p].limit[i],
                                  result[p][i] - HitsAddend(p), result[p][i])
  <1>1. Counted(p, i)  BY Zenon DEF PhaseInv, PhaseOK, Counted
  <1>2. IncrAmount(p, i) = HitsAddend(p)  BY Zenon DEF IncrAmount, HitsAddendForRedis
  <1>3. CacheKey(p, i) \in Key  BY KeyFacts, Zenon
  <1>4. HitsAddend(p) <= result[p][i] /\ result[p][i] <= counter[CacheKey(p, i)]
    BY <1>1, <1>2, <1>3, Zenon DEF SlotInv, SlotOK, NoOverflow
  <1>5. HitsAddend(p) \in Nat /\ result[p][i] \in 0..(Word - 1)
    BY CallFacts, LimitInfoFacts, Zenon
  <1>6. result[p][i] - HitsAddend(p) \in Nat /\ result[p][i] - HitsAddend(p) \in 0..(Word - 1)
    BY <1>4, <1>5, WordAssumption
  <1>7. Uint32(result[p][i] - HitsAddend(p)) = result[p][i] - HitsAddend(p)
    BY <1>6, Uint32Range
  <1> QED  BY <1>1, <1>2, <1>4, <1>5, <1>6, <1>7, Zenon DEF LimitInfo

(***************************************************************************)
(* When every call has been answered.  The hits on a key are those Redis   *)
(* counted, each at a place of its own in 1..counter[k], and those refused *)
(* by the local cache, if any, when the counter was past the limit.        *)
(***************************************************************************)
Settled(rpu) ==
    /\ TypeOK /\ PhaseInv /\ AnswerInv /\ DoneInv /\ SlotInv /\ NoSharedQuota /\ TileInv
    /\ NoOverflow /\ LocalCacheSound /\ LimitInv(rpu) /\ rpu \in [Descriptor -> Nat]
    /\ ~StopCacheKeyIncrementWhenOverlimit /\ Quiescent

LocalHits(k) == {x \in HitsOf(SlotsOn(k)) : x[1][2] \in overLocal[x[1][1]]}
RedisHits(k) == {x \in HitsOf(SlotsOn(k)) : x[1][2] \notin overLocal[x[1][1]]}
Place(x) == result[x[1][1]][x[1][2]] - HitsAddend(x[1][1]) + x[2]

\* A slot when no call is in progress: answered, under the one limit of its rule, and
\* either counted in full or refused over a used-up window.
LEMMA SlotAtRest ==
    ASSUME NEW rpu, Settled(rpu), NEW p \in Request, NEW i \in Idx,
           HasKey(p, i), CacheKey(p, i) \notin expired
    PROVE  /\ IsAnswered(p, i, CacheKey(p, i)[1]) /\ CacheKey(p, i) \in Key
           /\ CacheKey(p, i)[1] \in Descriptor
           /\ args[p].limit[i] = rpu[CacheKey(p, i)[1]] /\ HitsAddend(p) \in Nat
           /\ i \in overLocal[p] => counter[CacheKey(p, i)] > rpu[CacheKey(p, i)[1]]
           /\ i \notin overLocal[p] =>
                /\ Counted(p, i) /\ IncrAmount(p, i) = HitsAddend(p)
                /\ result[p][i] - HitsAddend(p) \in Nat /\ result[p][i] \in Nat
                /\ result[p][i] <= counter[CacheKey(p, i)]
  <1>1. pc[p] = "done"  BY Zenon DEF Settled, Quiescent, AnswerInv, AnswerOK
  <1>2. /\ CacheKey(p, i) \in Key /\ CacheKey(p, i)[1] = args[p].desc[i]
        /\ args[p].desc[i] \in Descriptor
    BY KeyFacts, Zenon DEF Settled
  <1>3. IsAnswered(p, i, args[p].desc[i])
    BY <1>1, Zenon DEF Settled, DoneInv, DoneOK, IsAnswered
  <1>4. args[p].limit[i] = rpu[args[p].desc[i]]  BY Zenon DEF Settled, LimitInv
  <1>5. HitsAddend(p) \in Nat  BY CallFacts, Zenon DEF Settled
  <1>6. i \in overLocal[p] => counter[CacheKey(p, i)] > args[p].limit[i]
    BY Zenon DEF Settled, LocalCacheSound
  <1>7. ASSUME i \notin overLocal[p]
        PROVE  /\ Counted(p, i) /\ IncrAmount(p, i) = HitsAddend(p)
               /\ result[p][i] - HitsAddend(p) \in Nat /\ result[p][i] \in 0..(Word - 1)
               /\ result[p][i] <= counter[CacheKey(p, i)]
    BY <1>1, <1>7, CountedInFull, Zenon DEF Settled
  <1>8. i \notin overLocal[p] => result[p][i] \in Nat  BY <1>7, WordAssumption
  <1> QED  BY <1>2, <1>3, <1>4, <1>5, <1>6, <1>7, <1>8, Zenon

\* The hits on a key, as pairs of a slot and a number.
LEMMA HitFacts ==
    ASSUME NEW k, NEW x
    PROVE  x \in HitsOf(SlotsOn(k)) <=>
             /\ x = <<x[1], x[2]>> /\ x[1] = <<x[1][1], x[1][2]>>
             /\ x[1][1] \in Request /\ x[1][2] \in Idx
             /\ HasKey(x[1][1], x[1][2]) /\ CacheKey(x[1][1], x[1][2]) = k
             /\ x[2] \in 1..HitsAddend(x[1][1])
  <1>1. x \in HitsOf(SlotsOn(k)) <=>
          x = <<x[1], x[2]>> /\ x[1] \in SlotsOn(k) /\ x[2] \in 1..HitsAddend(x[1][1])
    BY DEF HitsOf
  <1>2. x[1] \in SlotsOn(k) <=>
          /\ x[1] = <<x[1][1], x[1][2]>> /\ x[1][1] \in Request /\ x[1][2] \in Idx
          /\ HasKey(x[1][1], x[1][2]) /\ CacheKey(x[1][1], x[1][2]) = k
    BY DEF SlotsOn
  <1> QED  BY <1>1, <1>2, Zenon

\* The hits counted on a key correspond one to one to the numbers up to its counter.
LEMMA Places ==
    ASSUME NEW rpu, Settled(rpu), NEW k \in Key \ expired
    PROVE  /\ \A x \in RedisHits(k) : Place(x) \in 1..counter[k]
           /\ \A x, y \in RedisHits(k) : Place(x) = Place(y) => x = y
           /\ \A n \in 1..counter[k] : \E x \in RedisHits(k) : Place(x) = n
  <1>0. counter[k] \in Nat /\ counter[k] < Word  BY Zenon DEF Settled, TypeOK, NoOverflow
  <1>1. ASSUME NEW x \in RedisHits(k)
        PROVE  \E p \in Request, i \in Idx, j \in Nat :
                 /\ x = <<<<p, i>>, j>> /\ Place(x) = result[p][i] - HitsAddend(p) + j
                 /\ Counted(p, i) /\ CacheKey(p, i) = k /\ IncrAmount(p, i) = HitsAddend(p)
                 /\ j \in 1..HitsAddend(p) /\ HitsAddend(p) \in Nat
                 /\ result[p][i] - HitsAddend(p) \in Nat /\ result[p][i] \in Nat
                 /\ result[p][i] <= counter[k]
    <2> DEFINE p == x[1][1]
               i == x[1][2]
               j == x[2]
    <2>1. /\ x = <<<<p, i>>, j>> /\ p \in Request /\ i \in Idx
          /\ HasKey(p, i) /\ CacheKey(p, i) = k /\ j \in 1..HitsAddend(p)
          /\ i \notin overLocal[p]
      BY HitFacts, Zenon DEF RedisHits
    <2>2. Place(x) = result[p][i] - HitsAddend(p) + j  BY Zenon DEF Place
    <2> HIDE DEF p, i, j
    <2>3. j \in Nat  BY <2>1, SlotAtRest
    <2> QED  BY <2>1, <2>2, <2>3, SlotAtRest, Zenon
  <1>2. ASSUME NEW x \in RedisHits(k) PROVE Place(x) \in 1..counter[k]
    <2>1. PICK p \in Request, i \in Idx, j \in Nat :
             /\ Place(x) = result[p][i] - HitsAddend(p) + j
             /\ j \in 1..HitsAddend(p) /\ HitsAddend(p) \in Nat
             /\ result[p][i] - HitsAddend(p) \in Nat /\ result[p][i] \in Nat
             /\ result[p][i] <= counter[k]
      BY <1>1, Zenon
    <2> QED  BY <1>0, <2>1
  <1>3. ASSUME NEW x \in RedisHits(k), NEW y \in RedisHits(k), Place(x) = Place(y)
        PROVE  x = y
    <2>1. PICK p \in Request, i \in Idx, j \in Nat :
                 /\ x = <<<<p, i>>, j>> /\ Place(x) = result[p][i] - HitsAddend(p) + j
                 /\ Counted(p, i) /\ CacheKey(p, i) = k /\ IncrAmount(p, i) = HitsAddend(p)
                 /\ j \in 1..HitsAddend(p) /\ HitsAddend(p) \in Nat /\ result[p][i] \in Nat
      BY <1>1, Zenon
    <2>2. PICK q \in Request, m \in Idx, l \in Nat :
                 /\ y = <<<<q, m>>, l>> /\ Place(y) = result[q][m] - HitsAddend(q) + l
                 /\ Counted(q, m) /\ CacheKey(q, m) = k /\ IncrAmount(q, m) = HitsAddend(q)
                 /\ l \in 1..HitsAddend(q) /\ HitsAddend(q) \in Nat /\ result[q][m] \in Nat
      BY <1>1, Zenon
    <2>3. <<p, i>> = <<q, m>>
      <3> SUFFICES ASSUME <<p, i>> # <<q, m>> PROVE FALSE  OBVIOUS
      <3>1. \/ result[p][i] <= result[q][m] - HitsAddend(q)
            \/ result[q][m] <= result[p][i] - HitsAddend(p)
        BY <1>0, <2>1, <2>2, Zenon DEF Settled, NoSharedQuota
      <3> QED  BY <1>3, <2>1, <2>2, <3>1
    <2>4. j = l  BY <1>3, <2>1, <2>2, <2>3
    <2> QED  BY <2>1, <2>2, <2>3, <2>4, Zenon
  <1>4. ASSUME NEW n \in 1..counter[k] PROVE \E x \in RedisHits(k) : Place(x) = n
    <2>1. PICK p \in Request, i \in Idx :
             Counted(p, i) /\ CacheKey(p, i) = k /\ Covers(p, i, n)
      BY Zenon DEF Settled, TileInv
    <2>2. HasKey(p, i) /\ i \notin overLocal[p]
      BY <2>1 DEF Settled, PhaseInv, PhaseOK, Counted
    <2>3. /\ IncrAmount(p, i) = HitsAddend(p) /\ HitsAddend(p) \in Nat
          /\ result[p][i] \in Nat
      BY <2>1, <2>2, SlotAtRest, Zenon
    <2> DEFINE j == n - (result[p][i] - HitsAddend(p))
               x == <<<<p, i>>, j>>
    <2>4. j \in 1..HitsAddend(p) /\ result[p][i] - HitsAddend(p) + j = n
      BY <1>0, <2>1, <2>3 DEF Covers
    <2>5. x[1][1] = p /\ x[1][2] = i /\ x[2] = j /\ x[1] = <<p, i>> /\ x = <<x[1], x[2]>>
      OBVIOUS
    <2> HIDE DEF x, j
    <2>6. x \in RedisHits(k)
      BY <2>1, <2>2, <2>4, <2>5, HitFacts, Zenon DEF RedisHits
    <2>7. Place(x) = n  BY <2>4, <2>5, Zenon DEF Place
    <2> QED  BY <2>6, <2>7, Zenon
  <1> QED  BY <1>2, <1>3, <1>4, Zenon

\* The hits the statistics count are hits on a key: of those beyond the limit, the
\* refused ones and the ones placed above it.
OverOn(d, k) == {x \in OverHits(d) : CacheKey(x[1][1], x[1][2]) = k}
NearOn(d, k) == {x \in NearHits(d) : CacheKey(x[1][1], x[1][2]) = k}

\* Membership in the hits of a statistic, spelled out.
LEMMA AnsweredHits ==
    ASSUME NEW d, NEW x
    PROVE  /\ x \in OverHits(d) <=>
                /\ x = <<x[1], x[2]>> /\ x[1] = <<x[1][1], x[1][2]>>
                /\ x[1][1] \in Request /\ x[1][2] \in Idx
                /\ IsAnswered(x[1][1], x[1][2], d) /\ x[2] \in OverOf(x[1][1], x[1][2])
           /\ x \in NearHits(d) <=>
                /\ x = <<x[1], x[2]>> /\ x[1] = <<x[1][1], x[1][2]>>
                /\ x[1][1] \in Request /\ x[1][2] \in Idx
                /\ IsAnswered(x[1][1], x[1][2], d) /\ x[2] \in NearOf(x[1][1], x[1][2])
  <1>1. x \in OverHits(d) <=>
          x = <<x[1], x[2]>> /\ x[1] \in AnsweredOn(d) /\ x[2] \in OverOf(x[1][1], x[1][2])
    BY DEF OverHits
  <1>2. x \in NearHits(d) <=>
          x = <<x[1], x[2]>> /\ x[1] \in AnsweredOn(d) /\ x[2] \in NearOf(x[1][1], x[1][2])
    BY DEF NearHits
  <1>3. x[1] \in AnsweredOn(d) <=>
          /\ x[1] = <<x[1][1], x[1][2]>> /\ x[1][1] \in Request /\ x[1][2] \in Idx
          /\ IsAnswered(x[1][1], x[1][2], d)
    BY DEF AnsweredOn, IsAnswered
  <1> QED  BY <1>1, <1>2, <1>3, Zenon

\* The hits of one key that a statistic counts: all it refused locally, and those
\* whose place lies in the range of the statistic.
LEMMA Fibre ==
    ASSUME NEW rpu, Settled(rpu), NEW k \in Key \ expired
    PROVE  /\ OverOn(k[1], k)
                = LocalHits(k) \cup {x \in RedisHits(k) : rpu[k[1]] < Place(x)}
           /\ NearOn(k[1], k)
                = {x \in RedisHits(k) : /\ NearLimitThreshold(rpu[k[1]]) < Place(x)
                                        /\ Place(x) <= rpu[k[1]]}
  <1>1. ASSUME NEW x,
               x = <<x[1], x[2]>>, x[1] = <<x[1][1], x[1][2]>>,
               x[1][1] \in Request, x[1][2] \in Idx,
               HasKey(x[1][1], x[1][2]), CacheKey(x[1][1], x[1][2]) = k
        PROVE  /\ x \in OverHits(k[1]) <=>
                    x \in LocalHits(k) \/ (x \in RedisHits(k) /\ rpu[k[1]] < Place(x))
               /\ x \in NearHits(k[1]) <=>
                    x \in RedisHits(k) /\ NearLimitThreshold(rpu[k[1]]) < Place(x)
                                       /\ Place(x) <= rpu[k[1]]
    <2> DEFINE p == x[1][1]
               i == x[1][2]
    <2>1. IsAnswered(p, i, k[1]) /\ args[p].limit[i] = rpu[k[1]]
      BY <1>1, SlotAtRest, Zenon
    <2>2. x \in HitsOf(SlotsOn(k)) <=> x[2] \in 1..HitsAddend(p)
      BY <1>1, HitFacts, Zenon
    <2>3. /\ x \in OverHits(k[1]) <=> x[2] \in OverOf(p, i)
          /\ x \in NearHits(k[1]) <=> x[2] \in NearOf(p, i)
      BY <1>1, <2>1, AnsweredHits, Zenon
    <2>4. /\ x[2] \in OverOf(p, i) <=>
               x[2] \in 1..HitsAddend(p) /\ (i \in overLocal[p] \/ rpu[k[1]] < Place(x))
          /\ x[2] \in NearOf(p, i) <=>
               /\ x[2] \in 1..HitsAddend(p) /\ i \notin overLocal[p]
               /\ NearLimitThreshold(rpu[k[1]]) < Place(x) /\ Place(x) <= rpu[k[1]]
      BY <2>1, Zenon DEF OverOf, NearOf, Place
    <2>5. /\ x \in LocalHits(k) <=> x[2] \in 1..HitsAddend(p) /\ i \in overLocal[p]
          /\ x \in RedisHits(k) <=> x[2] \in 1..HitsAddend(p) /\ i \notin overLocal[p]
      BY <2>2, Zenon DEF LocalHits, RedisHits
    <2> HIDE DEF p, i
    <2> QED  BY <2>3, <2>4, <2>5, Zenon
  <1>2. ASSUME NEW x, \/ x \in OverOn(k[1], k) \/ x \in NearOn(k[1], k)
                      \/ x \in LocalHits(k) \/ x \in RedisHits(k)
        PROVE  /\ x = <<x[1], x[2]>> /\ x[1] = <<x[1][1], x[1][2]>>
               /\ x[1][1] \in Request /\ x[1][2] \in Idx
               /\ HasKey(x[1][1], x[1][2]) /\ CacheKey(x[1][1], x[1][2]) = k
    BY <1>2, HitFacts, AnsweredHits, ZenonT(40)
       DEF OverOn, NearOn, LocalHits, RedisHits, IsAnswered
  <1>3. ASSUME NEW x
        PROVE  /\ x \in OverOn(k[1], k) <=>
                    x \in LocalHits(k) \/ (x \in RedisHits(k) /\ rpu[k[1]] < Place(x))
               /\ x \in NearOn(k[1], k) <=>
                    x \in RedisHits(k) /\ NearLimitThreshold(rpu[k[1]]) < Place(x)
                                       /\ Place(x) <= rpu[k[1]]
    BY <1>1, <1>2, Zenon DEF OverOn, NearOn
  <1>4. OverOn(k[1], k) = LocalHits(k) \cup {x \in RedisHits(k) : rpu[k[1]] < Place(x)}
    BY <1>3, Zenon
  <1>5. NearOn(k[1], k) = {x \in RedisHits(k) : /\ NearLimitThreshold(rpu[k[1]]) < Place(x)
                                                /\ Place(x) <= rpu[k[1]]}
    BY <1>3, Zenon
  <1> QED  BY <1>4, <1>5

(***************************************************************************)
(* Counting.  What follows needs a few laws of finite sets.  They are      *)
(* proved from the library at the end of the module, next to the theorems. *)
(***************************************************************************)
OneToOne(f, S) == \A x, y \in S : f[x] = f[y] => x = y
Onto(f, S, T) == \A t \in T : \E x \in S : f[x] = t

EmptyLaw == IsFiniteSet({}) /\ Cardinality({}) = 0

IntervalLaw ==
    \A a, b \in Int :
       IsFiniteSet(a..b) /\ Cardinality(a..b) = IF a > b THEN 0 ELSE b - a + 1

SubsetLaw == \A S : IsFiniteSet(S) => \A T \in SUBSET S : IsFiniteSet(T)

\* A set that maps one to one into the first n numbers has at most n elements.
PigeonLaw ==
    \A S : \A n \in Nat : \A f \in [S -> 1..n] : OneToOne(f, S) =>
       IsFiniteSet(S) /\ Cardinality(S) \in Nat /\ Cardinality(S) <= n

DisjointLaw ==
    \A A, B : IsFiniteSet(A) /\ IsFiniteSet(B) /\ A \cap B = {} =>
       /\ IsFiniteSet(A \cup B) /\ Cardinality(A) \in Nat /\ Cardinality(B) \in Nat
       /\ Cardinality(A \cup B) = Cardinality(A) + Cardinality(B)

\* Sets that a bijection relates have the same size, and the converse.
MatchLaw ==
    \A S, T : \A f \in [S -> T] :
       (IsFiniteSet(S) \/ IsFiniteSet(T)) /\ OneToOne(f, S) /\ Onto(f, S, T) =>
          IsFiniteSet(S) /\ Cardinality(S) = Cardinality(T)

PairLaw ==
    \A S, T : IsFiniteSet(S) /\ IsFiniteSet(T) /\ Cardinality(S) = Cardinality(T) =>
       \E f \in [S -> T] : OneToOne(f, S) /\ Onto(f, S, T)

FiniteLaws ==
    /\ EmptyLaw /\ IntervalLaw /\ SubsetLaw /\ PigeonLaw /\ DisjointLaw
    /\ MatchLaw /\ PairLaw

\* The numbers up to n are n.
LEMMA UpTo ==
    ASSUME FiniteLaws, NEW n \in Nat
    PROVE  IsFiniteSet(1..n) /\ Cardinality(1..n) = n
  <1> DEFINE v == IF 1 > n THEN 0 ELSE n - 1 + 1
  <1>1. v = n /\ 1 \in Int /\ n \in Int  OBVIOUS
  <1>2. IsFiniteSet(1..n) /\ Cardinality(1..n) = v
    BY <1>1, Zenon DEF FiniteLaws, IntervalLaw
  <1> HIDE DEF v
  <1> QED  BY <1>1, <1>2, Zenon

\* A request names a descriptor finitely often.
LEMMA CountingHolds == FiniteLaws => Counting
  <1> SUFFICES ASSUME FiniteLaws, NEW c \in Call, NEW d \in Descriptor
               PROVE  Cardinality({i \in 1..c.n : c.desc[i] = d}) \in Nat
    BY Zenon DEF Counting
  <1> DEFINE S == {i \in 1..c.n : c.desc[i] = d}
             f == [x \in S |-> x]
  <1>1. c.n \in Nat  BY BoundsAssumption DEF Call, Idx
  <1>2. f \in [S -> 1..c.n] /\ OneToOne(f, S)  BY Zenon DEF OneToOne
  <1> HIDE DEF S, f
  <1>3. Cardinality(S) \in Nat  BY <1>1, <1>2, Zenon DEF FiniteLaws, PigeonLaw
  <1> QED  BY <1>3, Zenon DEF S

\* One state: the hits admitted on a key have places of their own in 1..m when
\* every result they were given is at most m.
LEMMA AdmittedHits ==
    ASSUME FiniteLaws, TypeOK, PhaseInv, CodeInv, SlotInv, NoSharedQuota, CountsInFull,
           NEW k \in Key \ expired, counter[k] < Word, NEW m \in Nat,
           \A s \in AdmittedOn(k) : result[s[1]][s[2]] <= m
    PROVE  Hits(AdmittedOn(k)) \in Nat /\ Hits(AdmittedOn(k)) <= m
  <1> DEFINE S == HitsOf(AdmittedOn(k))
             f == [x \in S |-> result[x[1][1]][x[1][2]] - HitsAddend(x[1][1]) + x[2]]
  <1> HIDE DEF S
  <1>1. ASSUME NEW x \in S
        PROVE  /\ x = <<x[1], x[2]>>
               /\ x[1] \in AdmittedOn(k) /\ x[2] \in 1..HitsAddend(x[1][1])
    BY DEF S, HitsOf
  <1>2. ASSUME NEW x \in S
        PROVE  f[x] \in 1..m
    <2> DEFINE s == x[1]
    <2> HIDE DEF s
    <2>1. s \in AdmittedOn(k) /\ x[2] \in 1..HitsAddend(s[1])  BY <1>1, Zenon DEF s
    <2>2. /\ HitsAddend(s[1]) \in Nat /\ result[s[1]][s[2]] \in Nat
          /\ HitsAddend(s[1]) <= result[s[1]][s[2]]
      BY <2>1, AdmittedCounted, Zenon
    <2>3. result[s[1]][s[2]] - HitsAddend(s[1]) + x[2] \in 1..m  BY <2>1, <2>2
    <2> QED  BY <2>3, Zenon DEF s
  <1>3. ASSUME NEW x \in S, NEW y \in S, f[x] = f[y]
        PROVE  x = y
    <2> DEFINE s == x[1]
               t == y[1]
    <2> HIDE DEF s, t
    <2>1. /\ s \in AdmittedOn(k) /\ x[2] \in 1..HitsAddend(s[1]) /\ x = <<s, x[2]>>
          /\ t \in AdmittedOn(k) /\ y[2] \in 1..HitsAddend(t[1]) /\ y = <<t, y[2]>>
      BY <1>1, Zenon DEF s, t
    <2>2. /\ s[1] \in Request /\ s[2] \in Idx /\ s = <<s[1], s[2]>>
          /\ Counted(s[1], s[2]) /\ CacheKey(s[1], s[2]) = k
          /\ IncrAmount(s[1], s[2]) = HitsAddend(s[1])
          /\ HitsAddend(s[1]) \in Nat /\ result[s[1]][s[2]] \in Nat
      BY <2>1, AdmittedCounted, Zenon
    <2>3. /\ t[1] \in Request /\ t[2] \in Idx /\ t = <<t[1], t[2]>>
          /\ Counted(t[1], t[2]) /\ CacheKey(t[1], t[2]) = k
          /\ IncrAmount(t[1], t[2]) = HitsAddend(t[1])
          /\ HitsAddend(t[1]) \in Nat /\ result[t[1]][t[2]] \in Nat
      BY <2>1, AdmittedCounted, Zenon
    <2>4. result[s[1]][s[2]] - HitsAddend(s[1]) + x[2]
            = result[t[1]][t[2]] - HitsAddend(t[1]) + y[2]
      BY <1>3, Zenon DEF s, t
    <2>5. s = t
      <3>1. SUFFICES ASSUME s # t PROVE FALSE  OBVIOUS
      <3>2. \/ result[s[1]][s[2]] <= result[t[1]][t[2]] - HitsAddend(t[1])
            \/ result[t[1]][t[2]] <= result[s[1]][s[2]] - HitsAddend(s[1])
        BY <2>2, <2>3, <3>1, Zenon DEF NoSharedQuota
      <3> QED  BY <2>1, <2>2, <2>3, <2>4, <3>2
    <2>6. x[2] = y[2]  BY <2>1, <2>2, <2>4, <2>5
    <2> QED  BY <2>1, <2>5, <2>6, Zenon
  <1>4. f \in [S -> 1..m]  BY <1>2, Zenon
  <1> HIDE DEF f
  <1>5. Cardinality(S) \in Nat /\ Cardinality(S) <= m
    BY <1>3, <1>4, Zenon DEF FiniteLaws, PigeonLaw, OneToOne
  <1> QED  BY <1>5, Zenon DEF Hits, S

\* Were the hits more than every limit, they would be fewer than they are.
LEMMA QuotaKept ==
    ASSUME FiniteLaws, TypeOK, PhaseInv, CodeInv, SlotInv, NoSharedQuota, CountsInFull
    PROVE  QuotaRespected
  <1> SUFFICES ASSUME NEW k \in Key \ expired, AdmittedOn(k) # {}, counter[k] < Word,
                      \A s \in AdmittedOn(k) : ~(Hits(AdmittedOn(k)) <= args[s[1]].limit[s[2]])
               PROVE  FALSE
    BY Zenon DEF QuotaRespected
  <1> DEFINE h == Hits(AdmittedOn(k))
  <1> HIDE DEF h
  <1>1. ASSUME NEW s \in AdmittedOn(k)
        PROVE  /\ result[s[1]][s[2]] \in Nat /\ args[s[1]].limit[s[2]] \in 0..(Word - 1)
               /\ result[s[1]][s[2]] <= args[s[1]].limit[s[2]]
               /\ ~(h <= args[s[1]].limit[s[2]])
    BY AdmittedCounted, Zenon DEF h
  <1>2. Word - 1 \in Nat  BY WordAssumption
  <1>3. \A s \in AdmittedOn(k) : result[s[1]][s[2]] <= Word - 1  BY <1>1, <1>2
  <1>4. h \in Nat  BY <1>2, <1>3, AdmittedHits, Zenon DEF h
  <1>5. PICK t \in AdmittedOn(k) : TRUE  OBVIOUS
  <1>6. h - 1 \in Nat  BY <1>1, <1>4, <1>5
  <1>7. \A s \in AdmittedOn(k) : result[s[1]][s[2]] <= h - 1  BY <1>1, <1>4, <1>6
  <1>8. h <= h - 1  BY <1>6, <1>7, AdmittedHits, Zenon DEF h
  <1> QED  BY <1>4, <1>8

(***************************************************************************)
(* Why StatInv is kept.                                                    *)
(***************************************************************************)
\* The part of (b, b + h] in (lo, hi].
BandOf(b, h, lo, hi) == {j \in 1..h : lo < b + j /\ b + j <= hi}

\* A band of the places of one INCRBY has as many members as its interval.
LEMMA Band ==
    ASSUME FiniteLaws, NEW b \in Nat, NEW h \in Nat, NEW e, e = b + h, NEW lo \in Nat, NEW hi \in Nat
    PROVE  /\ IsFiniteSet(BandOf(b, h, lo, hi))
           /\ Cardinality(BandOf(b, h, lo, hi)) = Overlap(b, e, lo, hi)
  <1> DEFINE top == IF b + h < hi THEN b + h ELSE hi
             low == IF b > lo THEN b ELSE lo
             B == BandOf(b, h, lo, hi)
             v == IF low - b + 1 > top - b THEN 0 ELSE top - b - (low - b + 1) + 1
             w == IF top <= low THEN 0 ELSE top - low
  <1>1. B = (low - b + 1)..(top - b)  BY DEF BandOf
  <1>2. low - b + 1 \in Int /\ top - b \in Int /\ low \in Int /\ top \in Int  OBVIOUS
  <1>3. Overlap(b, b + h, lo, hi) = IF top <= low THEN 0 ELSE top - low  BY Zenon DEF Overlap
  <1> HIDE DEF low, top, B
  <1>4. /\ IsFiniteSet(B)
        /\ Cardinality(B) = v
    BY <1>1, <1>2, Zenon DEF FiniteLaws, IntervalLaw
  <1>5. v = w  BY <1>2
  <1>6. Overlap(b, b + h, lo, hi) = w  BY <1>3, Zenon
  <1> HIDE DEF v, w
  <1> QED  BY <1>4, <1>5, <1>6, Zenon DEF B

\* A set of hits grows by those of a slot it has none of.
HasNone(A, t, J) == IsFiniteSet(A) /\ IsFiniteSet(J) /\ \A x \in A : x[1] # t
WithSlot(A, t, J) == A \cup ({t} \X J)

\* One more slot adds the number of its members.
LEMMA AddSlot ==
    ASSUME FiniteLaws, NEW A, NEW t, NEW J, HasNone(A, t, J)
    PROVE  /\ IsFiniteSet(WithSlot(A, t, J))
           /\ Cardinality(WithSlot(A, t, J)) = Cardinality(A) + Cardinality(J)
  <1> DEFINE T == {t} \X J
  <1>0. IsFiniteSet(A) /\ IsFiniteSet(J) /\ \A x \in A : x[1] # t  BY Zenon DEF HasNone
  <1>1. IsFiniteSet(T) /\ Cardinality(T) = Cardinality(J)
    <2> DEFINE f == [x \in T |-> x[2]]
    <2>1. f \in [T -> J] /\ \A x \in T : f[x] = x[2]  OBVIOUS
    <2>2. \A x, y \in T : x[2] = y[2] => x = y  OBVIOUS
    <2>3. \A j \in J : \E x \in T : x[2] = j
      <3> SUFFICES ASSUME NEW j \in J PROVE \E x \in T : x[2] = j  OBVIOUS
      <3>1. <<t, j>> \in T /\ <<t, j>>[2] = j  OBVIOUS
      <3> QED  BY <3>1, Zenon
    <2> HIDE DEF T, f
    <2>4. OneToOne(f, T)  BY <2>1, <2>2, ZenonT(40) DEF OneToOne
    <2>5. Onto(f, T, J)  BY <2>1, <2>3, Zenon DEF Onto
    <2> QED  BY <1>0, <2>1, <2>4, <2>5, Zenon DEF FiniteLaws, MatchLaw
  <1>2. A \cap T = {}
    <2>1. \A x \in T : x[1] = t  OBVIOUS
    <2> QED  BY <1>0, <2>1, Zenon
  <1> HIDE DEF T
  <1> QED  BY <1>0, <1>1, <1>2, ZenonT(40) DEF T, WithSlot, FiniteLaws, DisjointLaw

\* The statistics of a descriptor grow by the number of its hits in each band.
LEMMA SlotCounts ==
    ASSUME FiniteLaws, TypeOK, PhaseInv, SlotInv, NoOverflow, ~StopCacheKeyIncrementWhenOverlimit,
           NEW p \in Request, NEW i \in Idx, pc[p] = "reply",
           HasKey(p, i), CacheKey(p, i) \notin expired, NEW shadow
    PROVE  /\ IsFiniteSet(OverOf(p, i)) /\ IsFiniteSet(NearOf(p, i))
           /\ StatIncrease("OverLimit", i \in overLocal[p], LimitInfo(p, i), HitsAddend(p), shadow)
                = Cardinality(OverOf(p, i))
           /\ StatIncrease("NearLimit", i \in overLocal[p], LimitInfo(p, i), HitsAddend(p), shadow)
                = Cardinality(NearOf(p, i))
  <1> DEFINE h == HitsAddend(p)
             limit == args[p].limit[i]
             near == NearLimitThreshold(limit)
             e == result[p][i]
             b == e - h
             info == LimitInfo(p, i)
  <1>1. h \in Nat /\ limit \in Nat /\ near \in Nat
    BY CallFacts, NearLimitThresholdType
  <1>2. CASE i \in overLocal[p]
    <2>1. OverOf(p, i) = 1..h  BY <1>2, Zenon DEF OverOf
    <2>2. NearOf(p, i) = {}  BY <1>2, Zenon DEF NearOf
    <2>3. IsFiniteSet(1..h) /\ Cardinality(1..h) = h  BY <1>1, UpTo, Zenon
    <2>4. IsFiniteSet({}) /\ Cardinality({}) = 0
      BY Zenon DEF FiniteLaws, EmptyLaw
    <2> HIDE DEF h, info
    <2>5. /\ StatIncrease("OverLimit", i \in overLocal[p], info, h, shadow) = h
          /\ StatIncrease("NearLimit", i \in overLocal[p], info, h, shadow) = 0
      BY <1>2 DEF StatIncrease
    <2> QED  BY <2>1, <2>2, <2>3, <2>4, <2>5, ZenonT(40) DEF h, info
  <1>3. CASE i \notin overLocal[p]
    <2>1. b \in Nat /\ e \in 0..(Word - 1) /\ info = NewRateLimitInfo(limit, b, e)
      BY <1>3, CountedInFull, ZenonT(40)
    <2>2. e = b + h /\ e < Word /\ e \in Nat /\ b \in Nat  BY <1>1, <2>1, WordAssumption
    <2>3. info = NewRateLimitInfo(limit, b, e)  BY <2>1, Zenon
    <2>4. (i \in overLocal[p]) = FALSE  BY <1>3
    <2>5. OverOf(p, i) = BandOf(b, h, limit, e)
      <3>1. \A j \in 1..h : b + j <= e  BY <1>1, <2>1
      <3> QED  BY <1>3, <3>1, Zenon DEF OverOf, BandOf
    <2>6. NearOf(p, i) = BandOf(b, h, near, limit)
      BY <1>3, Zenon DEF NearOf, BandOf
    <2> HIDE DEF h, limit, near, b, e, info
    <2>7. /\ IsFiniteSet(OverOf(p, i))
          /\ Cardinality(OverOf(p, i)) = Overlap(b, e, limit, e)
      <3>1. /\ IsFiniteSet(BandOf(b, h, limit, e))
            /\ Cardinality(BandOf(b, h, limit, e)) = Overlap(b, e, limit, e)
        BY <1>1, <2>2, Band, SMT
      <3> QED  BY <2>5, <3>1, Zenon
    <2>8. /\ IsFiniteSet(NearOf(p, i))
          /\ Cardinality(NearOf(p, i)) = Overlap(b, e, near, limit)
      <3>1. /\ IsFiniteSet(BandOf(b, h, near, limit))
            /\ Cardinality(BandOf(b, h, near, limit)) = Overlap(b, e, near, limit)
        BY <1>1, <2>2, Band, SMT
      <3> QED  BY <2>6, <3>1, Zenon
    <2>9. /\ StatIncrease("OverLimit", FALSE, info, h, shadow) = Overlap(b, e, limit, e)
          /\ StatIncrease("NearLimit", FALSE, info, h, shadow) = Overlap(b, e, near, limit)
      <3>0. Raised(limit, b, h, e)  BY <1>1, <2>2, Zenon DEF Raised
      <3>1. StatIncrease("OverLimit", FALSE, NewRateLimitInfo(limit, b, e), h, shadow)
              = Overlap(b, e, limit, e)
        BY <3>0, OverIncrease, ZenonT(60)
      <3>2. StatIncrease("NearLimit", FALSE, NewRateLimitInfo(limit, b, e), h, shadow)
              = Overlap(b, e, NearLimitThreshold(limit), limit)
        BY <3>0, NearIncrease, ZenonT(60)
      <3> QED  BY <2>3, <3>1, <3>2, Zenon DEF near
    <2> QED  BY <2>4, <2>7, <2>8, <2>9, Zenon DEF h, info
  <1> QED  BY <1>2, <1>3, Zenon

\* Nothing is answered, and the statistics are 0.
LEMMA StatInit == ASSUME FiniteLaws PROVE Init => StatInv
  <1> SUFFICES ASSUME Init, NEW d \in Descriptor
               PROVE  /\ IsFiniteSet(OverHits(d)) /\ stats[d]["OverLimit"] = Cardinality(OverHits(d))
                      /\ IsFiniteSet(NearHits(d)) /\ stats[d]["NearLimit"] = Cardinality(NearHits(d))
    BY Zenon DEF StatInv
  <1>1. \A p \in Request, i \in Idx : status[p][i].code = "none"  BY Zenon DEF Init, NoStatus
  <1>2. \A s \in Request \X Idx : s[1] \in Request /\ s[2] \in Idx  OBVIOUS
  <1>3. AnsweredOn(d) = {}  BY <1>1, <1>2, Zenon DEF AnsweredOn
  <1>4. OverHits(d) = {} /\ NearHits(d) = {}  BY <1>3, Zenon DEF OverHits, NearHits
  <1>5. IsFiniteSet({}) /\ Cardinality({}) = 0
    BY Zenon DEF FiniteLaws, EmptyLaw
  <1>6. stats[d]["OverLimit"] = 0 /\ stats[d]["NearLimit"] = 0  BY DEF Init, StatNames
  <1> QED  BY <1>4, <1>5, <1>6, Zenon

\* Answering a descriptor adds its hits to the sets and their number to the
\* statistics; no other step changes either.
LEMMA StatNext ==
    ASSUME FiniteLaws, TypeOK, PhaseInv, AnswerInv, SlotInv, NoOverflow, StatInv, [Next]_vars,
           ~StopCacheKeyIncrementWhenOverlimit
    PROVE  StatInv'
  <1> SUFFICES ASSUME NEW d \in Descriptor, Unexpired(d)'
               PROVE  /\ IsFiniteSet(OverHits(d)')
                      /\ stats'[d]["OverLimit"] = Cardinality(OverHits(d)')
                      /\ IsFiniteSet(NearHits(d)')
                      /\ stats'[d]["NearLimit"] = Cardinality(NearHits(d)')
    BY Zenon DEF StatInv
  <1>1. Unexpired(d)  BY CounterGrows, Zenon DEF Unexpired, TypeOK
  <1>2. /\ IsFiniteSet(OverHits(d)) /\ stats[d]["OverLimit"] = Cardinality(OverHits(d))
        /\ IsFiniteSet(NearHits(d)) /\ stats[d]["NearLimit"] = Cardinality(NearHits(d))
    BY <1>1, Zenon DEF StatInv
  <1>3. CASE \A p \in Request : ~Reply(p)  BY <1>2, <1>3, OtherStepsSameHits, Zenon
  <1>4. ASSUME NEW p \in Request, Reply(p), ~(HasKey(p, idx[p]) /\ args[p].desc[idx[p]] = d)
        PROVE  /\ OverHits(d)' = OverHits(d) /\ NearHits(d)' = NearHits(d)
               /\ stats'[d] = stats[d]
    BY <1>4, ReplyElsewhere, Zenon
  <1>5. ASSUME NEW p \in Request, Reply(p), HasKey(p, idx[p]), args[p].desc[idx[p]] = d
        PROVE  /\ IsFiniteSet(OverHits(d)')
               /\ stats'[d]["OverLimit"] = Cardinality(OverHits(d)')
               /\ IsFiniteSet(NearHits(d)')
               /\ stats'[d]["NearLimit"] = Cardinality(NearHits(d)')
    <2> PICK i \in Idx : i = idx[p]  BY Zenon DEF TypeOK
    <2>1. pc[p] = "reply"  BY <1>5, ReplyCounts, Zenon
    <2>2. HasKey(p, i) /\ args[p].desc[i] = d  BY <1>5, Zenon
    <2>3. CacheKey(p, i) \notin expired  BY <1>1, <2>2, KeyFacts, Zenon DEF Unexpired
    <2> DEFINE shadow == d \in ShadowMode
    <2>4. /\ IsFiniteSet(OverOf(p, i)) /\ IsFiniteSet(NearOf(p, i))
          /\ StatIncrease("OverLimit", i \in overLocal[p], LimitInfo(p, i), HitsAddend(p), shadow)
               = Cardinality(OverOf(p, i))
          /\ StatIncrease("NearLimit", i \in overLocal[p], LimitInfo(p, i), HitsAddend(p), shadow)
               = Cardinality(NearOf(p, i))
      BY <2>1, <2>2, <2>3, SlotCounts, Zenon
    <2>5. /\ OverHits(d)' = OverHits(d) \cup ({<<p, i>>} \X OverOf(p, i))
          /\ NearHits(d)' = NearHits(d) \cup ({<<p, i>>} \X NearOf(p, i))
          /\ \A x \in OverHits(d) \cup NearHits(d) : x[1] # <<p, i>>
          /\ \A s \in {"OverLimit", "NearLimit"} :
               stats'[d][s] = stats[d][s] +
                 StatIncrease(s, i \in overLocal[p], LimitInfo(p, i), HitsAddend(p), shadow)
      BY <1>5, ReplyAdds, ZenonT(40)
    <2> HIDE DEF shadow
    <2>6. /\ stats'[d]["OverLimit"] = Cardinality(OverHits(d)) + Cardinality(OverOf(p, i))
          /\ stats'[d]["NearLimit"] = Cardinality(NearHits(d)) + Cardinality(NearOf(p, i))
      BY <1>2, <2>4, <2>5, Zenon
    <2>7. /\ IsFiniteSet(OverHits(d)')
          /\ Cardinality(OverHits(d)') = Cardinality(OverHits(d)) + Cardinality(OverOf(p, i))
      <3>1. PICK t : t = <<p, i>>  BY Zenon
      <3>2. \A x \in OverHits(d) : x[1] # t  BY <2>5, <3>1, Zenon
      <3>3. HasNone(OverHits(d), t, OverOf(p, i))  BY <1>2, <2>4, <3>2, Zenon DEF HasNone
      <3>4. /\ IsFiniteSet(WithSlot(OverHits(d), t, OverOf(p, i)))
            /\ Cardinality(WithSlot(OverHits(d), t, OverOf(p, i)))
                 = Cardinality(OverHits(d)) + Cardinality(OverOf(p, i))
        BY <3>3, AddSlot, Zenon
      <3> QED  BY <2>5, <3>1, <3>4, Zenon DEF WithSlot
    <2>8. /\ IsFiniteSet(NearHits(d)')
          /\ Cardinality(NearHits(d)') = Cardinality(NearHits(d)) + Cardinality(NearOf(p, i))
      <3>1. PICK t : t = <<p, i>>  BY Zenon
      <3>2. \A x \in NearHits(d) : x[1] # t  BY <2>5, <3>1, Zenon
      <3>3. HasNone(NearHits(d), t, NearOf(p, i))  BY <1>2, <2>4, <3>2, Zenon DEF HasNone
      <3>4. /\ IsFiniteSet(WithSlot(NearHits(d), t, NearOf(p, i)))
            /\ Cardinality(WithSlot(NearHits(d), t, NearOf(p, i)))
                 = Cardinality(NearHits(d)) + Cardinality(NearOf(p, i))
        BY <3>3, AddSlot, Zenon
      <3> QED  BY <2>5, <3>1, <3>4, Zenon DEF WithSlot
    <2> QED  BY <2>6, <2>7, <2>8, Zenon
  <1> QED  BY <1>2, <1>3, <1>4, <1>5, Zenon

(***************************************************************************)
(* The statistics at rest.  Key by key, the hits they count are as many as *)
(* the windows have beyond the limit, and between the threshold and it.    *)
(***************************************************************************)
\* Sets that have equal parts have equal sizes.
EqualParts(S, key, K, T) ==
    /\ IsFiniteSet(S) /\ key \in [S -> K]
    /\ \A k \in K : /\ IsFiniteSet(T[k])
                    /\ Cardinality(T[k]) = Cardinality({x \in S : key[x] = k})

Whole(K, T) == UNION {{k} \X T[k] : k \in K}

\* A set cut into parts by key is as large as the parts put side by side.
LEMMA Parts ==
    ASSUME FiniteLaws, NEW S, NEW key, NEW K, NEW T, EqualParts(S, key, K, T)
    PROVE  Cardinality(Whole(K, T)) = Cardinality(S)
  <1> DEFINE Part(k) == {x \in S : key[x] = k}
             U == UNION {{k} \X T[k] : k \in K}
             g == [k \in K |-> CHOOSE f \in [Part(k) -> T[k]] :
                                 OneToOne(f, Part(k)) /\ Onto(f, Part(k), T[k])]
             h == [x \in S |-> <<key[x], g[key[x]][x]>>]
  <1>0. /\ IsFiniteSet(S) /\ key \in [S -> K]
        /\ \A k \in K : /\ IsFiniteSet(T[k])
                        /\ Cardinality(T[k]) = Cardinality({x \in S : key[x] = k})
    BY Zenon DEF EqualParts
  <1>1. ASSUME NEW k \in K
        PROVE  \E f \in [Part(k) -> T[k]] : OneToOne(f, Part(k)) /\ Onto(f, Part(k), T[k])
    <2>1. Part(k) \in SUBSET S  BY Zenon
    <2>2. IsFiniteSet(T[k]) /\ Cardinality(Part(k)) = Cardinality(T[k])  BY <1>0, Zenon
    <2> HIDE DEF Part
    <2>3. IsFiniteSet(Part(k))  BY <1>0, <2>1, Zenon DEF FiniteLaws, SubsetLaw
    <2> QED  BY <2>2, <2>3, Zenon DEF FiniteLaws, PairLaw
  <1>2. ASSUME NEW k \in K
        PROVE  /\ g[k] \in [Part(k) -> T[k]]
               /\ \A x, y \in Part(k) : g[k][x] = g[k][y] => x = y
               /\ \A t \in T[k] : \E x \in Part(k) : g[k][x] = t
    <2> HIDE DEF Part
    <2>1. /\ g[k] \in [Part(k) -> T[k]]
          /\ OneToOne(g[k], Part(k)) /\ Onto(g[k], Part(k), T[k])
      BY <1>1, Zenon
    <2> HIDE DEF g
    <2> QED  BY <2>1, Zenon DEF OneToOne, Onto
  <1> HIDE DEF g
  <1>3. ASSUME NEW x \in S PROVE key[x] \in K /\ x \in Part(key[x])  BY <1>0, Zenon
  <1>4. \A x \in S : h[x] = <<key[x], g[key[x]][x]>>  BY Zenon
  <1>5. \A u : u \in U <=> \E k \in K : \E t \in T[k] : u = <<k, t>>  OBVIOUS
  <1>6. \A k \in K : \A x \in Part(k) : x \in S /\ key[x] = k  BY Zenon
  <1> HIDE DEF U, Part
  <1>7. \A x \in S : h[x] \in U
    <2> SUFFICES ASSUME NEW x \in S PROVE h[x] \in U  BY Zenon
    <2>0. PICK k \in K : k = key[x] /\ x \in Part(k)  BY <1>3, Zenon
    <2>1. g[key[x]][x] \in T[key[x]]
      <3>1. g[k] \in [Part(k) -> T[k]]  BY <1>2, Zenon
      <3> QED  BY <2>0, <3>1, Zenon
    <2> QED  BY <1>3, <1>4, <1>5, <2>1, Zenon
  <1>8. h \in [S -> U]  BY <1>7, Zenon
  <1> HIDE DEF h
  <1>9. ASSUME NEW x \in S, NEW y \in S, h[x] = h[y] PROVE x = y
    <2>1. key[x] = key[y] /\ g[key[x]][x] = g[key[y]][y]  BY <1>4, <1>9
    <2> QED  BY <1>2, <1>3, <2>1, Zenon
  <1>10. ASSUME NEW u \in U PROVE \E x \in S : h[x] = u
    <2>0. PICK k \in K : \E t \in T[k] : u = <<k, t>>  BY <1>5, Zenon
    <2>1. PICK t \in T[k] : u = <<k, t>>  BY <2>0, Zenon
    <2>2. PICK x \in Part(k) : g[k][x] = t  BY <1>2, Zenon
    <2> QED  BY <1>4, <1>6, <2>1, <2>2, Zenon
  <1>11. OneToOne(h, S) /\ Onto(h, S, U)  BY <1>9, <1>10, Zenon DEF OneToOne, Onto
  <1>12. Cardinality(S) = Cardinality(U)
    BY <1>0, <1>8, <1>11, Zenon DEF FiniteLaws, MatchLaw
  <1> QED  BY <1>12, Zenon DEF U, Whole

\* On one key: what Redis counted has the places up to its counter; what the local
\* cache refused comes on top, and only when the counter is past the limit.
LEMMA RedisBand ==
    ASSUME FiniteLaws, NEW rpu, Settled(rpu), NEW k \in Key \ expired, NEW T \in SUBSET (1..counter[k])
    PROVE  /\ IsFiniteSet({x \in RedisHits(k) : Place(x) \in T})
           /\ Cardinality({x \in RedisHits(k) : Place(x) \in T}) = Cardinality(T)
  <1> DEFINE S == {x \in RedisHits(k) : Place(x) \in T}
             f == [x \in S |-> Place(x)]
  <1>1. IsFiniteSet(T)
    <2>1. counter[k] \in Nat  BY Zenon DEF Settled, TypeOK
    <2>2. IsFiniteSet(1..counter[k])  BY <2>1, UpTo, Zenon
    <2> QED  BY <2>2, Zenon DEF FiniteLaws, SubsetLaw
  <1>2. f \in [S -> T] /\ \A x \in S : f[x] = Place(x) /\ x \in RedisHits(k)  BY Zenon
  <1>7. /\ \A x, y \in RedisHits(k) : Place(x) = Place(y) => x = y
        /\ \A n \in 1..counter[k] : \E x \in RedisHits(k) : Place(x) = n
    BY Places, Zenon
  <1>3. ASSUME NEW t \in T PROVE \E x \in S : Place(x) = t
    <2>1. PICK x \in RedisHits(k) : Place(x) = t  BY <1>7, Zenon
    <2> QED  BY <2>1, Zenon
  <1> HIDE DEF S, f
  <1>4. OneToOne(f, S)  BY <1>2, <1>7, Zenon DEF OneToOne
  <1>5. Onto(f, S, T)  BY <1>2, <1>3, Zenon DEF Onto
  <1>6. IsFiniteSet(S) /\ Cardinality(S) = Cardinality(T)
    BY <1>1, <1>2, <1>4, <1>5, Zenon DEF FiniteLaws, MatchLaw
  <1> QED  BY <1>6, Zenon DEF S

\* The hits on a key are its counter and what the local cache refused.
LEMMA KeyTotals ==
    ASSUME FiniteLaws, NEW rpu, Settled(rpu), NEW k \in Key \ expired, k[1] \in Descriptor,
           IsFiniteSet(OverHits(k[1]))
    PROVE  /\ IsFiniteSet(LocalHits(k)) /\ Cardinality(LocalHits(k)) \in Nat
           /\ Cardinality(LocalHits(k)) > 0 => counter[k] > rpu[k[1]]
           /\ Hits(SlotsOn(k)) = counter[k] + Cardinality(LocalHits(k))
  <1>0. counter[k] \in Nat  BY Zenon DEF Settled, TypeOK
  <1>1. LocalHits(k) \in SUBSET OverHits(k[1])  BY Fibre, Zenon DEF OverOn
  <1>2. IsFiniteSet(LocalHits(k))  BY <1>1, Zenon DEF FiniteLaws, SubsetLaw
  <1>3. IsFiniteSet(RedisHits(k)) /\ Cardinality(RedisHits(k)) = counter[k]
    <2>1. PICK T \in SUBSET (1..counter[k]) : T = 1..counter[k]  BY Zenon
    <2>2. {x \in RedisHits(k) : Place(x) \in T} = RedisHits(k)  BY <2>1, Places, Zenon
    <2>3. Cardinality(T) = counter[k]  BY <1>0, <2>1, UpTo, Zenon
    <2>4. /\ IsFiniteSet({x \in RedisHits(k) : Place(x) \in T})
          /\ Cardinality({x \in RedisHits(k) : Place(x) \in T}) = Cardinality(T)
      BY RedisBand, Zenon
    <2> QED  BY <2>2, <2>3, <2>4, Zenon
  <1>4. /\ RedisHits(k) \cap LocalHits(k) = {}
        /\ RedisHits(k) \cup LocalHits(k) = HitsOf(SlotsOn(k))
    BY Zenon DEF RedisHits, LocalHits
  <1>5. /\ Cardinality(LocalHits(k)) \in Nat
        /\ Cardinality(RedisHits(k) \cup LocalHits(k))
             = Cardinality(RedisHits(k)) + Cardinality(LocalHits(k))
    BY <1>2, <1>3, <1>4, Zenon DEF FiniteLaws, DisjointLaw
  <1>6. Hits(SlotsOn(k)) = counter[k] + Cardinality(LocalHits(k))
    BY <1>3, <1>4, <1>5, Zenon DEF Hits
  <1>7. ASSUME LocalHits(k) # {} PROVE counter[k] > rpu[k[1]]
    <2>1. PICK x : x \in LocalHits(k)  BY <1>7, Zenon
    <2> DEFINE p == x[1][1]
               i == x[1][2]
    <2>2. /\ p \in Request /\ i \in Idx /\ HasKey(p, i) /\ CacheKey(p, i) = k
          /\ i \in overLocal[p]
      BY <2>1, HitFacts, Zenon DEF LocalHits
    <2> HIDE DEF p, i
    <2> QED  BY <2>2, SlotAtRest, Zenon
  <1>8. Cardinality(LocalHits(k)) > 0 => LocalHits(k) # {}
    <2>1. Cardinality({}) = 0  BY Zenon DEF FiniteLaws, EmptyLaw
    <2>2. ~(0 > 0)  OBVIOUS
    <2> QED  BY <2>1, <2>2, Zenon
  <1> QED  BY <1>2, <1>5, <1>6, <1>7, <1>8, Zenon

\* The numbers of hits beyond the limit, and between the threshold and the limit,
\* that a window has and that the statistics count.
LEMMA OverTotals ==
    ASSUME FiniteLaws, NEW rpu, Settled(rpu), NEW k \in Key \ expired, k[1] \in Descriptor,
           IsFiniteSet(OverHits(k[1]))
    PROVE  /\ IsFiniteSet((rpu[k[1]] + 1)..Hits(SlotsOn(k)))
           /\ Cardinality((rpu[k[1]] + 1)..Hits(SlotsOn(k))) = Cardinality(OverOn(k[1], k))
  <1> DEFINE c == counter[k]
             l == Cardinality(LocalHits(k))
             L == rpu[k[1]]
             n == Hits(SlotsOn(k))
             T == (L + 1)..c
             R == {x \in RedisHits(k) : Place(x) \in T}
  <1>1. c \in Nat /\ L \in Nat  BY Zenon DEF Settled, TypeOK
  <1>2. IsFiniteSet(LocalHits(k)) /\ l \in Nat /\ (l > 0 => c > L) /\ n = c + l
    BY KeyTotals, Zenon
  <1>3. T \in SUBSET (1..c)
    <2> HIDE DEF c, L
    <2> QED  BY <1>1
  <1>4. IsFiniteSet(R) /\ Cardinality(R) = Cardinality(T)
    <2> HIDE DEF T
    <2> QED  BY <1>3, RedisBand, Zenon
  <1>5. OverOn(k[1], k) = LocalHits(k) \cup R
    <2>1. ASSUME NEW x \in RedisHits(k) PROVE Place(x) \in 1..c  BY Places, Zenon
    <2>2. ASSUME NEW x \in RedisHits(k) PROVE L < Place(x) <=> Place(x) \in T
      <3>1. PICK m \in 1..c : m = Place(x)  BY <2>1, Zenon
      <3> HIDE DEF c, L
      <3>2. L < m <=> m \in T  BY <1>1
      <3> QED  BY <3>1, <3>2, Zenon
    <2>3. OverOn(k[1], k) = LocalHits(k) \cup {x \in RedisHits(k) : L < Place(x)}
      BY Fibre, Zenon
    <2> HIDE DEF T, L
    <2> QED  BY <2>2, <2>3, Zenon
  <1>6. LocalHits(k) \cap R = {}  BY Zenon DEF LocalHits, RedisHits
  <1> HIDE DEF c, l, L, n, R
  <1>7. Cardinality(OverOn(k[1], k)) = l + Cardinality(T)
    <2> HIDE DEF T
    <2> QED  BY <1>2, <1>4, <1>5, <1>6, Zenon DEF l, FiniteLaws, DisjointLaw
  <1>13. L + 1 \in Int /\ c \in Int /\ n \in Int  BY <1>1, <1>2
  <1>8. Cardinality(T) = IF L + 1 > c THEN 0 ELSE c - (L + 1) + 1
    BY <1>13, Zenon DEF FiniteLaws, IntervalLaw
  <1>9. /\ IsFiniteSet((L + 1)..n)
        /\ Cardinality((L + 1)..n) = IF L + 1 > n THEN 0 ELSE n - (L + 1) + 1
    BY <1>13, Zenon DEF FiniteLaws, IntervalLaw
  <1> HIDE DEF T
  <1>10. l = 0 \/ l > 0  BY <1>2
  <1>11. Cardinality((L + 1)..n) = l + Cardinality(T)
    BY <1>1, <1>2, <1>8, <1>9, <1>10
  <1> QED  BY <1>7, <1>9, <1>11, Zenon DEF L, n

\* The near hits of a key are as many as the numbers in the near range up to its hits.
LEMMA NearTotals ==
    ASSUME FiniteLaws, NEW rpu, Settled(rpu), NEW k \in Key \ expired, k[1] \in Descriptor,
           IsFiniteSet(OverHits(k[1])),
           NEW T, T = {m \in (NearLimitThreshold(rpu[k[1]]) + 1)..rpu[k[1]] :
                         m <= Hits(SlotsOn(k))}
    PROVE  IsFiniteSet(T) /\ Cardinality(T) = Cardinality(NearOn(k[1], k))
  <1> DEFINE c == counter[k]
             l == Cardinality(LocalHits(k))
             L == rpu[k[1]]
             near == NearLimitThreshold(L)
             n == Hits(SlotsOn(k))
  <1>1. c \in Nat /\ L \in Nat  BY Zenon DEF Settled, TypeOK
  <1>2. l \in Nat /\ (l > 0 => c > L) /\ n = c + l  BY KeyTotals, Zenon
  <1>3. near \in Nat  BY <1>1, NearIsBelow
  <1>4. T = {m \in 1..c : near < m /\ m <= L}
    <2> HIDE DEF c, l, L, near, n
    <2>1. T = {m \in (near + 1)..L : m <= n}  BY Zenon DEF L, near, n
    <2>2. l = 0 \/ l > 0  BY <1>2
    <2> QED  BY <1>1, <1>2, <1>3, <2>1, <2>2
  <1>5. T \in SUBSET (1..c)  BY <1>4, Zenon
  <1>6. NearOn(k[1], k) = {x \in RedisHits(k) : Place(x) \in T}
    <2>1. ASSUME NEW x \in RedisHits(k) PROVE Place(x) \in 1..c  BY Places, Zenon
    <2>2. NearOn(k[1], k) = {x \in RedisHits(k) : near < Place(x) /\ Place(x) <= L}
      BY Fibre, Zenon
    <2>3. ASSUME NEW x \in RedisHits(k)
          PROVE  Place(x) \in T <=> near < Place(x) /\ Place(x) <= L
      BY <1>4, <2>1, Zenon
    <2> HIDE DEF near, L
    <2> QED  BY <2>2, <2>3, Zenon
  <1>7. /\ IsFiniteSet({x \in RedisHits(k) : Place(x) \in T})
        /\ Cardinality({x \in RedisHits(k) : Place(x) \in T}) = Cardinality(T)
    BY <1>5, RedisBand, Zenon
  <1>8. IsFiniteSet(T)
    <2>1. IsFiniteSet(1..c)  BY <1>1, UpTo, Zenon
    <2> QED  BY <1>5, <2>1, Zenon DEF FiniteLaws, SubsetLaw
  <1> QED  BY <1>6, <1>7, <1>8, Zenon

\* The windows of a rule, their limit, and which of them a counted hit is in.
LEMMA WindowFacts ==
    ASSUME NEW rpu, Settled(rpu), NEW d \in Descriptor, Unexpired(d)
    PROVE  /\ \A k \in Windows(d) :
                k \in Key \ expired /\ k[1] = d /\ LimitOn(k) = rpu[d]
           /\ \A x \in OverHits(d) \cup NearHits(d) :
                CacheKey(x[1][1], x[1][2]) \in Windows(d)
  <1>1. ASSUME NEW k \in Windows(d)
        PROVE  k \in Key \ expired /\ k[1] = d /\ LimitOn(k) = rpu[d]
    <2>1. k \in Key \ expired /\ k[1] = d /\ SlotsOn(k) # {}
      BY Zenon DEF Windows, Unexpired
    <2> DEFINE s == CHOOSE s \in SlotsOn(k) : TRUE
    <2>2. s \in SlotsOn(k)  BY <2>1, Zenon
    <2>3. LimitOn(k) = args[s[1]].limit[s[2]]  BY Zenon DEF LimitOn
    <2> HIDE DEF s
    <2>4. /\ s[1] \in Request /\ s[2] \in Idx /\ HasKey(s[1], s[2])
          /\ CacheKey(s[1], s[2]) = k
      BY <2>2 DEF SlotsOn
    <2>5. args[s[1]].limit[s[2]] = rpu[k[1]]  BY <2>1, <2>4, SlotAtRest, Zenon
    <2> QED  BY <2>1, <2>3, <2>5, Zenon
  <1>2. ASSUME NEW x \in OverHits(d) \cup NearHits(d)
        PROVE  CacheKey(x[1][1], x[1][2]) \in Windows(d)
    <2> DEFINE p == x[1][1]
               i == x[1][2]
    <2>1. x[1] = <<p, i>> /\ p \in Request /\ i \in Idx /\ IsAnswered(p, i, d)
      BY AnsweredHits, Zenon
    <2>2. HasKey(p, i) /\ args[p].desc[i] = d  BY <2>1, Zenon DEF IsAnswered
    <2>3. CacheKey(p, i) \in Key /\ CacheKey(p, i)[1] = d
      BY <2>1, <2>2, KeyFacts, Zenon DEF Settled
    <2> HIDE DEF p, i
    <2>4. <<p, i>> \in SlotsOn(CacheKey(p, i))  BY <2>1, <2>2 DEF SlotsOn
    <2>5. CacheKey(p, i) \in Windows(d)  BY <2>3, <2>4, Zenon DEF Windows
    <2> QED  BY <2>5, Zenon DEF p, i
  <1> QED  BY <1>1, <1>2, Zenon

\* Summed over the windows of a rule, over_limit is exact.
LEMMA OverExact ==
    ASSUME FiniteLaws, NEW rpu, Settled(rpu), StatInv
    PROVE  OverLimitStatExact
  <1> SUFFICES ASSUME NEW d \in Descriptor, Unexpired(d)
               PROVE  stats[d]["OverLimit"] =
                        Cardinality(UNION {{k} \X ((LimitOn(k) + 1)..Hits(SlotsOn(k))) :
                                             k \in Windows(d)})
    BY Zenon DEF OverLimitStatExact
  <1> DEFINE S == OverHits(d)
             K == Windows(d)
             key == [x \in S |-> CacheKey(x[1][1], x[1][2])]
             T == [k \in K |-> (LimitOn(k) + 1)..Hits(SlotsOn(k))]
  <1>1. IsFiniteSet(S) /\ stats[d]["OverLimit"] = Cardinality(S)  BY Zenon DEF StatInv
  <1>2. key \in [S -> K]  BY WindowFacts, Zenon
  <1>3. ASSUME NEW k \in K
        PROVE  /\ IsFiniteSet(T[k])
               /\ Cardinality(T[k]) = Cardinality({x \in S : key[x] = k})
    <2>1. k \in Key \ expired /\ k[1] = d /\ LimitOn(k) = rpu[d]  BY WindowFacts, Zenon
    <2>2. T[k] = (rpu[d] + 1)..Hits(SlotsOn(k))  BY <2>1, Zenon
    <2>3. {x \in S : key[x] = k} = OverOn(d, k)  BY Zenon DEF OverOn
    <2>4. /\ IsFiniteSet((rpu[d] + 1)..Hits(SlotsOn(k)))
          /\ Cardinality((rpu[d] + 1)..Hits(SlotsOn(k))) = Cardinality(OverOn(d, k))
      BY <1>1, <2>1, OverTotals, Zenon
    <2> HIDE DEF T, key
    <2> QED  BY <2>2, <2>3, <2>4, Zenon
  <1>4. Whole(K, T)
          = UNION {{k} \X ((LimitOn(k) + 1)..Hits(SlotsOn(k))) : k \in K}
    <2>1. \A k \in K : T[k] = (LimitOn(k) + 1)..Hits(SlotsOn(k))  BY Zenon
    <2> HIDE DEF T, K
    <2> QED  BY <2>1, Zenon DEF Whole
  <1> HIDE DEF S, K, key, T
  <1>5. EqualParts(S, key, K, T)  BY <1>1, <1>2, <1>3, Zenon DEF EqualParts
  <1>6. Cardinality(Whole(K, T)) = Cardinality(S)  BY <1>5, Parts, SMT
  <1> QED  BY <1>1, <1>4, <1>6, Zenon DEF K

\* Summed over the windows of a rule, near_limit is exact.
LEMMA NearExact ==
    ASSUME FiniteLaws, NEW rpu, Settled(rpu), StatInv
    PROVE  NearLimitStatExact
  <1> DEFINE Above(k) == {n \in (NearLimitThreshold(LimitOn(k)) + 1)..LimitOn(k) :
                            n <= Hits(SlotsOn(k))}
  <1> SUFFICES ASSUME NEW d \in Descriptor, Unexpired(d)
               PROVE  stats[d]["NearLimit"] =
                        Cardinality(UNION {{k} \X Above(k) : k \in Windows(d)})
    BY Zenon DEF NearLimitStatExact
  <1> DEFINE S == NearHits(d)
             K == Windows(d)
             key == [x \in S |-> CacheKey(x[1][1], x[1][2])]
             T == [k \in K |-> Above(k)]
  <1>1. /\ IsFiniteSet(S) /\ stats[d]["NearLimit"] = Cardinality(S)
        /\ IsFiniteSet(OverHits(d))
    BY Zenon DEF StatInv
  <1>2. key \in [S -> K]  BY WindowFacts, Zenon
  <1>3. ASSUME NEW k \in K
        PROVE  /\ IsFiniteSet(T[k])
               /\ Cardinality(T[k]) = Cardinality({x \in S : key[x] = k})
    <2>1. k \in Key \ expired /\ k[1] = d /\ LimitOn(k) = rpu[d]  BY WindowFacts, Zenon
    <2>2. T[k] = {n \in (NearLimitThreshold(rpu[k[1]]) + 1)..rpu[k[1]] :
                    n <= Hits(SlotsOn(k))}
      BY <2>1, Zenon
    <2>3. {x \in S : key[x] = k} = NearOn(d, k)  BY Zenon DEF NearOn
    <2> HIDE DEF T, key
    <2>4. IsFiniteSet(T[k]) /\ Cardinality(T[k]) = Cardinality(NearOn(k[1], k))
      BY <1>1, <2>1, <2>2, NearTotals, Zenon
    <2> QED  BY <2>1, <2>3, <2>4, Zenon
  <1>4. Whole(K, T) = UNION {{k} \X Above(k) : k \in K}
    <2>1. \A k \in K : T[k] = Above(k)  BY Zenon
    <2> HIDE DEF T, K, Above
    <2> QED  BY <2>1, Zenon DEF Whole
  <1> HIDE DEF S, K, key, T, Above
  <1>5. EqualParts(S, key, K, T)  BY <1>1, <1>2, <1>3, Zenon DEF EqualParts
  <1>6. Cardinality(Whole(K, T)) = Cardinality(S)  BY <1>5, Parts, SMT
  <1> QED  BY <1>1, <1>4, <1>6, Zenon DEF K

\* The invariants make the statistics exact whenever no call is in progress.
LEMMA StatsAtRest ==
    ASSUME FiniteLaws, NEW rpu, LimitsStatic(rpu), ~StopCacheKeyIncrementWhenOverlimit,
           TypeOK, PhaseInv, AnswerInv, DoneInv, SlotInv, NoSharedQuota, TileInv,
           NoOverflow, LocalCacheSound, LimitInv(rpu), StatInv
    PROVE  OverLimitStatExact /\ NearLimitStatExact
  <1>1. CASE ~Quiescent  BY <1>1, Zenon DEF OverLimitStatExact, NearLimitStatExact
  <1>2. CASE Quiescent
    <2>1. Settled(rpu)  BY <1>2, Zenon DEF Settled, LimitsStatic
    <2> QED  BY <2>1, OverExact, NearExact, Zenon
  <1> QED  BY <1>1, <1>2

\* The invariants about statistics hold in every reachable state.
LEMMA StatsHold ==
    ASSUME FiniteLaws, ~StopCacheKeyIncrementWhenOverlimit
    PROVE  Spec /\ []Typed /\ []NoOverflow => [](DoneInv /\ TileInv /\ StatInv)
  <1>1. Init => DoneInv /\ TileInv /\ StatInv
    <2> SUFFICES ASSUME Init PROVE DoneInv /\ TileInv /\ StatInv  OBVIOUS
    <2>1. DoneInv  BY Zenon DEF Init, DoneInv, DoneOK
    <2>2. TileInv
      <3>1. \A k \in Key : counter[k] = 0  BY Zenon DEF Init
      <3>2. 1..0 = {}  OBVIOUS
      <3> QED  BY <3>1, <3>2, Zenon DEF TileInv
    <2> QED  BY <2>1, <2>2, StatInit
  <1>2. TypeOK /\ PhaseInv /\ AnswerInv /\ SlotInv /\ NoOverflow /\ NoOverflow'
        /\ DoneInv /\ TileInv /\ StatInv /\ [Next]_vars
          => DoneInv' /\ TileInv' /\ StatInv'
    BY DoneNext, TileNext, StatNext, Zenon
  <1> QED  BY <1>1, <1>2, SlotsHold, CodesHold, PTL DEF Spec, Typed

\* The types, as in FixedCacheProofs.
LEMMA TypesHold == ASSUME FiniteLaws PROVE Spec => []Typed
  <1>1. Init => TypeOK /\ PhaseInv
    <2>1. Init => PhaseInv  BY DEF Init, PhaseInv, PhaseOK
    <2> QED  BY <2>1, TypeInit
  <1>2. TypeOK /\ PhaseInv /\ [Next]_vars => TypeOK' /\ PhaseInv'
    BY TypeNext, CountingHolds, Zenon
  <1> QED  BY <1>1, <1>2, PTL DEF Spec, Typed

\* Both statistics, at rest.
LEMMA StatisticsAreExact ==
    ASSUME FiniteLaws,
           NEW CONSTANT rpu, LimitsStatic(rpu), ~StopCacheKeyIncrementWhenOverlimit
    PROVE  Spec /\ []NoOverflow => [](OverLimitStatExact /\ NearLimitStatExact)
  <1>1. TypeOK /\ PhaseInv /\ AnswerInv /\ DoneInv /\ SlotInv /\ NoSharedQuota /\ TileInv
        /\ NoOverflow /\ LocalCacheSound /\ LimitInv(rpu) /\ StatInv
          => OverLimitStatExact /\ NearLimitStatExact
    BY StatsAtRest, Zenon
  <1>2. Spec /\ []Typed => [](LimitInv(rpu) /\ LocalCacheSound)  BY LocalCacheHolds
  <1> QED
    BY <1>1, <1>2, TypesHold, SlotsHold, CodesHold, StatsHold, PTL DEF Typed

(***************************************************************************)
(* The laws of finite sets, from the library, and the theorems.            *)
(***************************************************************************)
F == INSTANCE FiniteSetTheorems

\* The library's IsFiniteSet is that of FiniteSets.
LEMMA SameFinite == ASSUME NEW S PROVE F!IsFiniteSet(S) <=> IsFiniteSet(S)
  BY Zenon DEF F!IsFiniteSet, IsFiniteSet

\* The library's Cardinality is that of FiniteSets.
LEMMA SameCardinality == ASSUME NEW S PROVE F!Cardinality(S) = Cardinality(S)
  BY Zenon DEF F!Cardinality, Cardinality

\* The facts about finite sets that the counting uses.
LEMMA FiniteLawsHold == FiniteLaws
  <1>1. EmptyLaw
    BY F!FS_EmptySet, SameFinite, SameCardinality, Zenon DEF EmptyLaw
  <1>2. IntervalLaw
    <2> SUFFICES ASSUME NEW a \in Int, NEW b \in Int
                 PROVE  /\ IsFiniteSet(a..b)
                        /\ Cardinality(a..b) = IF a > b THEN 0 ELSE b - a + 1
      BY Zenon DEF IntervalLaw
    <2> QED  BY F!FS_Interval, SameFinite, SameCardinality, Zenon
  <1>3. SubsetLaw
    <2> SUFFICES ASSUME NEW S, IsFiniteSet(S), NEW T \in SUBSET S PROVE IsFiniteSet(T)
      BY Zenon DEF SubsetLaw
    <2> QED  BY F!FS_Subset, SameFinite, Zenon
  <1>4. ASSUME NEW S, NEW T, NEW f \in [S -> T], OneToOne(f, S), IsFiniteSet(T)
        PROVE  /\ IsFiniteSet(S) /\ Cardinality(S) \in Nat
               /\ Cardinality(S) <= Cardinality(T)
               /\ Onto(f, S, T) => Cardinality(S) = Cardinality(T)
    <2>1. f \in F!Injection(S, T)  BY <1>4, Zenon DEF OneToOne, F!Injection, F!IsInjective
    <2>2. Onto(f, S, T) => f \in F!Surjection(S, T)  BY Zenon DEF Onto, F!Surjection
    <2>3. F!IsFiniteSet(T)  BY <1>4, SameFinite, Zenon
    <2>4. /\ F!IsFiniteSet(S) /\ F!Cardinality(S) <= F!Cardinality(T)
          /\ F!Cardinality(S) = F!Cardinality(T) <=> f \in F!Surjection(S, T)
      BY <2>1, <2>3, F!FS_Injection, Zenon
    <2>5. F!Cardinality(S) \in Nat  BY <2>4, F!FS_CardinalityType, Zenon
    <2> QED  BY <2>2, <2>4, <2>5, SameFinite, SameCardinality, Zenon
  <1>5. PigeonLaw
    <2> SUFFICES ASSUME NEW S, NEW n \in Nat, NEW f \in [S -> 1..n], OneToOne(f, S)
                 PROVE  IsFiniteSet(S) /\ Cardinality(S) \in Nat /\ Cardinality(S) <= n
      BY Zenon DEF PigeonLaw
    <2>1. F!IsFiniteSet(1..n) /\ F!Cardinality(1..n) = n  BY F!FS_Interval
    <2>2. IsFiniteSet(1..n) /\ Cardinality(1..n) = n
      BY <2>1, SameFinite, SameCardinality, Zenon
    <2> QED  BY <1>4, <2>2, Zenon
  <1>6. DisjointLaw
    <2> SUFFICES ASSUME NEW A, NEW B, IsFiniteSet(A), IsFiniteSet(B), A \cap B = {}
                 PROVE  /\ IsFiniteSet(A \cup B)
                        /\ Cardinality(A) \in Nat /\ Cardinality(B) \in Nat
                        /\ Cardinality(A \cup B) = Cardinality(A) + Cardinality(B)
      BY Zenon DEF DisjointLaw
    <2>1. F!IsFiniteSet(A) /\ F!IsFiniteSet(B)  BY SameFinite, Zenon
    <2>2. /\ F!IsFiniteSet(A \cup B)
          /\ F!Cardinality(A \cup B)
               = F!Cardinality(A) + F!Cardinality(B) - F!Cardinality(A \cap B)
      BY <2>1, F!FS_Union, Zenon
    <2>3. F!Cardinality(A \cap B) = 0  BY F!FS_EmptySet, Zenon
    <2>4. F!Cardinality(A) \in Nat /\ F!Cardinality(B) \in Nat
      BY <2>1, F!FS_CardinalityType, Zenon
    <2>5. F!Cardinality(A \cup B) = F!Cardinality(A) + F!Cardinality(B)
      BY <2>2, <2>3, <2>4
    <2> QED  BY <2>2, <2>4, <2>5, SameFinite, SameCardinality, Zenon
  <1>7. MatchLaw
    <2> SUFFICES ASSUME NEW S, NEW T, NEW f \in [S -> T],
                        IsFiniteSet(S) \/ IsFiniteSet(T), OneToOne(f, S), Onto(f, S, T)
                 PROVE  IsFiniteSet(S) /\ Cardinality(S) = Cardinality(T)
      BY Zenon DEF MatchLaw
    <2>1. f \in F!Bijection(S, T)
      BY Zenon DEF OneToOne, Onto, F!Bijection, F!Injection, F!IsInjective, F!Surjection
    <2>2. F!ExistsBijection(S, T)  BY <2>1, Zenon DEF F!ExistsBijection
    <2>3. CASE IsFiniteSet(S)
      <3>1. F!Cardinality(T) = F!Cardinality(S)
        BY <2>2, <2>3, F!FS_Bijection, SameFinite, Zenon
      <3> QED  BY <2>3, <3>1, SameCardinality, Zenon
    <2>4. CASE IsFiniteSet(T)  BY <1>4, <2>4, Zenon
    <2> QED  BY <2>3, <2>4
  <1>8. PairLaw
    <2> SUFFICES ASSUME NEW S, NEW T, IsFiniteSet(S), IsFiniteSet(T),
                        Cardinality(S) = Cardinality(T)
                 PROVE  \E f \in [S -> T] : OneToOne(f, S) /\ Onto(f, S, T)
      BY Zenon DEF PairLaw
    <2>1. /\ F!IsFiniteSet(S) /\ F!IsFiniteSet(T)
          /\ F!Cardinality(S) = F!Cardinality(T)
      BY SameFinite, SameCardinality, Zenon
    <2>2. F!ExistsBijection(S, T)  BY <2>1, F!FS_SameCardinalityBij, Zenon
    <2>3. PICK f : f \in F!Bijection(S, T)  BY <2>2, Zenon DEF F!ExistsBijection
    <2>4. f \in [S -> T] /\ OneToOne(f, S) /\ Onto(f, S, T)
      BY <2>3, Zenon
         DEF OneToOne, Onto, F!Bijection, F!Injection, F!IsInjective, F!Surjection
    <2> QED  BY <2>4, Zenon
  <1> QED  BY <1>1, <1>2, <1>3, <1>5, <1>6, <1>7, <1>8, Zenon DEF FiniteLaws

\* The hits admitted on a key never exceed the largest limit a call was given for
\* it, however the calls interleave and whatever reloads do to the limits, unless
\* over-limit keys are not incremented (fixed_cache_impl.go:191-209).
THEOREM WindowsAdmitTheirLimit ==
    ASSUME ~StopCacheKeyIncrementWhenOverlimit
    PROVE  Spec => []QuotaRespected
  <1>1. TypeOK /\ PhaseInv /\ CodeInv /\ SlotInv /\ NoSharedQuota => QuotaRespected
    BY FiniteLawsHold, AllCountInFull, QuotaKept, Zenon
  <1> QED  BY <1>1, FiniteLawsHold, TypesHold, SlotsHold, CodesHold, PTL DEF Typed

\* The same in stop mode, although calls read the counters before they raise them,
\* when no rule is in shadow mode, no call outlasts one of its keys in Redis and every
\* counter has room for the hits of one more call (fixed_cache_impl.go:101-148).
THEOREM StopModeAdmitsItsLimit ==
    ASSUME ShadowMode = {}
    PROVE  Spec /\ []HeadRoom /\ []KeysOutliveCalls => []QuotaRespected
  <1>1. TypeOK /\ PhaseInv /\ CodeInv /\ NearCodeInv /\ SlotInv /\ NoSharedQuota
          => QuotaRespected
    BY FiniteLawsHold, StoppedCountInFull, QuotaKept, Zenon
  <1> QED
    BY <1>1, FiniteLawsHold, TypesHold, SlotsHold, CodesHold, NearCodesHold, PTL DEF Typed

\* Under the same conditions no call is free: one that is admitted has added all its
\* hits to each of its keys, and one that left them out somewhere is refused
\* (fixed_cache_impl.go:101-148).
THEOREM AdmittedCallsAreCounted ==
    ASSUME ShadowMode = {}
    PROVE  Spec /\ []HeadRoom /\ []KeysOutliveCalls => []AdmittedIsCounted
  <1>1. TypeOK /\ PhaseInv /\ CodeInv /\ NearCodeInv => AdmittedIsCounted
    BY AdmittedAdded, Zenon
  <1> QED  BY <1>1, FiniteLawsHold, TypesHold, CodesHold, NearCodesHold, PTL DEF Typed

\* When no call is in progress, over_limit of a rule is exactly the number of hits
\* its windows had beyond the limit: concurrent calls and refusals by the local
\* cache count no hit twice and leave none out.  The limits do not change, over-limit
\* keys are incremented and no counter leaves the range of a uint32
\* (base_limiter.go:92-97 and 159-174).
THEOREM OverLimitIsExact ==
    ASSUME NEW CONSTANT rpu, LimitsStatic(rpu), ~StopCacheKeyIncrementWhenOverlimit
    PROVE  Spec /\ []NoOverflow => []OverLimitStatExact
  BY FiniteLawsHold, StatisticsAreExact, PTL

\* Under the same conditions near_limit is exactly the number of hits its windows
\* had above the near threshold and within the limit (base_limiter.go:170-188).
THEOREM NearLimitIsExact ==
    ASSUME NEW CONSTANT rpu, LimitsStatic(rpu), ~StopCacheKeyIncrementWhenOverlimit
    PROVE  Spec /\ []NoOverflow => []NearLimitStatExact
  BY FiniteLawsHold, StatisticsAreExact, PTL
================================================================================
