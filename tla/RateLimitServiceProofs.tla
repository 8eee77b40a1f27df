------------------------ MODULE RateLimitServiceProofs -------------------------
(***************************************************************************)
(* Proofs about RateLimitService, for any number of requests, updates and  *)
(* descriptors and whatever GetLimit computes.  UpdateInv follows the      *)
(* goroutine that installs configurations, RequestInv a request from its   *)
(* snapshot to the cache, TallyInv the loop over the statuses.             *)
(***************************************************************************)
EXTENDS RateLimitService, SequenceTheorems, TLAPS

(***************************************************************************)
(* The configurations.                                                     *)
(***************************************************************************)
Configs == {ConfigLoad(u.files, MergeDomainConfigs) : u \in Updates}

UpdateInv ==
    /\ upd \in {"wait", "health", "install", "settings", "names"}
    /\ locked <=> upd \in {"settings", "names"}
    /\ applied \in Seq(Configs)
    /\ upd \in {"health", "install"} => newConfig \in Configs
    /\ locked => Len(applied) > 0
    /\ ResponseHeadersEnabled /\ Installed > 0 => headers = "named"

\* What any step does to the sequence of configurations: it stays, or grows by one.
Grows ==
    /\ Len(applied) <= Len(applied')
    /\ \A v \in 1..Len(applied) : applied'[v] = applied[v]
    /\ Installed <= Installed'

\* The goroutine of the updates keeps UpdateInv.
LEMMA UpdaterKeeps ==
    ASSUME UpdateInv, GetConfig \/ SetConfig
    PROVE  UpdateInv' /\ Grows
  <1>1. Len(applied) \in Nat  BY DEF UpdateInv
  <1>2. CASE GetConfig
    <2>1. /\ UNCHANGED <<headers, locked, applied>>
          /\ upd = "wait"
          /\ \/ upd' = "wait"
             \/ /\ upd' = "health"
                /\ \E u \in Updates : newConfig' = ConfigLoad(u.files, MergeDomainConfigs)
      BY <1>2, Zenon DEF GetConfig, SetConfigReturns
    <2> QED  BY <1>1, <2>1 DEF UpdateInv, Grows, Installed, Configs
  <1>3. CASE InstallConfig
    <2>1. /\ upd = "install" /\ upd' = "settings" /\ headers' = headers
          /\ locked' /\ ~locked
          /\ applied' = Append(applied, newConfig) /\ newConfig \in Configs
      BY <1>3, Zenon DEF InstallConfig, KeepsLock, UpdateInv
    <2>2. /\ applied' \in Seq(Configs) /\ Len(applied') = Len(applied) + 1
          /\ \A v \in 1..Len(applied) : applied'[v] = applied[v]
      BY <2>1, AppendProperties DEF UpdateInv
    <2> QED  BY <1>1, <2>1, <2>2 DEF UpdateInv, Grows, Installed
  <1>4. CASE UpdateHealth \/ ReadSettings \/ NameHeaders
    BY <1>1, <1>4 DEF UpdateHealth, ReadSettings, NameHeaders, SetConfigReturns,
                      UpdateInv, Grows, Installed
  <1> QED  BY <1>2, <1>3, <1>4, Zenon DEF SetConfig

(***************************************************************************)
(* Requests, up to the cache.                                              *)
(***************************************************************************)
IsSeq(s) == \E S : s \in Seq(S)

\* What Append does to a sequence.
LEMMA Appended ==
    ASSUME NEW s, IsSeq(s), NEW e
    PROVE  /\ IsSeq(Append(s, e))
           /\ Len(s) \in Nat /\ Len(Append(s, e)) = Len(s) + 1
           /\ \A i \in 1..Len(s) : Append(s, e)[i] = s[i]
           /\ Append(s, e)[Len(s) + 1] = e
  <1>1. PICK S : s \in Seq(S)  BY Zenon DEF IsSeq
  <1>2. s \in Seq(S \cup {e})  BY <1>1, SeqMonotonic
  <1>3. /\ Append(s, e) \in Seq(S \cup {e}) /\ Len(Append(s, e)) = Len(s) + 1
        /\ \A i \in 1..Len(s) : Append(s, e)[i] = s[i]
        /\ Append(s, e)[Len(s) + 1] = e
    BY <1>2, AppendProperties
  <1>4. Len(s) \in Nat  BY <1>1, LenProperties
  <1> QED  BY <1>3, <1>4, Zenon DEF IsSeq

OnRequests(f) == f = [p \in Request |-> f[p]]

RequestType ==
    /\ pc \in [Request -> {"idle", "check", "limits", "cache", "reply", "done"}]
    /\ since \in [Request -> Nat] /\ snapped \in [Request -> Nat]
    /\ idx \in [Request -> Nat] /\ minimum \in [Request -> Nat]
    /\ OnRequests(call) /\ OnRequests(limits) /\ OnRequests(checked)
    /\ OnRequests(metrics) /\ OnRequests(statuses) /\ OnRequests(reply)

\* What Snapshot and DoLimit change.
LEMMA SnapshotEffect ==
    ASSUME NEW p \in Request, Snapshot(p)
    PROVE  /\ UNCHANGED <<call, since, limits, checked, metrics, statuses, idx, minimum>>
           /\ \/ /\ \E r : reply' = [reply EXCEPT ![p] = r]
                 /\ pc' = [pc EXCEPT ![p] = "done"] /\ snapped' = snapped
              \/ /\ snapped' = [snapped EXCEPT ![p] = Len(applied)]
                 /\ pc' = [pc EXCEPT ![p] = "limits"] /\ reply' = reply
  BY Zenon DEF Snapshot, Answer

\* What asking the cache changes.
LEMMA DoLimitEffect ==
    ASSUME NEW p \in Request, DoLimit(p)
    PROVE  /\ \E m : metrics' = [metrics EXCEPT ![p] = m]
           /\ \E c : checked' = [checked EXCEPT ![p] = c]
           /\ UNCHANGED <<call, since, snapped, limits, idx, minimum>>
           /\ \/ /\ \E s : statuses' = [statuses EXCEPT ![p] = s]
                 /\ pc' = [pc EXCEPT ![p] = "reply"] /\ reply' = reply
              \/ /\ \E r : reply' = [reply EXCEPT ![p] = r]
                 /\ pc' = [pc EXCEPT ![p] = "done"] /\ statuses' = statuses
  BY Zenon DEF DoLimit, Answer

\* Every step leaves functions of requests such functions.
LEMMA TypeNext ==
    ASSUME UpdateInv, RequestType, [Next]_vars
    PROVE  RequestType'
  <1>1. Len(applied) \in Nat /\ Installed \in Nat
    BY DEF UpdateInv, Installed
  <1>2. ASSUME NEW p \in Request, Begin(p) PROVE RequestType'
    BY <1>1, <1>2, Zenon DEF Begin, RequestType, OnRequests
  <1>3. ASSUME NEW p \in Request, BadBody(p) \/ BadRequest(p)
        PROVE  RequestType'
    BY <1>3, Zenon DEF BadBody, BadRequest, Answer, RequestType, OnRequests
  <1>4. ASSUME NEW p \in Request, Snapshot(p) PROVE RequestType'
    BY <1>1, <1>4, SnapshotEffect, ZenonT(30) DEF RequestType, OnRequests
  <1>5. ASSUME NEW p \in Request, ConstructLimit(p) PROVE RequestType'
    BY <1>5, Zenon DEF ConstructLimit, RequestType, OnRequests
  <1>6. ASSUME NEW p \in Request, DoLimit(p) PROVE RequestType'
    BY <1>6, DoLimitEffect, ZenonT(30) DEF RequestType, OnRequests
  <1>7. ASSUME NEW p \in Request, Aggregate(p) PROVE RequestType'
    BY <1>7 DEF Aggregate, RequestType, OnRequests
  <1>8. ASSUME NEW p \in Request, Respond(p) PROVE RequestType'
    BY <1>8, Zenon DEF Respond, Answer, RequestType, OnRequests
  <1>9. CASE GetConfig \/ SetConfig \/ UNCHANGED vars
    <2>1. UNCHANGED request
      BY <1>9, Zenon DEF GetConfig, SetConfig, UpdateHealth, InstallConfig, ReadSettings,
                         NameHeaders, vars
    <2> QED  BY <2>1, Zenon DEF request, RequestType, OnRequests
  <1> QED  BY <1>2, <1>3, <1>4, <1>5, <1>6, <1>7, <1>8, <1>9, Zenon DEF Next, ShouldRateLimit
\* The variables of request p.
Same(p) ==
    /\ pc'[p] = pc[p] /\ call'[p] = call[p] /\ since'[p] = since[p]
    /\ snapped'[p] = snapped[p] /\ limits'[p] = limits[p] /\ checked'[p] = checked[p]
    /\ metrics'[p] = metrics[p] /\ statuses'[p] = statuses[p] /\ idx'[p] = idx[p]
    /\ minimum'[p] = minimum[p] /\ reply'[p] = reply[p]

\* A step of one request leaves the others alone.
LEMMA OthersStay ==
    ASSUME RequestType, NEW p \in Request, NEW q \in Request \ {p},
           Begin(p) \/ ShouldRateLimit(p)
    PROVE  Same(q)
  <1>1. CASE Begin(p) \/ BadBody(p) \/ BadRequest(p)
    BY <1>1, Zenon DEF Begin, BadBody, BadRequest, Answer, RequestType, OnRequests, Same
  <1>2. CASE Snapshot(p)
    BY <1>2, SnapshotEffect, ZenonT(30) DEF RequestType, OnRequests, Same
  <1>3. CASE ConstructLimit(p)
    BY <1>3, Zenon DEF ConstructLimit, RequestType, OnRequests, Same
  <1>4. CASE DoLimit(p)
    <2>1. metrics'[q] = metrics[q] /\ checked'[q] = checked[q]
      BY <1>4, Zenon DEF DoLimit, RequestType, OnRequests
    <2>2. pc'[q] = pc[q] /\ statuses'[q] = statuses[q] /\ reply'[q] = reply[q]
      <3>1. \/ /\ \E s : statuses' = [statuses EXCEPT ![p] = s]
               /\ pc' = [pc EXCEPT ![p] = "reply"] /\ reply' = reply
            \/ /\ \E r : reply' = [reply EXCEPT ![p] = r]
               /\ pc' = [pc EXCEPT ![p] = "done"] /\ statuses' = statuses
        BY <1>4, DoLimitEffect, Zenon
      <3> QED  BY <3>1, Zenon DEF RequestType, OnRequests
    <2> QED  BY <1>4, <2>1, <2>2, Zenon DEF DoLimit, Same
  <1>5. CASE Aggregate(p)
    BY <1>5, Zenon DEF Aggregate, RequestType, OnRequests, Same
  <1>6. CASE Respond(p)
    BY <1>6, Zenon DEF Respond, Answer, RequestType, OnRequests, Same
  <1> QED  BY <1>1, <1>2, <1>3, <1>4, <1>5, <1>6, Zenon DEF ShouldRateLimit

Found(p, i) == ConfigGetLimit(SnappedConfig(p), call[p].domain, call[p].descriptors[i])

\* The configuration of a request is one installed since it began.
SnapOK(p) ==
    /\ pc[p] # "idle" => call[p] \in Calls
    /\ since[p] <= Installed /\ snapped[p] <= Installed
    /\ snapped[p] = 0 => /\ limits[p] = << >> /\ metrics[p] = << >> /\ checked[p] = {}
                         /\ pc[p] \in {"idle", "check", "done"}
    /\ snapped[p] # 0 => since[p] <= snapped[p] /\ pc[p] \notin {"idle", "check"}

\* The limits are what GetLimit finds in it, and the cache gets all of them.
LimitsOK(p) ==
    /\ IsSeq(limits[p])
    /\ \A i \in 1..Len(limits[p]) : limits[p][i] = Found(p, i)
    /\ pc[p] = "limits" => Len(limits[p]) < N(p)
    /\ pc[p] \in {"cache", "reply"} => Len(limits[p]) = N(p)
    /\ pc[p] \in {"idle", "check", "limits", "cache"} => metrics[p] = << >> /\ checked[p] = {}
    /\ metrics[p] # << >> \/ checked[p] # {} \/ pc[p] = "reply" =>
         Len(limits[p]) = N(p) /\ checked[p] = LimitsToCheck(p)

RequestInv == \A p \in Request : SnapOK(p) /\ LimitsOK(p)

\* A request that does not move keeps its part, whatever is installed meanwhile.
LEMMA RequestFrame ==
    ASSUME UpdateInv, UpdateInv', Grows, RequestType, NEW p \in Request, Same(p),
           SnapOK(p), LimitsOK(p)
    PROVE  SnapOK(p)' /\ LimitsOK(p)'
  <1>1. /\ Installed \in Nat /\ Installed' \in Nat /\ Installed <= Len(applied)
        /\ Len(applied) \in Nat /\ since[p] \in Nat /\ snapped[p] \in Nat
    BY DEF UpdateInv, Installed, RequestType
  <1>2. SnapOK(p)'
    BY <1>1 DEF SnapOK, Same, Grows
  <1>3. ASSUME NEW i \in 1..Len(limits[p]) PROVE Found(p, i)' = Found(p, i)
    <2>1. snapped[p] # 0  BY <1>3 DEF SnapOK
    <2>2. snapped[p] \in 1..Len(applied)  BY <2>1, <1>1 DEF SnapOK
    <2>3. SnappedConfig(p)' = SnappedConfig(p)  BY <2>2 DEF SnappedConfig, Grows, Same
    <2> QED  BY <2>3, Zenon DEF Found, Same
  <1>4. N(p)' = N(p) /\ LimitsToCheck(p)' = LimitsToCheck(p)
    BY ZenonT(40) DEF N, LimitsToCheck, Unlimited, Replaced, Rule, Same
  <1> QED  BY <1>2, <1>3, <1>4, Zenon DEF LimitsOK, Same
\* The number of descriptors of a request that has begun.
LEMMA CallSize ==
    ASSUME NEW p \in Request, call[p] \in Calls
    PROVE  N(p) \in Nat
  BY CallsAssumption, LenProperties, Zenon DEF N

\* A request keeps its own part.
LEMMA RequestStep ==
    ASSUME UpdateInv, RequestType, NEW p \in Request, SnapOK(p), LimitsOK(p),
           Begin(p) \/ ShouldRateLimit(p)
    PROVE  SnapOK(p)' /\ LimitsOK(p)'
  <1>1. /\ Installed \in Nat /\ Installed <= Len(applied) /\ Len(applied) \in Nat
        /\ since[p] \in Nat /\ snapped[p] \in Nat
    BY DEF UpdateInv, Installed, RequestType
  <1>2. /\ UNCHANGED <<applied, locked>> /\ Installed' = Installed
    <2>1. UNCHANGED updater
      BY Zenon DEF Begin, ShouldRateLimit, BadBody, BadRequest, Snapshot, ConstructLimit,
                   DoLimit, Aggregate, Respond
    <2> QED  BY <2>1, Zenon DEF updater, Installed
  <1>3. CASE Begin(p)
    <2>1. /\ pc[p] = "idle" /\ snapped[p] = 0 /\ limits[p] = << >> /\ metrics[p] = << >>
          /\ checked[p] = {}
      BY <1>3, Zenon DEF Begin, SnapOK
    <2>2. /\ call'[p] \in Calls /\ since'[p] = Installed /\ pc'[p] = "check"
          /\ UNCHANGED <<snapped, limits, metrics, checked>>
      BY <1>3, Zenon DEF Begin, RequestType, OnRequests
    <2> QED  BY <1>1, <1>2, <2>1, <2>2 DEF SnapOK, LimitsOK
  <1>4. CASE BadBody(p) \/ BadRequest(p)
    <2>1. /\ pc[p] = "check" /\ pc'[p] = "done"
          /\ UNCHANGED <<call, since, snapped, limits, metrics, checked>>
      BY <1>4, Zenon DEF BadBody, BadRequest, Answer, RequestType
    <2>2. snapped[p] = 0  BY <2>1, Zenon DEF SnapOK
    <2> QED  BY <1>2, <2>1, <2>2 DEF SnapOK, LimitsOK
  <1>5. CASE Snapshot(p)
    <2>1. /\ pc[p] = "check" /\ N(p) > 0 /\ call[p] \in Calls /\ snapped[p] = 0
          /\ limits[p] = << >> /\ metrics[p] = << >> /\ checked[p] = {}
          /\ Len(applied) = Installed
      BY <1>5, Zenon DEF Snapshot, SnapOK, Installed
    <2>2. /\ UNCHANGED <<call, since, limits, metrics, checked>> /\ N(p)' = N(p)
      BY <1>5, Zenon DEF Snapshot, N
    <2>3. CASE pc'[p] = "done" /\ snapped' = snapped
      BY <1>2, <2>1, <2>2, <2>3 DEF SnapOK, LimitsOK
    <2>4. CASE pc'[p] = "limits" /\ snapped'[p] = Len(applied)
      <3>1. Len(applied) # 0
        BY <1>5, <2>4, EmptySeq, Zenon DEF Snapshot, Answer, RequestType, UpdateInv
      <3> QED  BY <1>1, <1>2, <2>1, <2>2, <2>4, <3>1 DEF SnapOK, LimitsOK
    <2> QED  BY <1>5, SnapshotEffect, <2>3, <2>4, ZenonT(30) DEF RequestType
  <1>6. CASE ConstructLimit(p)
    <2>1. /\ pc[p] = "limits" /\ call[p] \in Calls /\ snapped[p] # 0
          /\ metrics[p] = << >> /\ checked[p] = {} /\ Len(limits[p]) < N(p)
      BY <1>6, Zenon DEF ConstructLimit, SnapOK, LimitsOK
    <2>2. /\ limits'[p] = Append(limits[p], Found(p, Len(limits[p]) + 1))
          /\ pc'[p] = IF Len(limits[p]) + 1 = N(p) THEN "cache" ELSE "limits"
          /\ UNCHANGED <<call, since, snapped, metrics, checked>>
      BY <1>6, Zenon DEF ConstructLimit, RequestType, OnRequests, Found
    <2>3. N(p)' = N(p) /\ \A i : Found(p, i)' = Found(p, i)
      BY <1>2, <2>2, Zenon DEF N, Found, SnappedConfig
    <2>4. N(p) \in Nat  BY <2>1, CallSize, Zenon
    <2>5. SnapOK(p)'  BY <1>2, <2>1, <2>2, Zenon DEF SnapOK
    <2>6. /\ IsSeq(limits'[p]) /\ Len(limits'[p]) = Len(limits[p]) + 1 /\ Len(limits[p]) \in Nat
          /\ \A i \in 1..Len(limits[p]) : limits'[p][i] = limits[p][i]
          /\ limits'[p][Len(limits[p]) + 1] = Found(p, Len(limits[p]) + 1)
      BY <2>2, Appended DEF LimitsOK
    <2>7. \A i \in 1..Len(limits'[p]) : limits'[p][i] = Found(p, i)
      <3>1. \A i \in 1..Len(limits[p]) : limits[p][i] = Found(p, i)
        BY <1>2, Zenon DEF LimitsOK
      <3>2. \A i \in 1..Len(limits'[p]) : i \in 1..Len(limits[p]) \/ i = Len(limits[p]) + 1
        BY <2>6
      <3> QED  BY <2>6, <3>1, <3>2, Zenon
    <2> QED  BY <2>1, <2>2, <2>3, <2>4, <2>5, <2>6, <2>7 DEF LimitsOK
  <1>7. CASE DoLimit(p)
    <2>1. /\ pc[p] = "cache" /\ call[p] \in Calls /\ snapped[p] # 0 /\ Len(limits[p]) = N(p)
      BY <1>7, Zenon DEF DoLimit, SnapOK, LimitsOK
    <2>2. /\ checked'[p] = LimitsToCheck(p) /\ UNCHANGED <<call, since, snapped, limits>>
          /\ pc'[p] \in {"reply", "done"}
      BY <1>7, DoLimitEffect, ZenonT(40) DEF DoLimit, RequestType, OnRequests
    <2>3. /\ N(p)' = N(p) /\ LimitsToCheck(p)' = LimitsToCheck(p)
          /\ \A i : Found(p, i)' = Found(p, i)
      BY <1>2, <2>2, Zenon DEF N, Found, SnappedConfig, LimitsToCheck, Unlimited, Replaced,
                               Rule
    <2> QED  BY <1>2, <2>1, <2>2, <2>3, Zenon DEF SnapOK, LimitsOK
  <1>8. CASE Aggregate(p) \/ Respond(p)
    <2>1. /\ pc[p] = "reply" /\ pc'[p] \in {"reply", "done"}
          /\ UNCHANGED <<call, since, snapped, limits, metrics, checked>>
      BY <1>8, Zenon DEF Aggregate, Respond, Answer, RequestType
    <2>2. /\ N(p)' = N(p) /\ LimitsToCheck(p)' = LimitsToCheck(p)
          /\ \A i : Found(p, i)' = Found(p, i)
      BY <1>2, <2>1, Zenon DEF N, Found, SnappedConfig, LimitsToCheck, Unlimited, Replaced,
                               Rule
    <2> QED  BY <1>2, <2>1, <2>2, Zenon DEF SnapOK, LimitsOK
  <1> QED  BY <1>3, <1>4, <1>5, <1>6, <1>7, <1>8, Zenon DEF ShouldRateLimit

ServiceInv == UpdateInv /\ RequestType /\ RequestInv

\* The invariant holds at the start.
LEMMA ServiceInit ==
    ASSUME Init
    PROVE  ServiceInv
  <1>1. UpdateInv
    <2>1. /\ upd = "wait" /\ ~locked /\ applied = << >>
      BY Zenon DEF Init
    <2> QED  BY <2>1 DEF UpdateInv, Installed
  <1>2. RequestType  BY Zenon DEF Init, RequestType, OnRequests
  <1>3. Installed = 0  BY Zenon DEF Init, Installed
  <1>4. ASSUME NEW p \in Request PROVE SnapOK(p) /\ LimitsOK(p)
    <2>1. /\ pc[p] = "idle" /\ since[p] = 0 /\ snapped[p] = 0 /\ limits[p] = << >>
          /\ metrics[p] = << >> /\ checked[p] = {}
      BY Zenon DEF Init
    <2> QED  BY <1>3, <2>1 DEF SnapOK, LimitsOK, IsSeq
  <1> QED  BY <1>1, <1>2, <1>4 DEF ServiceInv, RequestInv

\* A step of a request installs nothing.
LEMMA RequestsInstallNothing ==
    ASSUME UpdateInv, NEW p \in Request, Begin(p) \/ ShouldRateLimit(p)
    PROVE  UpdateInv' /\ Grows /\ UNCHANGED headers
  <1>1. UNCHANGED updater
    BY Zenon DEF Begin, ShouldRateLimit, BadBody, BadRequest, Snapshot, ConstructLimit,
                 DoLimit, Aggregate, Respond
  <1>2. /\ UNCHANGED <<applied, headers, locked, upd, newConfig>> /\ Installed' = Installed
    BY <1>1, Zenon DEF updater, Installed
  <1>3. Len(applied) \in Nat /\ Installed \in Nat
    BY DEF UpdateInv, Installed
  <1> QED  BY <1>2, <1>3 DEF UpdateInv, Grows

\* A step of the goroutine of the updates leaves the requests alone.
LEMMA UpdatesLeaveRequests ==
    ASSUME GetConfig \/ SetConfig \/ UNCHANGED vars, NEW p \in Request
    PROVE  Same(p)
  <1>1. UNCHANGED request
    BY Zenon DEF GetConfig, SetConfig, UpdateHealth, InstallConfig, ReadSettings,
                 NameHeaders, vars
  <1> QED  BY <1>1, Zenon DEF request, Same

\* Every step keeps the invariant.
LEMMA ServiceNext ==
    ASSUME ServiceInv, [Next]_vars
    PROVE  ServiceInv' /\ Grows
  <1>1. RequestType'  BY TypeNext DEF ServiceInv
  <1>2. ASSUME NEW p \in Request, Begin(p) \/ ShouldRateLimit(p)
        PROVE  ServiceInv' /\ Grows
    <2>1. UpdateInv' /\ Grows  BY <1>2, RequestsInstallNothing, Zenon DEF ServiceInv
    <2>2. ASSUME NEW q \in Request PROVE SnapOK(q)' /\ LimitsOK(q)'
      <3>1. CASE q = p
        BY <1>2, <3>1, RequestStep, Zenon DEF ServiceInv, RequestInv
      <3>2. CASE q # p
        BY <1>2, <2>1, <3>2, OthersStay, RequestFrame, Zenon DEF ServiceInv, RequestInv
      <3> QED  BY <3>1, <3>2
    <2> QED  BY <1>1, <2>1, <2>2, Zenon DEF ServiceInv, RequestInv
  <1>3. CASE GetConfig \/ SetConfig \/ UNCHANGED vars
    <2>1. UpdateInv' /\ Grows
      <3>1. CASE UNCHANGED vars
        <4>1. /\ UNCHANGED <<applied, headers, locked, upd, newConfig>>
              /\ Installed' = Installed
          BY <3>1, Zenon DEF vars, updater, Installed
        <4>2. Len(applied) \in Nat /\ Installed \in Nat
          BY DEF ServiceInv, UpdateInv, Installed
        <4> QED  BY <4>1, <4>2 DEF ServiceInv, UpdateInv, Grows
      <3> QED  BY <1>3, <3>1, UpdaterKeeps DEF ServiceInv
    <2>2. ASSUME NEW q \in Request PROVE SnapOK(q)' /\ LimitsOK(q)'
      BY <1>3, <2>1, UpdatesLeaveRequests, RequestFrame, Zenon DEF ServiceInv, RequestInv
    <2> QED  BY <1>1, <2>1, <2>2, Zenon DEF ServiceInv, RequestInv
  <1> QED  BY <1>2, <1>3, Zenon DEF Next

\* The invariant is enough for one configuration per request.
LEMMA OneConfigurationHolds ==
    ASSUME ServiceInv
    PROVE  OneConfiguration
  <1> SUFFICES ASSUME NEW p \in Request, limits[p] # << >>
               PROVE  \E v \in 1..Len(applied) :
                         /\ v >= since[p]
                         /\ \A i \in 1..Len(limits[p]) :
                              Rule(p, i) = ConfigGetLimit(applied[v], call[p].domain,
                                                          call[p].descriptors[i]).rule
    BY Zenon DEF OneConfiguration
  <1>1. snapped[p] # 0 /\ snapped[p] >= since[p] /\ snapped[p] <= Installed
    BY Zenon DEF ServiceInv, RequestInv, SnapOK
  <1>2. snapped[p] \in 1..Len(applied)
    BY <1>1 DEF ServiceInv, RequestType, UpdateInv, Installed
  <1>3. \A i \in 1..Len(limits[p]) :
           Rule(p, i) = ConfigGetLimit(applied[snapped[p]], call[p].domain,
                                       call[p].descriptors[i]).rule
    BY Zenon DEF ServiceInv, RequestInv, LimitsOK, Found, SnappedConfig, Rule
  <1> QED  BY <1>1, <1>2, <1>3, Zenon

\* Every request is judged by one configuration, installed since it began: for any
\* number of requests and updates (ratelimit.go:82-97, 185-186).
THEOREM RequestsUseOneConfiguration == Spec => []OneConfiguration
  <1>1. Init => ServiceInv  BY ServiceInit
  <1>2. ServiceInv /\ [Next]_vars => ServiceInv'  BY ServiceNext
  <1>3. ServiceInv => OneConfiguration  BY OneConfigurationHolds
  <1> QED  BY <1>1, <1>2, <1>3, PTL DEF Spec
(***************************************************************************)
(* The limits that are enforced, as a function of the descriptors asked.   *)
(***************************************************************************)
RuleOf(config, domain, d) == ConfigGetLimit(config, domain, d).rule

IsReplaced(config, domain, D, r) ==
    /\ r.name # ""
    /\ \E e \in D : /\ RuleOf(config, domain, e) # NoRule
                    /\ r.name \in RuleOf(config, domain, e).replaces

IsEnforced(config, domain, D, r) ==
    r # NoRule /\ ~r.unlimited /\ ~IsReplaced(config, domain, D, r)

EnforcedRules(config, domain, D) ==
    {r \in {RuleOf(config, domain, d) : d \in D} : IsEnforced(config, domain, D, r)}

\* What reaches the cache depends on the set of descriptors only.
LEMMA CheckedRules ==
    ASSUME ServiceInv, NEW p \in Request, metrics[p] # << >>
    PROVE  {Rule(p, i) : i \in checked[p]}
             = EnforcedRules(SnappedConfig(p), call[p].domain, Range(call[p].descriptors))
  <1>1. call[p] \in Calls /\ Len(limits[p]) = N(p) /\ checked[p] = LimitsToCheck(p)
    BY Zenon DEF ServiceInv, RequestInv, SnapOK, LimitsOK
  <1> DEFINE ds == call[p].descriptors
             D == Range(ds)
             c == SnappedConfig(p)
             m == call[p].domain
  <1>2. DOMAIN ds = 1..N(p)
    BY <1>1, CallsAssumption, LenProperties, Zenon DEF N
  <1>3. /\ \A i \in 1..N(p) : ds[i] \in D
        /\ \A d \in D : \E i \in 1..N(p) : d = ds[i]
    BY <1>2, Zenon DEF Range
  <1>4. \A i \in 1..N(p) : Rule(p, i) = RuleOf(c, m, ds[i])
    BY <1>1, Zenon DEF ServiceInv, RequestInv, LimitsOK, Rule, Found, RuleOf
  <1> HIDE DEF ds, D, c, m
  <1>5. \A i \in 1..N(p) : Replaced(p, i) <=> IsReplaced(c, m, D, Rule(p, i))
    BY <1>3, <1>4, ZenonT(30) DEF Replaced, IsReplaced
  <1>6. checked[p] = {i \in 1..N(p) : IsEnforced(c, m, D, Rule(p, i))}
    BY <1>1, <1>5, Zenon DEF LimitsToCheck, Unlimited, IsEnforced
  <1>7. {Rule(p, i) : i \in checked[p]} = EnforcedRules(c, m, D)
    <2>1. ASSUME NEW i \in checked[p] PROVE Rule(p, i) \in EnforcedRules(c, m, D)
      BY <1>3, <1>4, <1>6, Zenon DEF EnforcedRules
    <2>2. ASSUME NEW r \in EnforcedRules(c, m, D)
          PROVE  \E i \in checked[p] : r = Rule(p, i)
      <3>1. PICK d \in D : r = RuleOf(c, m, d) /\ IsEnforced(c, m, D, r)
        BY Zenon DEF EnforcedRules
      <3>2. PICK i \in 1..N(p) : d = ds[i]  BY <1>3, Zenon
      <3> QED  BY <1>4, <1>6, <3>1, <3>2, Zenon
    <2> QED  BY <2>1, <2>2, Zenon
  <1> QED  BY <1>7, Zenon DEF ds, D, c, m

\* Which limits a request enforces does not depend on the order of its descriptors:
\* for any configuration, and any number of descriptors (ratelimit.go:150-173).
THEOREM EnforcedLimitsIgnoreOrder == Spec => []ReplacementIgnoresOrder
  <1>1. Init => ServiceInv  BY ServiceInit
  <1>2. ServiceInv /\ [Next]_vars => ServiceInv'  BY ServiceNext
  <1>3. ServiceInv => ReplacementIgnoresOrder
    BY CheckedRules, Zenon DEF ReplacementIgnoresOrder, SnappedConfig
  <1> QED  BY <1>1, <1>2, <1>3, PTL DEF Spec
(***************************************************************************)
(* The loop over the statuses.                                             *)
(***************************************************************************)
StatusOK(p, i) ==
    /\ statuses[p][i].limited <=> i \in checked[p]
    /\ statuses[p][i].remaining \in Nat
    /\ statuses[p][i].code = "OVER_LIMIT" =>
         i \in checked[p] /\ statuses[p][i].remaining = 0

\* The descriptor k describes the limits among the first n descriptors.
Describes(p, k, n) ==
    /\ k # 0 => k \in checked[p] \cap (1..n)
    /\ \A i \in (1..n) \cap checked[p] :
         k # 0 /\ statuses[p][k].remaining <= statuses[p][i].remaining
    /\ \A i \in 1..n : statuses[p][i].code = "OVER_LIMIT" =>
         k # 0 /\ statuses[p][k].code = "OVER_LIMIT"

Answered(p) == pc[p] = "done" /\ reply[p].kind \in {"OK", "OVER_LIMIT"}

TallyOK(p) ==
    /\ pc[p] \in {"idle", "check", "limits", "cache"} => idx[p] = 1 /\ minimum[p] = 0
    /\ pc[p] = "reply" =>
         /\ \A i \in 1..N(p) : StatusOK(p, i)
         /\ idx[p] \in 1..(N(p) + 1)
         /\ Describes(p, minimum[p], idx[p] - 1)
    /\ Answered(p) =>
         /\ checked[p] \subseteq 1..N(p)
         /\ Describes(p, reply[p].of, N(p))
         /\ reply[p].of # 0 => reply[p].headers = "named"
         /\ reply[p].kind = "OVER_LIMIT" =>
              \E i \in 1..N(p) : statuses[p][i].code = "OVER_LIMIT"

TallyInv == \A p \in Request : TallyOK(p)

\* A request that does not move keeps its tally.
LEMMA TallyFrame ==
    ASSUME NEW p \in Request, Same(p), TallyOK(p)
    PROVE  TallyOK(p)'
  <1>1. N(p)' = N(p) /\ (Answered(p)' <=> Answered(p))
    BY Zenon DEF N, Answered, Same
  <1>2. \A i : StatusOK(p, i)' <=> StatusOK(p, i)
    BY Zenon DEF StatusOK, Same
  <1>3. /\ Describes(p, minimum[p], idx[p] - 1)' <=> Describes(p, minimum[p], idx[p] - 1)
        /\ Describes(p, reply[p].of, N(p))' <=> Describes(p, reply[p].of, N(p))
    BY <1>1, Zenon DEF Describes, Same
  <1> QED  BY <1>1, <1>2, <1>3, Zenon DEF TallyOK, Same

\* The answer of the cache for one descriptor.
LEMMA CacheAnswer ==
    ASSUME NEW p \in Request, NEW i \in 1..N(p), NEW s \in CacheAnswers(p, i)
    PROVE  /\ s.limited <=> i \in LimitsToCheck(p)
           /\ s.remaining \in Nat
           /\ s.code = "OVER_LIMIT" => i \in LimitsToCheck(p) /\ s.remaining = 0
  <1>1. CASE i \notin LimitsToCheck(p)
    BY <1>1 DEF CacheAnswers
  <1>2. CASE i \in LimitsToCheck(p)
    <2>1. \/ s \in [limited : {TRUE}, code : {"OK"}, remaining : 0..MaxRemaining]
          \/ s = [limited |-> TRUE, code |-> "OVER_LIMIT", remaining |-> 0]
      BY <1>2, Zenon DEF CacheAnswers
    <2>2. CASE s \in [limited : {TRUE}, code : {"OK"}, remaining : 0..MaxRemaining]
      <3>1. s.limited = TRUE /\ s.code = "OK"  BY <2>2, Zenon
      <3>2. s.remaining \in Nat  BY <2>2, BoundAssumption
      <3> QED  BY <1>2, <3>1, <3>2, Zenon
    <2>3. CASE s = [limited |-> TRUE, code |-> "OVER_LIMIT", remaining |-> 0]
      <3>1. s.limited = TRUE /\ s.remaining = 0  BY <2>3, Zenon
      <3>2. s.remaining \in Nat  BY <3>1
      <3> QED  BY <1>2, <3>1, <3>2, Zenon
    <2> QED  BY <2>1, <2>2, <2>3, Zenon
  <1> QED  BY <1>1, <1>2, Zenon
\* One round of the loop extends the description by one descriptor.
LEMMA DescribesNext ==
    ASSUME NEW p \in Request, NEW i \in Nat \ {0}, NEW k \in Nat, k = minimum[p],
           headers # "off", Describes(p, k, i - 1), \A j \in 1..i : StatusOK(p, j)
    PROVE  Describes(p, IF IsMinimum(p, i) THEN i ELSE k, i)
  <1>1. StatusOK(p, i)  OBVIOUS
  <1>2. IsMinimum(p, i) <=>
          \/ /\ i \in checked[p]
             /\ k # 0 => statuses[p][i].remaining < statuses[p][k].remaining
          \/ statuses[p][i].code = "OVER_LIMIT"
    BY <1>1, Zenon DEF IsMinimum, StatusOK
  <1>3. \A j \in 1..i : /\ statuses[p][j].remaining \in Nat
                        /\ statuses[p][j].code = "OVER_LIMIT" =>
                             j \in checked[p] /\ statuses[p][j].remaining = 0
    BY Zenon DEF StatusOK
  <1>4. \A j \in 1..i : j # i => j \in 1..(i - 1)
    OBVIOUS
  <1>5. CASE IsMinimum(p, i)
    <2>1. i \in checked[p]  BY <1>2, <1>3, <1>5
    <2>2. ASSUME NEW j \in (1..i) \cap checked[p]
          PROVE  statuses[p][i].remaining <= statuses[p][j].remaining
      <3>1. CASE j = i  BY <1>3, <3>1
      <3>2. CASE j # i /\ statuses[p][i].code = "OVER_LIMIT"
        BY <1>3, <3>2
      <3>3. CASE j # i /\ statuses[p][i].code # "OVER_LIMIT"
        <4>1. k # 0 /\ k \in 1..(i - 1) /\ statuses[p][k].remaining <= statuses[p][j].remaining
          BY <1>4, <3>3, Zenon DEF Describes
        <4> QED  BY <1>2, <1>3, <1>5, <3>3, <4>1
      <3> QED  BY <3>1, <3>2, <3>3, Zenon
    <2>3. ASSUME NEW j \in 1..i, statuses[p][j].code = "OVER_LIMIT"
          PROVE  statuses[p][i].code = "OVER_LIMIT"
      <3>1. CASE j = i  BY <2>3, <3>1, Zenon
      <3>2. CASE j # i
        <4>1. k # 0 /\ k \in 1..(i - 1) /\ statuses[p][k].remaining = 0
          BY <1>3, <1>4, <2>3, <3>2 DEF Describes
        <4> QED  BY <1>2, <1>3, <1>5, <4>1
      <3> QED  BY <3>1, <3>2, Zenon
    <2> QED  BY <1>5, <2>1, <2>2, <2>3 DEF Describes
  <1>6. CASE ~IsMinimum(p, i)
    <2>1. statuses[p][i].code # "OVER_LIMIT"  BY <1>2, <1>6, Zenon
    <2>2. i \in checked[p] =>
            k # 0 /\ statuses[p][k].remaining <= statuses[p][i].remaining
      BY <1>2, <1>3, <1>6 DEF Describes
    <2> QED  BY <1>4, <1>6, <2>1, <2>2 DEF Describes
  <1> QED  BY <1>5, <1>6, Zenon

\* An error has no headers.
LEMMA ErrorAnswer ==
    ASSUME RequestType, NEW p \in Request, NEW e, Answer(p, e),
           e.kind \notin {"OK", "OVER_LIMIT"}
    PROVE  TallyOK(p)'
  <1>1. pc'[p] = "done" /\ reply'[p] = e
    BY Zenon DEF Answer, RequestType, OnRequests
  <1>2. ~Answered(p)'  BY <1>1 DEF Answered
  <1> QED  BY <1>1, <1>2, Zenon DEF TallyOK

\* With response headers enabled, a request keeps its tally.
LEMMA TallyStep ==
    ASSUME ServiceInv, ResponseHeadersEnabled, NEW p \in Request, TallyOK(p),
           Begin(p) \/ ShouldRateLimit(p)
    PROVE  TallyOK(p)'
  <1> USE DEF ServiceInv
  <1>a. RequestType  OBVIOUS
  <1>b. SnapOK(p) /\ LimitsOK(p)  BY DEF RequestInv
  <1>c. pc[p] = "reply" => headers = "named"
    <2>1. pc[p] = "reply" => snapped[p] # 0 /\ snapped[p] <= Installed /\ snapped[p] \in Nat
      BY <1>b, Zenon DEF SnapOK, RequestType
    <2> QED  BY <2>1 DEF UpdateInv, Installed
  <1>d. pc[p] # "idle" => N(p) \in Nat  BY <1>b, CallSize, Zenon DEF SnapOK
  <1>e. /\ Error(p, "bad request").kind \notin {"OK", "OVER_LIMIT"}
        /\ Error(p, "service error").kind \notin {"OK", "OVER_LIMIT"}
        /\ Error(p, "redis error").kind \notin {"OK", "OVER_LIMIT"}
    BY Zenon DEF Error
  <1> HIDE DEF ServiceInv
  <1>1. CASE Begin(p)
    <2>1. /\ pc[p] = "idle" /\ UNCHANGED <<idx, minimum>> /\ pc'[p] = "check"
      BY <1>1, <1>a, Zenon DEF Begin, RequestType
    <2> QED  BY <2>1, Zenon DEF TallyOK, Answered
  <1>2. CASE BadBody(p) \/ BadRequest(p)
    <2>1. CASE Answer(p, Error(p, "bad request"))
      BY <2>1, <1>a, <1>e, ErrorAnswer, Zenon
    <2>2. CASE Answer(p, Error(p, "service error"))
      BY <2>2, <1>a, <1>e, ErrorAnswer, Zenon
    <2> QED  BY <1>2, <2>1, <2>2, Zenon DEF BadBody, BadRequest
  <1>3. CASE Snapshot(p)
    <2>1. pc[p] = "check" /\ UNCHANGED <<idx, minimum>>
      BY <1>3, Zenon DEF Snapshot
    <2>2. CASE Answer(p, Error(p, "service error"))
      BY <2>2, <1>a, <1>e, ErrorAnswer, Zenon
    <2>3. CASE pc' = [pc EXCEPT ![p] = "limits"]
      <3>1. pc'[p] = "limits"  BY <2>3, <1>a, Zenon DEF RequestType
      <3> QED  BY <2>1, <3>1, Zenon DEF TallyOK, Answered
    <2> QED  BY <1>3, <2>2, <2>3, Zenon DEF Snapshot
  <1>4. CASE ConstructLimit(p)
    <2>1. /\ pc[p] = "limits" /\ UNCHANGED <<idx, minimum>>
          /\ \/ pc' = [pc EXCEPT ![p] = "limits"]
             \/ pc' = [pc EXCEPT ![p] = "cache"]
      BY <1>4, Zenon DEF ConstructLimit
    <2>2. pc'[p] \in {"limits", "cache"}  BY <2>1, <1>a, Zenon DEF RequestType
    <2> QED  BY <2>1, <2>2, Zenon DEF TallyOK, Answered
  <1>5. CASE DoLimit(p)
    <2>1. /\ pc[p] = "cache" /\ UNCHANGED <<idx, minimum, call>>
          /\ checked' = [checked EXCEPT ![p] = LimitsToCheck(p)]
      BY <1>5, Zenon DEF DoLimit
    <2>2. /\ checked'[p] = LimitsToCheck(p) /\ idx[p] = 1 /\ minimum[p] = 0
          /\ N(p)' = N(p) /\ N(p) \in Nat
      BY <2>1, <1>a, <1>d, Zenon DEF N, TallyOK, RequestType, OnRequests
    <2>3. CASE Answer(p, Error(p, "redis error"))
      BY <2>3, <1>a, <1>e, ErrorAnswer, ZenonT(40)
    <2>4. ASSUME NEW s, \A i \in 1..N(p) : s[i] \in CacheAnswers(p, i),
                 statuses' = [statuses EXCEPT ![p] = s], pc' = [pc EXCEPT ![p] = "reply"]
          PROVE  TallyOK(p)'
      <3>1. statuses'[p] = s /\ pc'[p] = "reply"
        BY <2>4, <1>a, Zenon DEF RequestType, OnRequests
      <3>2. \A i \in 1..N(p) : StatusOK(p, i)'
        BY <2>2, <2>4, <3>1, CacheAnswer, ZenonT(30) DEF StatusOK
      <3>3. Describes(p, minimum[p], idx[p] - 1)'
        BY <2>1, <2>2 DEF Describes
      <3> QED  BY <2>1, <2>2, <3>1, <3>2, <3>3 DEF TallyOK, Answered
    <2> QED  BY <1>5, <2>3, <2>4, Zenon DEF DoLimit
  <1>6. CASE Aggregate(p)
    <2>1. /\ pc[p] = "reply" /\ pc' = pc /\ idx[p] <= N(p) /\ idx'[p] = idx[p] + 1
          /\ minimum'[p] = IF IsMinimum(p, idx[p]) THEN idx[p] ELSE minimum[p]
          /\ UNCHANGED <<call, checked, statuses, reply>>
      BY <1>6, <1>a, Zenon DEF Aggregate, RequestType
    <2>2. /\ N(p)' = N(p) /\ N(p) \in Nat /\ idx[p] \in Nat \ {0} /\ minimum[p] \in Nat
      <3>1. N(p)' = N(p)  BY <2>1, Zenon DEF N
      <3>2. N(p) \in Nat  BY <2>1, <1>d, Zenon
      <3>3. idx[p] \in Nat /\ minimum[p] \in Nat  BY <1>a, Zenon DEF RequestType
      <3>4. idx[p] \in 1..(N(p) + 1)  BY <2>1, Zenon DEF TallyOK
      <3>5. idx[p] # 0  BY <3>2, <3>4
      <3> QED  BY <3>1, <3>2, <3>3, <3>5
    <2>3. headers = "named"  BY <1>c, <2>1, Zenon
    <2>4. \A i \in 1..N(p) : StatusOK(p, i)  BY <2>1, ZenonT(30) DEF TallyOK
    <2>5. Describes(p, minimum'[p], idx[p])
      <3>1. Describes(p, minimum[p], idx[p] - 1)  BY <2>1, Zenon DEF TallyOK
      <3>2. \A j \in 1..idx[p] : j \in 1..N(p)  BY <2>1, <2>2
      <3>3. \A j \in 1..idx[p] : StatusOK(p, j)  BY <2>4, <3>2, Zenon
      <3>4. headers # "off"  BY <2>3
      <3>5. Describes(p, IF IsMinimum(p, idx[p]) THEN idx[p] ELSE minimum[p], idx[p])
        BY <2>2, <3>1, <3>3, <3>4, DescribesNext, Zenon
      <3> QED  BY <2>1, <3>5, Zenon
    <2>6. Describes(p, minimum[p], idx[p] - 1)'
      <3>1. idx'[p] - 1 = idx[p]  BY <2>1, <2>2
      <3> QED  BY <2>1, <2>5, <3>1, Zenon DEF Describes
    <2>7. \A i \in 1..N(p) : StatusOK(p, i)'
      BY <2>1, <2>4, Zenon DEF StatusOK
    <2>8. pc'[p] = "reply" /\ idx'[p] \in 1..(N(p)' + 1)  BY <2>1, <2>2
    <2> QED  BY <2>2, <2>6, <2>7, <2>8, Zenon DEF TallyOK, Answered
  <1>7. CASE Respond(p)
    <2>1. /\ pc[p] = "reply" /\ idx[p] > N(p) /\ UNCHANGED <<call, checked, statuses>>
          /\ pc'[p] = "done"
          /\ reply'[p].of = minimum[p]
          /\ reply'[p].headers = IF minimum[p] = 0 THEN "off" ELSE headers
          /\ reply'[p].kind = "OVER_LIMIT" =>
               \E i \in 1..N(p) : statuses[p][i].code = "OVER_LIMIT"
      BY <1>7, <1>a, Zenon DEF Respond, Answer, RequestType, OnRequests
    <2>2. N(p)' = N(p)  BY <2>1, Zenon DEF N
    <2>8. N(p) \in Nat /\ idx[p] \in 1..(N(p) + 1)  BY <2>1, <1>d, Zenon DEF TallyOK
    <2>9. idx[p] = N(p) + 1  BY <2>1, <2>8
    <2>3. headers = "named"  BY <1>c, <2>1, Zenon
    <2>4. checked[p] \subseteq 1..N(p)
      BY <2>1, <1>b, Zenon DEF LimitsOK, LimitsToCheck
    <2>5. Describes(p, minimum[p], N(p))
      <3>1. idx[p] - 1 = N(p)  BY <2>8, <2>9
      <3> QED  BY <2>1, <3>1, Zenon DEF TallyOK
    <2>6. Describes(p, reply[p].of, N(p))'
      BY <2>1, <2>2, <2>5, Zenon DEF Describes
    <2> QED  BY <2>1, <2>2, <2>3, <2>4, <2>6, Zenon DEF TallyOK
  <1> QED  BY <1>1, <1>2, <1>3, <1>4, <1>5, <1>6, <1>7, Zenon DEF ShouldRateLimit
\* With response headers enabled, the tally holds at the start and every step keeps it.
LEMMA TallyInit ==
    ASSUME Init
    PROVE  TallyInv
  <1> SUFFICES ASSUME NEW p \in Request PROVE TallyOK(p)
    BY DEF TallyInv
  <1>1. pc[p] = "idle" /\ idx[p] = 1 /\ minimum[p] = 0
    BY Zenon DEF Init
  <1> QED  BY <1>1, Zenon DEF TallyOK, Answered

\* Every step keeps the tallies.
LEMMA TallyNext ==
    ASSUME ServiceInv, ResponseHeadersEnabled, TallyInv, [Next]_vars
    PROVE  TallyInv'
  <1> SUFFICES ASSUME NEW q \in Request PROVE TallyOK(q)'
    BY DEF TallyInv
  <1>1. ASSUME NEW p \in Request, Begin(p) \/ ShouldRateLimit(p)
        PROVE  TallyOK(q)'
    <2>1. CASE q = p  BY <1>1, <2>1, TallyStep DEF TallyInv
    <2>2. CASE q # p
      BY <1>1, <2>2, OthersStay, TallyFrame, Zenon DEF TallyInv, ServiceInv
    <2> QED  BY <2>1, <2>2
  <1>2. CASE GetConfig \/ SetConfig \/ UNCHANGED vars
    BY <1>2, UpdatesLeaveRequests, TallyFrame DEF TallyInv
  <1> QED  BY <1>1, <1>2 DEF Next

\* With response headers enabled every answer about a limit carries all three, with
\* their names, for any number of requests and updates (ratelimit.go:82-97,
\* 225-230).
THEOREM HeadersAreComplete == Spec => []HeadersComplete
  <1>1. CASE ResponseHeadersEnabled
    <2>1. Init => ServiceInv /\ TallyInv  BY ServiceInit, TallyInit
    <2>2. ServiceInv /\ TallyInv /\ [Next]_vars => ServiceInv' /\ TallyInv'
      BY <1>1, ServiceNext, TallyNext
    <2>3. TallyInv => HeadersComplete
      <3> SUFFICES ASSUME TallyInv, NEW p \in Request, Answered(p), checked[p] # {}
                   PROVE  reply[p].headers = "named"
        BY Zenon DEF HeadersComplete, Answered
      <3> QED  BY Zenon DEF TallyInv, TallyOK, Describes
    <2> QED  BY <2>1, <2>2, <2>3, PTL DEF Spec
  <1>2. CASE ~ResponseHeadersEnabled
    <2>1. HeadersComplete  BY <1>2 DEF HeadersComplete
    <2> QED  BY <2>1, PTL
  <1> QED  BY <1>1, <1>2

\* With response headers enabled they describe a descriptor that refuses when one
\* does, and otherwise the one closest to its limit, for any number of descriptors
\* and whatever the cache answers (ratelimit.go:195-222).
THEOREM HeadersAreTightest ==
    ASSUME ResponseHeadersEnabled
    PROVE  Spec => []HeadersDescribeTightest
  <1>1. Init => ServiceInv /\ TallyInv  BY ServiceInit, TallyInit
  <1>2. ServiceInv /\ TallyInv /\ [Next]_vars => ServiceInv' /\ TallyInv'
    BY ServiceNext, TallyNext
  <1>3. TallyInv => HeadersDescribeTightest
    <2> SUFFICES ASSUME TallyInv, NEW p \in Request, Answered(p), checked[p] # {}
                 PROVE  /\ reply[p].of \in checked[p]
                        /\ \A i \in checked[p] :
                             statuses[p][reply[p].of].remaining <= statuses[p][i].remaining
                        /\ reply[p].kind = "OVER_LIMIT" =>
                             statuses[p][reply[p].of].code = "OVER_LIMIT"
      BY Zenon DEF HeadersDescribeTightest, Answered
    <2> QED  BY Zenon DEF TallyInv, TallyOK, Describes
  <1> QED  BY <1>1, <1>2, <1>3, PTL DEF Spec
================================================================================
