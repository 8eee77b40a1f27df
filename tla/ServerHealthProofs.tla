-------------------------- MODULE ServerHealthProofs ---------------------------
(***************************************************************************)
(* Proofs about HealthChecker, for any set of goroutines, and about        *)
(* ServerHealth, for any number of connections and updates.                *)
(*                                                                         *)
(* Coherent is not inductive: it says nothing while the mutex is held.     *)
(* HealthInv adds what the holder is about to publish.  The goroutines of  *)
(* the server implement HealthChecker, so its theorems hold of the server; *)
(* what the pools and the configuration promise rests on RoleInv (who      *)
(* reports which component), PoolInv and ConfigInv.                        *)
(***************************************************************************)
EXTENDS ServerHealth, FiniteSetTheorems, TLAPS

Publishing(t) == step[t] \in {"store", "grpc"}

HealthInv ==
    /\ \A t \in Thread : Publishing(t) <=> mutex = t
    /\ \A t \in Thread : op[t] = "Ok" => comp[t] # "sigterm"
    /\ \A t \in Thread : Publishing(t) =>
         (op[t] = "Ok" <=> areAllComponentsHealthy(healthMap))
    /\ \A t \in Thread : step[t] = "grpc" => ok = OkWord(op[t])
    /\ Coherent

\* NewHealthChecker establishes the type and the invariant.
LEMMA HealthInit == Init => TypeOK /\ HealthInv
  <1> SUFFICES ASSUME Init PROVE TypeOK /\ HealthInv  BY Zenon
  <1>1. TypeOK
    BY Zenon DEF Init, TypeOK, Components, ComponentNames
  <1>2. Coherent  BY DEF Init, Coherent
  <1>3. HealthInv
    BY <1>2, HealthAssumption DEF Init, HealthInv, Publishing
  <1> QED  BY <1>1, <1>3

\* Entering a method changes no shared state.
LEMMA CallKeeps ==
    ASSUME TypeOK, HealthInv, NEW t \in Thread, NEW c \in Calls, Call(t, c[1], c[2])
    PROVE  TypeOK' /\ HealthInv'
  <1>1. /\ c[1] \in {"Ok", "Fail"} /\ c[2] \in ComponentNames
        /\ c[1] = "Ok" => c[2] # "sigterm"
    BY Zenon DEF Calls, ComponentNames
  <1>2. TypeOK'  BY <1>1, Zenon DEF Call, TypeOK
  <1>3. \A u \in Thread : Publishing(u)' = Publishing(u) /\ (Publishing(u) => u # t)
    BY DEF Call, TypeOK, Publishing
  <1>4. \A u \in Thread : u # t => op'[u] = op[u] /\ comp'[u] = comp[u] /\ step'[u] = step[u]
    BY Zenon DEF Call, TypeOK
  <1>5. op'[t] = c[1] /\ comp'[t] = c[2] /\ step'[t] = "lock"
    BY Zenon DEF Call, TypeOK
  <1>6. healthMap' = healthMap /\ ok' = ok /\ grpc' = grpc /\ mutex' = mutex
    BY Zenon DEF Call
  <1>7. HealthInv'
    <2>1. (\A u \in Thread : Publishing(u) <=> mutex = u)'
      BY <1>3, <1>6, Zenon DEF HealthInv
    <2>2. (\A u \in Thread : op[u] = "Ok" => comp[u] # "sigterm")'
      BY <1>1, <1>4, <1>5 DEF HealthInv
    <2>3. (\A u \in Thread : Publishing(u) =>
             (op[u] = "Ok" <=> areAllComponentsHealthy(healthMap)))'
      BY <1>3, <1>4, <1>6, Zenon DEF HealthInv, areAllComponentsHealthy
    <2>4. (\A u \in Thread : step[u] = "grpc" => ok = OkWord(op[u]))'
      BY <1>4, <1>5, <1>6 DEF HealthInv, OkWord
    <2>5. Coherent'  BY <1>6, Zenon DEF HealthInv, Coherent, areAllComponentsHealthy
    <2> QED  BY <2>1, <2>2, <2>3, <2>4, <2>5, Zenon DEF HealthInv
  <1> QED  BY <1>2, <1>7, Zenon

\* A thread that locks leaves a published state, or holds the mutex.
LEMMA LockKeeps ==
    ASSUME TypeOK, HealthInv, NEW t \in Thread, Lock(t)
    PROVE  TypeOK' /\ HealthInv'
  <1>1. /\ mutex = NoThread /\ step[t] = "lock" /\ ok' = ok /\ grpc' = grpc
        /\ op' = op /\ comp' = comp
    BY Zenon DEF Lock, MayLock
  <1>2. \A u \in Thread : ~Publishing(u)
    BY <1>1, HealthAssumption, Zenon DEF HealthInv
  <1>3. DOMAIN healthMap = Components /\ comp[t] \in ComponentNames  BY Zenon DEF TypeOK
  <1>4. CASE comp[t] \notin DOMAIN healthMap
    <2>1. healthMap' = healthMap /\ mutex' = mutex
          /\ step' = [step EXCEPT ![t] = "idle"]
      BY <1>4, Zenon DEF Lock
    <2>2. TypeOK'  BY <1>1, <2>1, Zenon DEF TypeOK
    <2>3. \A u \in Thread : ~Publishing(u)' /\ step'[u] # "grpc"
      BY <1>2, <2>1 DEF Publishing, TypeOK
    <2>4. Coherent'  BY <1>1, <2>1, Zenon DEF HealthInv, Coherent, areAllComponentsHealthy
    <2>5. HealthInv'
      BY <1>1, <2>1, <2>3, <2>4, HealthAssumption, Zenon DEF HealthInv
    <2> QED  BY <2>2, <2>5, Zenon
  <1>5. CASE comp[t] \in DOMAIN healthMap
    <2>1. healthMap' = [healthMap EXCEPT ![comp[t]] = (op[t] = "Ok")]
      BY <1>5, Zenon DEF Lock, Updated
    <2>2. healthMap' \in [Components -> BOOLEAN]
          /\ healthMap'[comp[t]] = (op[t] = "Ok")
      BY <1>3, <1>5, <2>1, Zenon DEF TypeOK
    <2>3. CASE Publishes(op[t], healthMap') /\ mutex' = t
               /\ step' = [step EXCEPT ![t] = "store"]
      <3>1. TypeOK'  BY <1>1, <2>2, <2>3, Zenon DEF TypeOK
      <3>2. op[t] = "Ok" <=> areAllComponentsHealthy(healthMap)'
        BY <1>3, <1>5, <2>2, <2>3, Zenon DEF Publishes, areAllComponentsHealthy, TypeOK
      <3>3. \A u \in Thread : (Publishing(u)' <=> u = t) /\ step'[u] # "grpc"
        BY <1>2, <2>3 DEF Publishing, TypeOK
      <3>4. Coherent'  BY <2>3, HealthAssumption, Zenon DEF Coherent
      <3>5. HealthInv'
        BY <1>1, <2>3, <3>2, <3>3, <3>4, Zenon DEF HealthInv
      <3> QED  BY <3>1, <3>5, Zenon
    <2>4. CASE ~Publishes(op[t], healthMap') /\ mutex' = mutex
               /\ step' = [step EXCEPT ![t] = "idle"]
      <3>1. TypeOK'  BY <1>1, <2>2, <2>4, Zenon DEF TypeOK
      <3>2. \A u \in Thread : ~Publishing(u)' /\ step'[u] # "grpc"
        BY <1>2, <2>4 DEF Publishing, TypeOK
      <3>3. op[t] = "Ok" /\ ~areAllComponentsHealthy(healthMap)'
        BY <2>4, Zenon DEF Publishes, areAllComponentsHealthy, TypeOK
      <3>4. ~areAllComponentsHealthy(healthMap)
        BY <1>3, <2>1, <3>3, Zenon DEF areAllComponentsHealthy, TypeOK
      <3>5. Coherent'
        BY <1>1, <3>3, <3>4, Zenon DEF HealthInv, Coherent
      <3>6. HealthInv'
        BY <1>1, <2>4, <3>2, <3>5, HealthAssumption, Zenon DEF HealthInv
      <3> QED  BY <3>1, <3>6, Zenon
    <2> QED  BY <1>5, <2>3, <2>4, Zenon DEF Lock
  <1> QED  BY <1>4, <1>5, Zenon

\* The store of the word is done by the holder of the mutex.
LEMMA StoreOkKeeps ==
    ASSUME TypeOK, HealthInv, NEW t \in Thread, StoreOk(t)
    PROVE  TypeOK' /\ HealthInv' /\ mutex = t /\ Publishing(t)
  <1>1. mutex = t /\ Publishing(t) /\ mutex' = mutex  BY Zenon DEF StoreOk, Publishing, HealthInv
  <1>2. TypeOK'  BY Zenon DEF StoreOk, TypeOK, OkWord
  <1>3. \A u \in Thread : Publishing(u)' = Publishing(u)
    BY DEF StoreOk, TypeOK, Publishing
  <1>4. \A u \in Thread : u # t => step'[u] = step[u] /\ step[u] # "grpc"
    BY <1>1, Zenon DEF StoreOk, TypeOK, HealthInv, Publishing
  <1>5. ok' = OkWord(op[t]) /\ op' = op /\ comp' = comp /\ healthMap' = healthMap
    BY Zenon DEF StoreOk
  <1>6. Coherent'  BY <1>1, HealthAssumption, Zenon DEF Coherent
  <1>7. (\A u \in Thread : step[u] = "grpc" => ok = OkWord(op[u]))'
    BY <1>4, <1>5, Zenon DEF OkWord
  <1>8. (\A u \in Thread : Publishing(u) =>
             (op[u] = "Ok" <=> areAllComponentsHealthy(healthMap)))'
    BY <1>3, <1>5, Zenon DEF HealthInv, areAllComponentsHealthy
  <1>9. (\A u \in Thread : Publishing(u) <=> mutex = u)'
    BY <1>1, <1>3, Zenon DEF HealthInv
  <1> QED  BY <1>1, <1>2, <1>5, <1>6, <1>7, <1>8, <1>9, Zenon DEF HealthInv

\* Publishing the gRPC status makes both probes agree, then unlocks.
LEMMA SetServingStatusKeeps ==
    ASSUME TypeOK, HealthInv, NEW t \in Thread, SetServingStatus(t)
    PROVE  TypeOK' /\ HealthInv' /\ mutex = t /\ Publishing(t)
  <1>1. mutex = t /\ Publishing(t) /\ step[t] = "grpc" /\ mutex' = NoThread
    BY Zenon DEF SetServingStatus, Publishing, HealthInv
  <1>2. TypeOK'  BY Zenon DEF SetServingStatus, TypeOK
  <1>3. \A u \in Thread : ~Publishing(u)' /\ step'[u] # "grpc"
    BY <1>1, Zenon DEF SetServingStatus, TypeOK, Publishing, HealthInv
  <1>4. ok' = ok /\ op' = op /\ comp' = comp /\ healthMap' = healthMap
        /\ grpc' = IF op[t] = "Ok" THEN "SERVING" ELSE "NOT_SERVING"
    BY Zenon DEF SetServingStatus
  <1>5. ok = OkWord(op[t]) /\ (op[t] = "Ok" <=> areAllComponentsHealthy(healthMap))
    BY <1>1, Zenon DEF HealthInv
  <1>6. Coherent'
    BY <1>4, <1>5 DEF Coherent, OkWord, areAllComponentsHealthy
  <1>7. HealthInv'
    BY <1>1, <1>3, <1>4, <1>6, HealthAssumption, Zenon DEF HealthInv
  <1> QED  BY <1>1, <1>2, <1>7, Zenon

\* Every step preserves the type and the invariant.
LEMMA HealthNext ==
    ASSUME TypeOK, HealthInv, [Next]_hcvars
    PROVE  TypeOK' /\ HealthInv'
  <1>1. CASE UNCHANGED hcvars
    <2>1. TypeOK'  BY <1>1, Zenon DEF hcvars, TypeOK
    <2>2. HealthInv'
      BY <1>1, Zenon DEF hcvars, HealthInv, Coherent, Publishing, OkWord, areAllComponentsHealthy
    <2> QED  BY <2>1, <2>2
  <1> QED
    BY <1>1, CallKeeps, LockKeeps, StoreOkKeeps, SetServingStatusKeeps, Zenon
       DEF Next, HealthStep

\* The inductive invariant holds in every reachable state.
THEOREM HealthCorrect == Spec => [](TypeOK /\ HealthInv)
  BY HealthInit, HealthNext, PTL DEF Spec

\* Both probes agree with the components whenever the mutex is free, for any
\* number of goroutines calling Ok and Fail.
THEOREM ProbesAreCoherent == Spec => []Coherent
  <1>1. HealthInv => Coherent  BY Zenon DEF HealthInv
  <1> QED  BY <1>1, HealthCorrect, PTL

\* A probe is told "healthy" wrongly only while the correcting Fail runs.
THEOREM ProbesAreTruthful == Spec => []HealthyIsTruthful
  <1>1. TypeOK /\ HealthInv => HealthyIsTruthful
    BY Zenon DEF TypeOK, HealthInv, HealthyIsTruthful, Coherent, Publishing
  <1> QED  BY <1>1, HealthCorrect, PTL

\* SIGTERM is final for both probes.
THEOREM SigtermIsFinal == Spec => SigtermFinal
  <1> DEFINE Final == ~healthMap["sigterm"] =>
                        /\ ~healthMap'["sigterm"]
                        /\ ok' = 1 => ok = 1
                        /\ grpc' = "SERVING" => grpc = "SERVING"
  <1>1. TypeOK /\ HealthInv /\ [Next]_hcvars => [Final]_hcvars
    <2> SUFFICES ASSUME TypeOK, HealthInv, Next, ~healthMap["sigterm"]
                 PROVE  /\ ~healthMap'["sigterm"]
                        /\ ok' = 1 => ok = 1
                        /\ grpc' = "SERVING" => grpc = "SERVING"
      BY Zenon
    <2>1. ~areAllComponentsHealthy(healthMap)
      BY Zenon DEF areAllComponentsHealthy, TypeOK, Components
    <2>2. ASSUME NEW t \in Thread, NEW c \in Calls, Call(t, c[1], c[2])
          PROVE  healthMap' = healthMap /\ ok' = ok /\ grpc' = grpc
      BY <2>2, Zenon DEF Call
    <2>3. ASSUME NEW t \in Thread, Lock(t)
          PROVE  ~healthMap'["sigterm"] /\ ok' = ok /\ grpc' = grpc
      <3>1. op[t] = "Ok" => comp[t] # "sigterm"  BY Zenon DEF HealthInv
      <3>2. "sigterm" \in DOMAIN healthMap  BY DEF TypeOK, Components
      <3>3. healthMap' = healthMap
              \/ healthMap' = [healthMap EXCEPT ![comp[t]] = (op[t] = "Ok")]
        BY <2>3, Zenon DEF Lock, Updated
      <3>4. ok' = ok /\ grpc' = grpc  BY <2>3, Zenon DEF Lock
      <3> QED  BY <3>1, <3>2, <3>3, <3>4, Zenon DEF TypeOK
    <2>4. ASSUME NEW t \in Thread, StoreOk(t)
          PROVE  healthMap' = healthMap /\ ok' = 0 /\ grpc' = grpc
      <3>1. op[t] # "Ok"  BY <2>1, <2>4, StoreOkKeeps, Zenon DEF HealthInv
      <3> QED  BY <2>4, <3>1, Zenon DEF StoreOk, OkWord
    <2>5. ASSUME NEW t \in Thread, SetServingStatus(t)
          PROVE  healthMap' = healthMap /\ ok' = ok /\ grpc' = "NOT_SERVING"
      <3>1. op[t] # "Ok"  BY <2>1, <2>5, SetServingStatusKeeps, Zenon DEF HealthInv
      <3> QED  BY <2>5, <3>1, Zenon DEF SetServingStatus
    <2> QED  BY <2>2, <2>3, <2>4, <2>5 DEF Next, HealthStep
  <1> QED  BY <1>1, HealthCorrect, PTL DEF Spec, SigtermFinal

\* A server step that calls the health checker or steps in it.
CallOf(t, o, c) == Call(t, o, c) /\ <<o, c>> \in Calls

\* The steps of the server, by what they do to the health checker.
LEMMA ServerCases ==
    ASSUME [ServerNext]_vars
    PROVE  \/ UNCHANGED hcvars
           \/ \E t \in Thread : HealthProgress(t)
           \/ \E c \in Conn : ConnCreated(c) /\ CallOf(c, "Ok", "redis")
           \/ \E c \in Conn : ConnClosedCheck(c) /\ CallOf(c, "Fail", "redis")
           \/ ReceiveConfig /\ update' \in {"empty", "loaded"}
              /\ CallOf(ConfigThread, ConfigHealth(update'), "config")
           \/ HandleSigterm /\ CallOf(SigtermThread, "Fail", "sigterm")
  <1>1. /\ <<"Ok", "redis">> \in Calls /\ <<"Fail", "redis">> \in Calls
        /\ <<"Fail", "sigterm">> \in Calls
        /\ <<"Ok", "config">> \in Calls /\ <<"Fail", "config">> \in Calls
    BY DEF Calls, ComponentNames
  <1>2. ASSUME NEW c \in Conn, ConnCreated(c)
        PROVE  UNCHANGED hcvars \/ CallOf(c, "Ok", "redis")
    BY <1>1, <1>2, Zenon DEF ConnCreated, CallOf, RedisHealthComponentName
  <1>3. ASSUME NEW c \in Conn, ConnClosedCheck(c)
        PROVE  UNCHANGED hcvars \/ CallOf(c, "Fail", "redis")
    BY <1>1, <1>3, Zenon DEF ConnClosedCheck, CallOf, RedisHealthComponentName
  <1>4. ASSUME ReceiveConfig
        PROVE  \/ UNCHANGED hcvars
               \/ /\ update' \in {"empty", "loaded"}
                  /\ CallOf(ConfigThread, ConfigHealth(update'), "config")
    <2>1. PICK e \in {"error", "empty", "loaded"} :
            IF e = "error" THEN UNCHANGED <<hcvars, update>>
            ELSE /\ update' = e
                 /\ IF HealthyWithAtLeastOneConfigLoad
                    THEN Call(ConfigThread, ConfigHealth(e), "config")
                    ELSE UNCHANGED hcvars
      BY <1>4, Zenon DEF ReceiveConfig
    <2> QED  BY <1>1, <2>1, Zenon DEF CallOf, ConfigHealth
  <1>5. HandleSigterm => CallOf(SigtermThread, "Fail", "sigterm")
    BY <1>1 DEF HandleSigterm, CallOf, SigtermComponentName
  <1>6. StoreConfig \/ SendSigterm \/ UNCHANGED vars
          \/ (\E c \in Conn : Dial(c) \/ Lose(c) \/ ConnClosed(c))
          => UNCHANGED hcvars
    BY Zenon DEF StoreConfig, SendSigterm, Dial, Lose, ConnClosed, vars
  <1> QED  BY <1>2, <1>3, <1>4, <1>5, <1>6, Zenon DEF ServerNext

\* The threads of the program are threads of the health checker.
LEMMA Threads ==
    /\ Conn \subseteq Thread /\ ConfigThread \in Thread /\ SigtermThread \in Thread
  BY ServerAssumption

\* Every step of the server is one of the health checker, or leaves it alone.
LEMMA ServerStepRefines ==
    ASSUME [ServerNext]_vars
    PROVE  [Next]_hcvars
  <1>1. ASSUME NEW t \in Thread, NEW o, NEW c, CallOf(t, o, c) PROVE Next
    <2>1. <<o, c>> \in Calls /\ Call(t, <<o, c>>[1], <<o, c>>[2])
      BY <1>1 DEF CallOf
    <2> QED  BY <2>1 DEF Next
  <1>2. ASSUME NEW t \in Thread, HealthProgress(t) PROVE Next
    BY <1>2 DEF HealthProgress, Next
  <1> QED  BY <1>1, <1>2, ServerCases, Threads, Zenon

\* The pools, the configuration and the signal goroutine implement
\* HealthChecker: what is proved of it holds of the server.
THEOREM ServerImplementsHealthChecker == ServerSpec => HealthCheckerSpec
  <1>1. ServerInit => Init  BY DEF ServerInit
  <1> QED  BY <1>1, ServerStepRefines, PTL DEF ServerSpec, Spec, HealthCheckerSpec

--------------------------------------------------------------------------------
\* The component thread t reports.
Role(t) == IF t = ConfigThread THEN "config"
           ELSE IF t = SigtermThread THEN "sigterm" ELSE "redis"

RoleInv == \A t \in Thread : step[t] # "idle" => comp[t] = Role(t)

\* A thread reports its own component only.
LEMMA RoleNext ==
    ASSUME TypeOK, HealthInv, RoleInv, [ServerNext]_vars
    PROVE  RoleInv'
  <1>1. ASSUME NEW t \in Thread, NEW o, CallOf(t, o, Role(t)) PROVE RoleInv'
    <2>1. \A u \in Thread : u # t => comp'[u] = comp[u] /\ step'[u] = step[u]
      BY <1>1, Zenon DEF CallOf, Call, TypeOK
    <2>2. comp'[t] = Role(t)  BY <1>1, Zenon DEF CallOf, Call, TypeOK
    <2> QED  BY <2>1, <2>2 DEF RoleInv, Role
  <1>2. ASSUME NEW t \in Thread, HealthProgress(t) PROVE RoleInv'
    <2>1. comp' = comp /\ \A u \in Thread : u # t => step'[u] = step[u]
      BY <1>2, Zenon DEF HealthProgress, HealthStep, Lock, StoreOk, SetServingStatus, TypeOK
    <2>2. step[t] # "idle"
      BY <1>2, Zenon DEF HealthProgress, HealthStep, Lock, StoreOk, SetServingStatus
    <2> QED  BY <2>1, <2>2, Zenon DEF RoleInv, Role
  <1>3. CASE UNCHANGED hcvars  BY <1>3, Zenon DEF hcvars, RoleInv, Role
  <1>4. /\ Role(ConfigThread) = "config" /\ Role(SigtermThread) = "sigterm"
        /\ \A c \in Conn : Role(c) = "redis"
    BY ServerAssumption DEF Role
  <1> QED  BY <1>1, <1>2, <1>3, <1>4, ServerCases, Threads, Zenon

\* What a step does to one component of the map.
LEMMA MapOfStep ==
    ASSUME TypeOK, RoleInv, [ServerNext]_vars, NEW n \in Components
    PROVE  \/ healthMap'[n] = healthMap[n]
           \/ \E t \in Thread : /\ Role(t) = n /\ step[t] = "lock" /\ HealthProgress(t)
                                /\ Lock(t) /\ healthMap'[n] = (op[t] = "Ok")
  <1>1. ASSUME NEW t \in Thread, HealthProgress(t), Lock(t),
               healthMap'[n] # healthMap[n]
        PROVE  Role(t) = n /\ step[t] = "lock" /\ healthMap'[n] = (op[t] = "Ok")
    <2>1. comp[t] = Role(t) /\ step[t] = "lock"  BY <1>1, Zenon DEF Lock, RoleInv
    <2>2. healthMap' = [healthMap EXCEPT ![comp[t]] = (op[t] = "Ok")]
      BY <1>1, Zenon DEF Lock, Updated
    <2> QED  BY <1>1, <2>1, <2>2, Zenon DEF TypeOK
  <1>2. ASSUME NEW t \in Thread, HealthProgress(t), ~Lock(t)
        PROVE  healthMap' = healthMap
    BY <1>2, Zenon DEF HealthProgress, HealthStep, StoreOk, SetServingStatus
  <1>3. ASSUME NEW t, NEW o, NEW c, CallOf(t, o, c) PROVE healthMap' = healthMap
    BY <1>3 DEF CallOf, Call
  <1>4. UNCHANGED hcvars => healthMap' = healthMap  BY DEF hcvars
  <1> QED  BY <1>1, <1>2, <1>3, <1>4, ServerCases, Zenon

ConfigInv ==
    HealthyWithAtLeastOneConfigLoad =>
      /\ update \in {"none", "empty", "loaded"}
      /\ update = "none" => /\ step[ConfigThread] = "idle"
                            /\ healthMap["config"] <=> config = "loaded"
      /\ update # "none" =>
           /\ step[ConfigThread] = "lock" => op[ConfigThread] = ConfigHealth(update)
           /\ step[ConfigThread] # "lock" =>
                (healthMap["config"] <=> update = "loaded")

\* Every step keeps the component "config" in line with the update it is of.
LEMMA ConfigNext ==
    ASSUME TypeOK, RoleInv, ConfigInv, [ServerNext]_vars
    PROVE  ConfigInv'
  <1> SUFFICES ASSUME HealthyWithAtLeastOneConfigLoad PROVE ConfigInv'
    BY Zenon DEF ConfigInv
  <1> DEFINE C == ConfigThread
  <1>0. "config" \in Components /\ C \in Thread /\ Role(C) = "config"
        /\ \A t \in Thread : Role(t) = "config" => t = C
    BY Threads DEF Components, Role
  <1>1. CASE ReceiveConfig
    <2>1. update = "none" /\ step[C] = "idle"  BY <1>1 DEF ReceiveConfig
    <2>2. config' = config  BY <1>1 DEF ReceiveConfig
    <2>3. PICK e \in {"error", "empty", "loaded"} :
            IF e = "error" THEN UNCHANGED <<hcvars, update>>
            ELSE update' = e /\ Call(C, ConfigHealth(e), "config")
      BY <1>1, Zenon DEF ReceiveConfig
    <2>4. CASE e = "error"
      BY <2>1, <2>2, <2>3, <2>4, Zenon DEF ConfigInv, hcvars
    <2>5. CASE e # "error"
      <3>1. step'[C] = "lock" /\ op'[C] = ConfigHealth(e) /\ update' = e
        BY <1>0, <2>3, <2>5 DEF Call, TypeOK
      <3> QED  BY <2>3, <2>5, <3>1, Zenon DEF ConfigInv
    <2> QED  BY <2>4, <2>5
  <1>2. CASE StoreConfig
    BY <1>2, Zenon DEF StoreConfig, hcvars, ConfigInv
  <1>3. CASE HealthProgress(C)
    <2>1. update' = update /\ config' = config
      BY <1>3 DEF HealthProgress, srvvars, configvars
    <2>2. step[C] # "idle" /\ op' = op /\ step'[C] # "lock"
      BY <1>0, <1>3, Zenon DEF HealthProgress, HealthStep, Lock, StoreOk, SetServingStatus, TypeOK
    <2>3. update # "none"  BY <2>2, Zenon DEF ConfigInv
    <2>4. CASE Lock(C)
      <3>1. comp[C] = "config" /\ step[C] = "lock"  BY <1>0, <2>2, <2>4, Zenon DEF RoleInv, Lock
      <3>2. healthMap' = [healthMap EXCEPT !["config"] = (op[C] = "Ok")]
        BY <1>0, <2>4, <3>1, Zenon DEF Lock, Updated, TypeOK
      <3>3. healthMap'["config"] = (op[C] = "Ok")  BY <1>0, <3>2, Zenon DEF TypeOK
      <3> QED  BY <2>1, <2>2, <2>3, <3>1, <3>3, Zenon DEF ConfigInv, ConfigHealth
    <2>5. CASE ~Lock(C)
      <3>1. healthMap' = healthMap /\ step[C] # "lock"
        BY <1>3, <2>5, Zenon DEF HealthProgress, HealthStep, StoreOk, SetServingStatus
      <3> QED  BY <2>1, <2>2, <2>3, <3>1, Zenon DEF ConfigInv
    <2> QED  BY <2>4, <2>5
  <1>4. CASE ~ReceiveConfig /\ ~StoreConfig /\ ~HealthProgress(C)
    <2>1. update' = update /\ config' = config
      BY <1>4, Zenon DEF ServerNext, Dial, ConnCreated, Lose, ConnClosed, ConnClosedCheck,
                  SendSigterm, HandleSigterm, HealthProgress, configvars, srvvars, vars
    <2>2. healthMap'["config"] = healthMap["config"]
      BY <1>0, <1>4, MapOfStep, Zenon
    <2>3. step'[C] = step[C] /\ op'[C] = op[C]
      <3>1. ASSUME NEW t \in Thread, t # C, HealthProgress(t)
            PROVE  step'[C] = step[C] /\ op'[C] = op[C]
        BY <3>1, <1>0, Zenon DEF HealthProgress, HealthStep, Lock, StoreOk,
                          SetServingStatus, TypeOK
      <3>2. ASSUME NEW t \in Thread, t # C, NEW o, NEW c, CallOf(t, o, c)
            PROVE  step'[C] = step[C] /\ op'[C] = op[C]
        BY <3>2, <1>0, Zenon DEF CallOf, Call, TypeOK
      <3>3. UNCHANGED hcvars => step'[C] = step[C] /\ op'[C] = op[C]  BY DEF hcvars
      <3> QED  BY <1>4, <3>1, <3>2, <3>3, ServerCases, Threads, ServerAssumption, Zenon
    <2> QED  BY <2>1, <2>2, <2>3, Zenon DEF ConfigInv
  <1> QED  BY <1>1, <1>2, <1>3, <1>4

\* Between updates the "config" component tells whether the configuration in
\* use has a domain, however updates interleave with the other goroutines.
THEOREM ConfigHealthCorrect == ServerSpec => []ConfigHealthIsCurrent
  <1>1. ServerInit => RoleInv /\ ConfigInv
    BY Threads, Zenon DEF ServerInit, Init, RoleInv, ConfigInv, Components
  <1>2. TypeOK /\ HealthInv /\ RoleInv /\ ConfigInv /\ [ServerNext]_vars
          => RoleInv' /\ ConfigInv'
    BY RoleNext, ConfigNext
  <1>3. ConfigInv => ConfigHealthIsCurrent  BY DEF ConfigInv, ConfigHealthIsCurrent
  <1>4. ServerSpec => [](TypeOK /\ HealthInv)
    BY ServerImplementsHealthChecker, HealthCorrect DEF HealthCheckerSpec
  <1> QED  BY <1>1, <1>2, <1>3, <1>4, PTL DEF ServerSpec

--------------------------------------------------------------------------------
\* Somebody is about to tell the health checker that the pool is empty.
FailPending(c) ==
    conn[c] = "counted" \/ (step[c] = "lock" /\ op[c] = "Fail")

PoolTypeOK ==
    /\ conn \in [Conn -> {"down", "dialed", "up", "lost", "counted"}]
    /\ active \in [Pool -> Int]
    /\ used \subseteq Pool

PoolInv ==
    /\ PoolTypeOK
    /\ \A p \in Pool : active[p] = Cardinality(Connected(p))
    /\ \A c \in Conn : conn[c] \in {"dialed", "lost", "counted"} => step[c] = "idle"
    /\ \A c \in Conn : step[c] = "lock" /\ op[c] = "Ok" => conn[c] = "up"

EmptyPoolReported ==
    HealthCheckActiveConnection =>
      \A p \in used : Connected(p) = {} =>
         ~healthMap["redis"] \/ \E c \in Conn : FailPending(c)

\* Connected(p) is a finite set.
LEMMA ConnectedFinite ==
    ASSUME NEW p
    PROVE  IsFiniteSet(Connected(p)) /\ Cardinality(Connected(p)) \in Nat
  BY ServerAssumption, FS_Subset, FS_CardinalityType, Zenon DEF Connected

\* A step of a pool moves one connection, and the others not at all.
MovesConn(c, from, to) ==
    conn[c] = from /\ conn' = [conn EXCEPT ![c] = to]

\* What every step does to the connections.
LEMMA ConnCases ==
    ASSUME [ServerNext]_vars
    PROVE  \/ conn' = conn /\ active' = active /\ used' = used
           \/ \E c \in Conn :
                \/ Dial(c) /\ MovesConn(c, "down", "dialed")
                \/ ConnCreated(c) /\ MovesConn(c, "dialed", "up")
                \/ Lose(c) /\ MovesConn(c, "up", "lost")
                \/ ConnClosed(c) /\ MovesConn(c, "lost", "counted")
                \/ ConnClosedCheck(c) /\ MovesConn(c, "counted", "down")
  BY Zenon DEF ServerNext, Dial, ConnCreated, Lose, ConnClosed, ConnClosedCheck,
         ReceiveConfig, StoreConfig, SendSigterm, HandleSigterm, HealthProgress,
         MovesConn, poolvars, srvvars, vars

\* The connected set after a connection moved.
LEMMA ConnectedAfter ==
    ASSUME PoolTypeOK, NEW c \in Conn, NEW from, NEW to, MovesConn(c, from, to),
           NEW p \in Pool
    PROVE  Connected(p)' = IF PoolOf[c] = p /\ to \in {"up", "lost"}
                           THEN Connected(p) \cup {c} ELSE Connected(p) \ {c}
  BY ServerAssumption DEF MovesConn, Connected, PoolTypeOK

\* The gauge counts the connections whose ConnClosed has not subtracted yet.
LEMMA GaugeNext ==
    ASSUME PoolInv, [ServerNext]_vars
    PROVE  \A p \in Pool : active'[p] \in Int /\ active'[p] = Cardinality(Connected(p)')
  <1> TAKE p \in Pool
  <1>1. /\ active[p] = Cardinality(Connected(p)) /\ active[p] \in Int
        /\ IsFiniteSet(Connected(p)) /\ Cardinality(Connected(p)) \in Nat
    BY ConnectedFinite, Zenon DEF PoolInv, PoolTypeOK
  <1>2. CASE conn' = conn /\ active' = active
    BY <1>1, <1>2, Zenon DEF Connected
  <1>3. ASSUME NEW c \in Conn, ConnCreated(c), MovesConn(c, "dialed", "up")
        PROVE  active'[p] \in Int /\ active'[p] = Cardinality(Connected(p)')
    <2>1. c \notin Connected(p)  BY <1>3 DEF MovesConn, Connected
    <2>2. Connected(p)' = IF PoolOf[c] = p THEN Connected(p) \cup {c}
                          ELSE Connected(p) \ {c}
      BY <1>3, ConnectedAfter DEF PoolInv
    <2>3. active'[p] = IF PoolOf[c] = p THEN active[p] + 1 ELSE active[p]
      BY <1>3, Zenon DEF ConnCreated, PoolInv, PoolTypeOK
    <2>4. Cardinality(Connected(p) \cup {c}) = Cardinality(Connected(p)) + 1
      BY <1>1, <2>1, FS_AddElement, Zenon
    <2>5. CASE PoolOf[c] = p
      <3>1. Connected(p)' = Connected(p) \cup {c}  BY <2>2, <2>5
      <3>2. Cardinality(Connected(p)') = Cardinality(Connected(p)) + 1
        BY <2>4, <3>1
      <3> QED  BY <1>1, <2>3, <2>5, <3>2
    <2>6. CASE PoolOf[c] # p
      <3>1. Connected(p)' = Connected(p)  BY <2>1, <2>2, <2>6
      <3>2. Cardinality(Connected(p)') = Cardinality(Connected(p))  BY <3>1, Zenon
      <3> QED  BY <1>1, <2>3, <2>6, <3>2, Zenon
    <2> QED  BY <2>5, <2>6
  <1>4. ASSUME NEW c \in Conn, ConnClosed(c), MovesConn(c, "lost", "counted")
        PROVE  active'[p] \in Int /\ active'[p] = Cardinality(Connected(p)')
    <2>1. Connected(p)' = Connected(p) \ {c}
      BY <1>4, ConnectedAfter DEF PoolInv
    <2>2. active'[p] = IF PoolOf[c] = p THEN active[p] - 1 ELSE active[p]
      BY <1>4, Zenon DEF ConnClosed, PoolInv, PoolTypeOK
    <2>3. c \in Connected(p) <=> PoolOf[c] = p  BY <1>4 DEF MovesConn, Connected
    <2>4. c \in Connected(p) =>
            Cardinality(Connected(p) \ {c}) = Cardinality(Connected(p)) - 1
      BY <1>1, FS_RemoveElement, Zenon
    <2>5. CASE PoolOf[c] = p
      <3>1. Cardinality(Connected(p)') = Cardinality(Connected(p)) - 1
        BY <2>1, <2>3, <2>4, <2>5
      <3> QED  BY <1>1, <2>2, <2>5, <3>1
    <2>6. CASE PoolOf[c] # p
      <3>1. Connected(p)' = Connected(p)  BY <2>1, <2>3, <2>6
      <3>2. Cardinality(Connected(p)') = Cardinality(Connected(p))  BY <3>1
      <3> QED  BY <1>1, <2>2, <2>6, <3>2, Zenon
    <2> QED  BY <2>5, <2>6
  <1>5. ASSUME NEW c \in Conn, NEW from, NEW to, MovesConn(c, from, to), active' = active,
               from \in {"up", "lost"} <=> to \in {"up", "lost"}
        PROVE  active'[p] \in Int /\ active'[p] = Cardinality(Connected(p)')
    <2>1. Connected(p)' = Connected(p)
      BY <1>5, Zenon DEF MovesConn, Connected, PoolInv, PoolTypeOK
    <2> QED  BY <1>1, <1>5, <2>1, Zenon
  <1>6. \A c \in Conn : Dial(c) \/ Lose(c) \/ ConnClosedCheck(c) => active' = active
    BY Zenon DEF Dial, Lose, ConnClosedCheck
  <1> QED  BY <1>2, <1>3, <1>4, <1>5, <1>6, ConnCases, Zenon

\* A health step takes its thread out of "lock"; a call puts it there.
LEMMA ConnThreadAfter ==
    ASSUME TypeOK, [ServerNext]_vars, NEW c \in Conn
    PROVE  \/ step'[c] = step[c] /\ op'[c] = op[c]
           \/ step'[c] # "lock" /\ step[c] # "idle" /\ HealthProgress(c)
           \/ ConnCreated(c) /\ step'[c] = "lock" /\ op'[c] = "Ok"
           \/ ConnClosedCheck(c) /\ step'[c] = "lock" /\ op'[c] = "Fail"
  <1>0. c \in Thread /\ c # ConfigThread /\ c # SigtermThread  BY ServerAssumption
  <1>1. ASSUME NEW t \in Thread, HealthProgress(t)
        PROVE  \/ step'[c] = step[c] /\ op'[c] = op[c]
               \/ t = c /\ step'[c] # "lock" /\ step[c] # "idle"
    BY <1>0, <1>1, Zenon DEF HealthProgress, HealthStep, Lock, StoreOk, SetServingStatus, TypeOK
  <1>2. ASSUME NEW t \in Thread, NEW o, NEW n, CallOf(t, o, n)
        PROVE  \/ t # c /\ step'[c] = step[c] /\ op'[c] = op[c]
               \/ t = c /\ step'[c] = "lock" /\ op'[c] = o
    BY <1>0, <1>2, Zenon DEF CallOf, Call, TypeOK
  <1>3. UNCHANGED hcvars => step'[c] = step[c] /\ op'[c] = op[c]  BY DEF hcvars
  <1>4. ASSUME NEW t \in Conn, ConnCreated(t), CallOf(t, "Ok", "redis")
        PROVE  \/ step'[c] = step[c] /\ op'[c] = op[c]
               \/ ConnCreated(c) /\ step'[c] = "lock" /\ op'[c] = "Ok"
    BY <1>2, <1>4, Threads, Zenon
  <1>5. ASSUME NEW t \in Conn, ConnClosedCheck(t), CallOf(t, "Fail", "redis")
        PROVE  \/ step'[c] = step[c] /\ op'[c] = op[c]
               \/ ConnClosedCheck(c) /\ step'[c] = "lock" /\ op'[c] = "Fail"
    BY <1>2, <1>5, Threads, Zenon
  <1>6. ASSUME NEW o, CallOf(ConfigThread, o, "config")
        PROVE  step'[c] = step[c] /\ op'[c] = op[c]
    BY <1>0, <1>2, <1>6, Threads, Zenon
  <1>7. CallOf(SigtermThread, "Fail", "sigterm") => step'[c] = step[c] /\ op'[c] = op[c]
    BY <1>0, <1>2, Threads, Zenon
  <1> QED  BY <1>1, <1>3, <1>4, <1>5, <1>6, <1>7, ServerCases, Zenon

\* Every step keeps the gauge and the life cycle of the connections right.
LEMMA PoolNext ==
    ASSUME TypeOK, PoolInv, [ServerNext]_vars
    PROVE  PoolInv'
  <1>1. conn' \in [Conn -> {"down", "dialed", "up", "lost", "counted"}]
    BY ConnCases, Zenon DEF MovesConn, PoolInv, PoolTypeOK
  <1>2. active' \in [Pool -> Int]
    <2>1. active' = active \/ \E p \in Pool, n \in Int : active' = [active EXCEPT ![p] = n]
      <3>1. \A c \in Conn : PoolOf[c] \in Pool /\ active[PoolOf[c]] \in Int
        BY ServerAssumption, Zenon DEF PoolInv, PoolTypeOK
      <3>2. ASSUME NEW c \in Conn, ConnCreated(c) \/ ConnClosed(c)
            PROVE  \E n \in Int : active' = [active EXCEPT ![PoolOf[c]] = n]
        BY <3>1, <3>2 DEF ConnCreated, ConnClosed
      <3>3. \A c \in Conn : Dial(c) \/ Lose(c) \/ ConnClosedCheck(c) => active' = active
        BY Zenon DEF Dial, Lose, ConnClosedCheck
      <3> QED  BY <3>1, <3>2, <3>3, ConnCases, Zenon
    <2> QED  BY <2>1 DEF PoolInv, PoolTypeOK
  <1>3. \A p \in Pool : active'[p] = Cardinality(Connected(p)')  BY GaugeNext
  <1>4. ASSUME NEW c \in Conn
        PROVE  /\ conn'[c] \in {"dialed", "lost", "counted"} => step'[c] = "idle"
               /\ step'[c] = "lock" /\ op'[c] = "Ok" => conn'[c] = "up"
    <2>0. /\ conn[c] \in {"dialed", "lost", "counted"} => step[c] = "idle"
          /\ step[c] = "lock" /\ op[c] = "Ok" => conn[c] = "up"
      BY Zenon DEF PoolInv
    <2>1. CASE ConnCreated(c)
      <3>1. conn'[c] = "up"  BY <2>1, Zenon DEF ConnCreated, PoolInv, PoolTypeOK
      <3> QED  BY <3>1
    <2>2. CASE ConnClosedCheck(c)
      <3>1. conn'[c] = "down" /\ conn[c] = "counted"
        BY <2>2, Zenon DEF ConnClosedCheck, PoolInv, PoolTypeOK
      <3>2. step[c] = "idle"  BY <2>0, <3>1
      <3>3. step'[c] = "lock" => op'[c] = "Fail"
        <4>1. HealthProgress(c) => conn' = conn
          BY DEF HealthProgress, srvvars, poolvars
        <4>2. ~ConnCreated(c)  BY <3>1 DEF ConnCreated
        <4> QED  BY <3>1, <3>2, <4>2, ConnThreadAfter, Zenon
      <3> QED  BY <3>1, <3>3, Zenon
    <2>3. CASE ~ConnCreated(c) /\ ~ConnClosedCheck(c)
      <3>1. CASE HealthProgress(c) /\ step'[c] # "lock" /\ step[c] # "idle"
        <4>1. conn' = conn  BY <3>1 DEF HealthProgress, srvvars, poolvars
        <4> QED  BY <2>0, <3>1, <4>1, Zenon
      <3>2. CASE step'[c] = step[c] /\ op'[c] = op[c]
        <4>1. conn'[c] = conn[c] \/ (conn'[c] \in {"dialed", "lost"} /\ step[c] = "idle")
                \/ (conn[c] = "lost" /\ conn'[c] = "counted")
          BY <2>3, ConnCases, Zenon DEF MovesConn, Dial, Lose, PoolInv, PoolTypeOK
        <4> QED  BY <2>0, <3>2, <4>1, Zenon
      <3> QED  BY <2>3, <3>1, <3>2, ConnThreadAfter, Zenon
    <2> QED  BY <2>1, <2>2, <2>3, Zenon
  <1>5. used' \subseteq Pool
    <2>1. \A c \in Conn : Dial(c) \/ Lose(c) \/ ConnClosed(c) \/ ConnClosedCheck(c)
                            => used' = used
      BY Zenon DEF Dial, Lose, ConnClosed, ConnClosedCheck
    <2>2. \A c \in Conn : ConnCreated(c) => used' \subseteq used \cup Pool
      BY ServerAssumption DEF ConnCreated
    <2> QED  BY <2>1, <2>2, ConnCases, Zenon DEF PoolInv, PoolTypeOK
  <1> QED  BY <1>1, <1>2, <1>3, <1>4, <1>5, Zenon DEF PoolInv, PoolTypeOK

\* With one pool, a pool that is empty is reported, or about to be: the gauge
\* cannot be above zero for the last ConnClosed, and an Ok is only pending for
\* a connection that is still counted.
LEMMA EmptyPoolNext ==
    ASSUME NEW pool, Pool = {pool},
           TypeOK, RoleInv, PoolInv, EmptyPoolReported, [ServerNext]_vars
    PROVE  EmptyPoolReported'
  <1> SUFFICES ASSUME HealthCheckActiveConnection, NEW p \in used', Connected(p)' = {}
               PROVE  (~healthMap["redis"] \/ \E c \in Conn : FailPending(c))'
    BY DEF EmptyPoolReported
  <1>0. "redis" \in Components /\ (\A c \in Conn : PoolOf[c] = pool)
        /\ used \subseteq {pool}
    BY ServerAssumption DEF Components, PoolInv, PoolTypeOK
  <1>1. p = pool  BY PoolNext, Zenon DEF PoolInv, PoolTypeOK
  <1>2. \A c \in Conn : conn'[c] \notin {"up", "lost"}
    BY <1>0, <1>1, Zenon DEF Connected
  <1>3. \A c \in Conn : ~ConnCreated(c) /\ ~Lose(c)
    BY <1>2, Zenon DEF ConnCreated, Lose, PoolInv, PoolTypeOK
  <1>4. ASSUME NEW c \in Conn, ConnClosed(c)
        PROVE  (\E d \in Conn : FailPending(d))'
    <2>1. conn'[c] = "counted"  BY <1>4, Zenon DEF ConnClosed, PoolInv, PoolTypeOK
    <2> QED  BY <2>1, Zenon DEF FailPending
  <1>5. ASSUME NEW c \in Conn, ConnClosedCheck(c)
        PROVE  (\E d \in Conn : FailPending(d))'
    <2>1. MovesConn(c, "counted", "down")  BY <1>5 DEF ConnClosedCheck, MovesConn
    <2>2. Connected(pool)' = Connected(pool)
      BY <2>1, Zenon DEF MovesConn, Connected, PoolInv, PoolTypeOK
    <2>3. Cardinality(Connected(pool)) = 0  BY <1>1, <2>2, FS_EmptySet
    <2>4. LastConnection(PoolOf[c])
      BY <1>0, <2>3, Zenon DEF PoolInv, LastConnection
    <2>5. Call(c, "Fail", RedisHealthComponentName)  BY <1>5, <2>4 DEF ConnClosedCheck
    <2>6. step'[c] = "lock" /\ op'[c] = "Fail"  BY <2>5, Threads, Zenon DEF Call, TypeOK
    <2> QED  BY <2>6 DEF FailPending
  <1>6. CASE \A c \in Conn : ~ConnClosed(c) /\ ~ConnClosedCheck(c)
    <2>1. used' = used /\ \A c \in Conn :
            conn'[c] = conn[c] \/ (conn[c] = "down" /\ conn'[c] = "dialed")
      BY <1>3, <1>6, ConnCases, Zenon DEF MovesConn, PoolInv, PoolTypeOK, Dial
    <2>2. Connected(pool) = {}
      BY <1>2, <2>1 DEF Connected
    <2>3. CASE healthMap'["redis"] # healthMap["redis"]
      <3>1. PICK t \in Thread : Role(t) = "redis" /\ step[t] = "lock" /\ HealthProgress(t)
                                /\ healthMap'["redis"] = (op[t] = "Ok")
        BY <1>0, <2>3, MapOfStep, Zenon
      <3>2. t \in Conn  BY <3>1, ServerAssumption, Zenon DEF Role
      <3>3. op[t] # "Ok"  BY <1>0, <2>2, <3>1, <3>2 DEF PoolInv, Connected
      <3> QED  BY <3>1, <3>3, Zenon
    <2>4. CASE healthMap'["redis"] = healthMap["redis"] /\ healthMap["redis"]
      <3>1. PICK c \in Conn : FailPending(c)
        BY <1>1, <2>1, <2>2, <2>4, Zenon DEF EmptyPoolReported
      <3>2. CASE conn[c] = "counted"
        BY <2>1, <3>2 DEF FailPending
      <3>3. CASE step[c] = "lock" /\ op[c] = "Fail"
        <4>1. CASE HealthProgress(c)
          <5>1. Lock(c) /\ comp[c] = "redis"
            BY <3>3, <4>1, Threads, ServerAssumption, Zenon
               DEF HealthProgress, HealthStep, StoreOk, SetServingStatus, RoleInv, Role
          <5>2. healthMap' = [healthMap EXCEPT !["redis"] = (op[c] = "Ok")]
            BY <1>0, <5>1 DEF Lock, Updated, TypeOK
          <5> QED  BY <1>0, <2>4, <3>3, <5>2, Zenon DEF TypeOK
        <4>2. CASE ~HealthProgress(c)
          <5>1. step'[c] = step[c] /\ op'[c] = op[c]
            BY <1>3, <1>6, <4>2, ConnThreadAfter, Zenon
          <5> QED  BY <3>3, <5>1, Zenon DEF FailPending
        <4> QED  BY <4>1, <4>2
      <3> QED  BY <3>1, <3>2, <3>3, Zenon DEF FailPending
    <2> QED  BY <2>3, <2>4
  <1> QED  BY <1>4, <1>5, <1>6

\* With one pool, any number of connections that come and go in any order
\* leave the health check failing once the last one is gone.
THEOREM EmptyPoolIsUnhealthy ==
    ASSUME NEW CONSTANT pool, Pool = {pool}
    PROVE  ServerSpec => []NoConnectionIsUnhealthy
  <1> DEFINE I == RoleInv /\ PoolInv /\ EmptyPoolReported
  <1>1. ServerInit => I
    <2> SUFFICES ASSUME ServerInit PROVE I  OBVIOUS
    <2>1. RoleInv  BY Zenon DEF ServerInit, Init, RoleInv
    <2>2. \A p \in Pool : Connected(p) = {}  BY DEF ServerInit, Connected
    <2>3. PoolTypeOK  BY DEF ServerInit, PoolTypeOK
    <2>4. \A p \in Pool : active[p] = Cardinality(Connected(p))
      BY <2>2, FS_EmptySet DEF ServerInit
    <2>5. PoolInv
      BY <2>3, <2>4, Threads, Zenon DEF ServerInit, Init, PoolInv
    <2>6. EmptyPoolReported  BY DEF ServerInit, EmptyPoolReported
    <2> QED  BY <2>1, <2>5, <2>6
  <1>2. TypeOK /\ HealthInv /\ I /\ [ServerNext]_vars => I'
    BY RoleNext, PoolNext, EmptyPoolNext, Zenon
  <1>3. I => NoConnectionIsUnhealthy
    BY Zenon DEF EmptyPoolReported, NoConnectionIsUnhealthy, PoolsQuiet, FailPending
  <1>4. ServerSpec => [](TypeOK /\ HealthInv)
    BY ServerImplementsHealthChecker, HealthCorrect DEF HealthCheckerSpec
  <1> HIDE DEF I
  <1> QED  BY <1>1, <1>2, <1>3, <1>4, PTL DEF ServerSpec
================================================================================
