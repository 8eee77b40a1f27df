----------------------------- MODULE HealthChecker -----------------------------
(***************************************************************************)
(* server/health.go: the health of the process as a conjunction of         *)
(* components, published twice, as an atomic word that ServeHTTP reads and *)
(* as the serving status of the gRPC health server.  Ok and Fail run in    *)
(* any goroutine and hold one mutex; the two stores they publish with are  *)
(* separate steps, because readers take no lock.                           *)
(***************************************************************************)
EXTENDS Naturals

CONSTANTS
    Thread,         \* goroutines that call Ok or Fail
    NoThread,       \* the mutex is free
    HealthyWithAtLeastOneConfigLoad

ASSUME HealthAssumption ==
    /\ NoThread \notin Thread
    /\ HealthyWithAtLeastOneConfigLoad \in BOOLEAN

ComponentNames == {"redis", "config", "sigterm"}

\* The components NewHealthChecker enters in the map.
Components ==
    {"redis", "sigterm"}
      \cup (IF HealthyWithAtLeastOneConfigLoad THEN {"config"} ELSE {})

VARIABLES
    healthMap,  \* component -> healthy
    ok,         \* the word ServeHTTP loads: 1 answers 200, 0 answers 500
    grpc,       \* the status the gRPC health server reports
    mutex,      \* the thread that holds the lock
    op,         \* thread -> the method it runs, or ran last
    comp,       \* thread -> the argument of that call
    step        \* thread -> where in the call it is

hcvars == <<healthMap, ok, grpc, mutex, op, comp, step>>

areAllComponentsHealthy(m) == \A c \in DOMAIN m : m[c]

\* NewHealthChecker.
Init ==
    /\ healthMap = [c \in Components |-> c # "config"]
    /\ ok = IF areAllComponentsHealthy(healthMap) THEN 1 ELSE 0
    /\ grpc = IF areAllComponentsHealthy(healthMap) THEN "SERVING" ELSE "NOT_SERVING"
    /\ mutex = NoThread
    /\ op = [t \in Thread |-> "Fail"]
    /\ comp = [t \in Thread |-> "redis"]
    /\ step = [t \in Thread |-> "idle"]

\* Thread t enters Ok or Fail.
Call(t, o, c) ==
    /\ step[t] = "idle"
    /\ op' = [op EXCEPT ![t] = o]
    /\ comp' = [comp EXCEPT ![t] = c]
    /\ step' = [step EXCEPT ![t] = "lock"]
    /\ UNCHANGED <<healthMap, ok, grpc, mutex>>

\* Mutant: Ok publishes without asking the other components.
Publishes_Always(o, m) == TRUE

\* Mutant: Ok leaves the answers as they are.
Publishes_FailOnly(o, m) == o = "Fail"

\* Fail always publishes, Ok only when it was the last unhealthy component.
Publishes(o, m) == o = "Fail" \/ areAllComponentsHealthy(m)

\* Mutant: an Ok also takes back the signal.
Updated_Revives(m, c, o) ==
    IF o = "Ok" THEN [m EXCEPT ![c] = TRUE, !["sigterm"] = TRUE]
    ELSE [m EXCEPT ![c] = FALSE]

\* The map after a call.
Updated(m, c, o) == [m EXCEPT ![c] = (o = "Ok")]

MayLock == mutex = NoThread

\* Lock, and the update of the map, which nothing reads without the lock.
\* An unknown component, and an Ok that publishes nothing, unlock at once.
Lock(t) ==
    /\ step[t] = "lock"
    /\ MayLock
    /\ \/ /\ comp[t] \notin DOMAIN healthMap
          /\ step' = [step EXCEPT ![t] = "idle"]
          /\ UNCHANGED <<healthMap, mutex>>
       \/ /\ comp[t] \in DOMAIN healthMap
          /\ healthMap' = Updated(healthMap, comp[t], op[t])
          /\ \/ /\ Publishes(op[t], healthMap')
                /\ mutex' = t
                /\ step' = [step EXCEPT ![t] = "store"]
             \/ /\ ~Publishes(op[t], healthMap')
                /\ step' = [step EXCEPT ![t] = "idle"]
                /\ UNCHANGED mutex
    /\ UNCHANGED <<ok, grpc, op, comp>>

\* What is stored in the word.
OkWord(o) == IF o = "Ok" THEN 1 ELSE 0

\* atomic.StoreUint32(&hc.ok, ...).
StoreOk(t) ==
    /\ step[t] = "store"
    /\ ok' = OkWord(op[t])
    /\ step' = [step EXCEPT ![t] = "grpc"]
    /\ UNCHANGED <<healthMap, grpc, mutex, op, comp>>

\* SetServingStatus, and the deferred Unlock.
SetServingStatus(t) ==
    /\ step[t] = "grpc"
    /\ grpc' = IF op[t] = "Ok" THEN "SERVING" ELSE "NOT_SERVING"
    /\ mutex' = NoThread
    /\ step' = [step EXCEPT ![t] = "idle"]
    /\ UNCHANGED <<healthMap, ok, op, comp>>

HealthStep(t) == Lock(t) \/ StoreOk(t) \/ SetServingStatus(t)

\* Every Ok in the program is of "redis" or "config": nothing revokes a
\* SIGTERM.
Calls == ({"Fail"} \X ComponentNames) \cup ({"Ok"} \X {"redis", "config"})

Next ==
    \E t \in Thread :
       \/ \E c \in Calls : Call(t, c[1], c[2])
       \/ HealthStep(t)

Spec == Init /\ [][Next]_hcvars

\* sync.Mutex hands the lock to a waiter that has waited for a millisecond, so
\* a waiting thread is not overtaken for ever; other steps need only time.
HealthFairness ==
    \A t \in Thread :
       SF_hcvars(Lock(t)) /\ WF_hcvars(StoreOk(t) \/ SetServingStatus(t))

--------------------------------------------------------------------------------
TypeOK ==
    /\ healthMap \in [Components -> BOOLEAN]
    /\ ok \in {0, 1}
    /\ grpc \in {"SERVING", "NOT_SERVING"}
    /\ mutex \in Thread \cup {NoThread}
    /\ op \in [Thread -> {"Ok", "Fail"}]
    /\ comp \in [Thread -> ComponentNames]
    /\ step \in [Thread -> {"idle", "lock", "store", "grpc"}]

\* Whenever no update is being published, both probes answer alike, and answer
\* healthy exactly when every component is (health.go:90-126): no order of Ok
\* and Fail from different goroutines leaves a stale answer behind.
Coherent ==
    mutex = NoThread =>
      /\ ok = 1 <=> areAllComponentsHealthy(healthMap)
      /\ grpc = "SERVING" <=> ok = 1

\* Even a probe that arrives in the middle of an update is told "healthy" with
\* a component unhealthy only while the Fail that will correct it is running.
HealthyIsTruthful ==
    (ok = 1 \/ grpc = "SERVING") /\ ~areAllComponentsHealthy(healthMap)
      => mutex # NoThread /\ op[mutex] = "Fail" /\ step[mutex] \in {"store", "grpc"}

\* After SIGTERM is recorded no step, of a reconnecting pool or of a new
\* configuration, makes either probe healthy again (health.go:75-78).
SigtermFinal ==
    [][~healthMap["sigterm"] =>
         /\ ~healthMap'["sigterm"]
         /\ ok' = 1 => ok = 1
         /\ grpc' = "SERVING" => grpc = "SERVING"]_hcvars
================================================================================
