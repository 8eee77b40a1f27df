------------------------------ MODULE ServerHealth -----------------------------
(***************************************************************************)
(* The goroutines that move the health of a server: the trace callbacks of *)
(* the Redis connection pools (redis/driver_impl.go), the goroutine that   *)
(* applies configuration updates (service/ratelimit.go) and the one that   *)
(* waits for SIGTERM (server/health.go).  Each is a thread of              *)
(* HealthChecker and calls its Ok and Fail.                                *)
(***************************************************************************)
EXTENDS HealthChecker, FiniteSets

CONSTANTS
    Conn,           \* connections of the pools; a callback runs in the
                    \* goroutine that dials or closes the connection
    Pool,           \* the main client and, if there is one, the per-second one
    PoolOf,         \* connection -> its pool
    ConfigThread,   \* the goroutine NewService starts
    SigtermThread,  \* the goroutine NewHealthChecker starts
    HealthCheckActiveConnection,
    MaxEvents       \* bound on configuration updates

ASSUME ServerAssumption ==
    /\ Thread = Conn \cup {ConfigThread, SigtermThread}
    /\ ConfigThread \notin Conn /\ SigtermThread \notin Conn
    /\ ConfigThread # SigtermThread
    /\ IsFiniteSet(Conn)
    /\ PoolOf \in [Conn -> Pool]
    /\ HealthCheckActiveConnection \in BOOLEAN
    /\ MaxEvents \in Nat

VARIABLES
    conn,       \* connection -> "down", "dialed", "up", "lost" or "counted"
    active,     \* pool -> its gauge cx_active
    used,       \* the pools that have had a connection
    config,     \* the configuration in use: "nil", "empty" or "loaded"
    update,     \* the configuration SetConfig is storing, "none" otherwise
    events,     \* number of updates received
    sigterm     \* the signal: "none", "sent" or "handled"

poolvars == <<conn, active, used>>
configvars == <<config, update, events>>
srvvars == <<poolvars, configvars, sigterm>>
vars == <<hcvars, srvvars>>

ServerInit ==
    /\ Init
    /\ conn = [c \in Conn |-> "down"]
    /\ active = [p \in Pool |-> 0]
    /\ used = {}
    /\ config = "nil" /\ update = "none" /\ events = 0
    /\ sigterm = "none"

\* Mutant: the pool reports under the name of another component.
RedisHealthComponentName_Sigterm == "sigterm"

RedisHealthComponentName == "redis"

\* radix opens connection c; it counts only once ConnCreated has run.
Dial(c) ==
    /\ conn[c] = "down" /\ step[c] = "idle"
    /\ conn' = [conn EXCEPT ![c] = "dialed"]
    /\ UNCHANGED <<hcvars, active, used, configvars, sigterm>>

\* The ConnCreated callback of a connection without an error.  The pool hands
\* the connection out when it has returned, that is when step[c] is idle.
ConnCreated(c) ==
    /\ conn[c] = "dialed"
    /\ conn' = [conn EXCEPT ![c] = "up"]
    /\ active' = [active EXCEPT ![PoolOf[c]] = @ + 1]
    /\ used' = used \cup {PoolOf[c]}
    /\ IF HealthCheckActiveConnection
       THEN Call(c, "Ok", RedisHealthComponentName) ELSE UNCHANGED hcvars
    /\ UNCHANGED <<configvars, sigterm>>

\* radix closes connection c: an I/O error, a ping that failed, an overflow.
Lose(c) ==
    /\ conn[c] = "up" /\ step[c] = "idle"
    /\ conn' = [conn EXCEPT ![c] = "lost"]
    /\ UNCHANGED <<hcvars, active, used, configvars, sigterm>>

\* The ConnClosed callback, up to the gauge.
ConnClosed(c) ==
    /\ conn[c] = "lost"
    /\ conn' = [conn EXCEPT ![c] = "counted"]
    /\ active' = [active EXCEPT ![PoolOf[c]] = @ - 1]
    /\ UNCHANGED <<hcvars, used, configvars, sigterm>>

\* Mutant: the last connection counts as one too many.
LastConnection_OffByOne(p) == active[p] < 0

LastConnection(p) == active[p] = 0

\* The rest of ConnClosed: it reads the gauge again and may call Fail.
ConnClosedCheck(c) ==
    /\ conn[c] = "counted"
    /\ conn' = [conn EXCEPT ![c] = "down"]
    /\ IF HealthCheckActiveConnection /\ LastConnection(PoolOf[c])
       THEN Call(c, "Fail", RedisHealthComponentName) ELSE UNCHANGED hcvars
    /\ UNCHANGED <<active, used, configvars, sigterm>>

\* Mutant: a configuration without domains keeps the component healthy.
ConfigHealth_AlwaysOk(e) == "Ok"

\* What SetConfig makes of a configuration: IsEmptyDomains or not.
ConfigHealth(e) == IF e = "loaded" THEN "Ok" ELSE "Fail"

\* SetConfig up to its call of the health checker.  An update that does not
\* load is counted and dropped.
ReceiveConfig ==
    /\ update = "none" /\ step[ConfigThread] = "idle"
    /\ events < MaxEvents
    /\ events' = events + 1
    /\ \E e \in {"error", "empty", "loaded"} :
         IF e = "error" THEN UNCHANGED <<hcvars, update>>
         ELSE /\ update' = e
              /\ IF HealthyWithAtLeastOneConfigLoad
                 THEN Call(ConfigThread, ConfigHealth(e), "config")
                 ELSE UNCHANGED hcvars
    /\ UNCHANGED <<poolvars, config, sigterm>>

\* The rest of SetConfig: the new configuration replaces the old one.
StoreConfig ==
    /\ update # "none" /\ step[ConfigThread] = "idle"
    /\ config' = update
    /\ update' = "none"
    /\ UNCHANGED <<hcvars, poolvars, events, sigterm>>

SendSigterm ==
    /\ sigterm = "none"
    /\ sigterm' = "sent"
    /\ UNCHANGED <<hcvars, poolvars, configvars>>

\* Mutant: the handler fails the wrong component.
SigtermComponentName_Redis == "redis"

SigtermComponentName == "sigterm"

\* The goroutine of NewHealthChecker.
HandleSigterm ==
    /\ sigterm = "sent"
    /\ sigterm' = "handled"
    /\ Call(SigtermThread, "Fail", SigtermComponentName)
    /\ UNCHANGED <<poolvars, configvars>>

HealthProgress(t) == HealthStep(t) /\ UNCHANGED srvvars

ServerNext ==
    \/ \E c \in Conn : \/ Dial(c) \/ ConnCreated(c) \/ Lose(c)
                       \/ ConnClosed(c) \/ ConnClosedCheck(c)
    \/ ReceiveConfig \/ StoreConfig
    \/ SendSigterm \/ HandleSigterm
    \/ \E t \in Thread : HealthProgress(t)

ServerSpec == ServerInit /\ [][ServerNext]_vars

\* Every goroutine that can run does, and the mutex is fair; the network, the
\* configuration provider and the signal owe nothing.
ServerFairSpec ==
    /\ ServerSpec
    /\ HealthFairness
    /\ \A c \in Conn : WF_vars(ConnCreated(c) \/ ConnClosed(c) \/ ConnClosedCheck(c))
    /\ WF_vars(StoreConfig)
    /\ WF_vars(HandleSigterm)

--------------------------------------------------------------------------------
ServerTypeOK ==
    /\ TypeOK
    /\ conn \in [Conn -> {"down", "dialed", "up", "lost", "counted"}]
    /\ active \in [Pool -> Nat]
    /\ used \subseteq Pool
    /\ config \in {"nil", "empty", "loaded"}
    /\ update \in {"none", "empty", "loaded"}
    /\ events \in 0..MaxEvents
    /\ sigterm \in {"none", "sent", "handled"}

Connected(p) == {c \in Conn : PoolOf[c] = p /\ conn[c] \in {"up", "lost"}}

\* No callback of a pool is running.
PoolsQuiet ==
    \A c \in Conn : step[c] = "idle" /\ conn[c] \in {"down", "up"}

\* When the callbacks have returned and a pool that was used has lost its last
\* connection, the health check fails, whatever the order in which connections
\* came and went (driver_impl.go:34-57).  With one pool only.
NoConnectionIsUnhealthy ==
    HealthCheckActiveConnection /\ PoolsQuiet =>
      \A p \in used : Connected(p) = {} => ~healthMap["redis"]

\* When the callbacks have returned, a pool with a connection is healthy.
ConnectionIsHealthy ==
    PoolsQuiet =>
      \A p \in Pool : Connected(p) # {} => healthMap["redis"]

\* Between two updates the "config" component says whether the configuration
\* in use has a domain (ratelimit.go:67-77 before ratelimit.go:82).
ConfigHealthIsCurrent ==
    HealthyWithAtLeastOneConfigLoad /\ update = "none" =>
      (healthMap["config"] <=> config = "loaded")

\* The threads use the health checker as HealthChecker allows: they call it
\* one call at a time, and revoke no SIGTERM.
HealthCheckerSpec == Spec

\* After SIGTERM both probes become unhealthy and stay so, whatever pools and
\* configuration do.
SigtermDrains ==
    (sigterm = "sent") ~> [](ok = 0 /\ grpc = "NOT_SERVING")
================================================================================
