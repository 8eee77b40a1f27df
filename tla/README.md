# A TLA+ model of the rate limit service

This directory models the rate limit service of this repository in TLA+: what
its components do when many calls, replicas, callbacks and failures overlap.
TLC checks the models on small instances; TLAPS proves the main safety
properties for every value of the constants.

## The system

A request names a domain, a list of descriptors and a number of hits.
`service/ratelimit.go` looks the limit of each descriptor up in the current
configuration (`config/`), asks a cache (`redis/` or `memcached/`) to count the
hits, and answers with the worst code. The configuration comes from files or an
xDS server (`provider/`) and replaces the old one while requests are running.
Counting is by fixed window: a key names the descriptor and the start of the
window. `limiter/base_limiter.go` holds what the caches share: keys, thresholds,
statistics and an optional local cache of keys that are over their limit.
`server/health.go` publishes whether the process is healthy; Redis pools,
configuration updates and SIGTERM report to it. `server/server_impl.go` and
`service_cmd/runner` start and stop it all.

| Part | Source | Module | State |
| --- | --- | --- | --- |
| decision logic, statistics | `limiter/base_limiter.go`, `utils/utilities.go` | `BaseLimiter` | modelled |
| cache keys | `limiter/cache_key.go` | `BaseLimiter`, `FixedCache`, `Config` | modelled |
| Redis cache, local cache | `redis/fixed_cache_impl.go` | `FixedCache`, `FixedCacheSums` | modelled |
| what a backend promises | | `Quota`, `FixedCacheQuota` | abstract |
| memcached cache | `memcached/cache_impl.go` | `Memcached`, `MemcachedSums` | modelled but for the server list |
| Redis pools | `redis/driver_impl.go` | `ServerHealth` | health callbacks modelled |
| health checker | `server/health.go` | `HealthChecker` | modelled |
| configuration tree, lookup | `config/config_impl.go` | `Config`, `ConfigLoader` | modelled but for YAML and protobuf |
| ShouldRateLimit, SetConfig | `service/ratelimit.go` | `RateLimitService` | modelled |
| JSON handler | `server/server_impl.go` | `RateLimitService` | modelled |
| file, xDS, certificate providers | `provider/` | `FileProvider`, `XdsProvider`, `CertProvider` | modelled |
| server life cycle | `server/server_impl.go`, `service_cmd/runner` | `ServerLifecycle` | start, signal, stop modelled |
| settings, metrics, tracing, sinks, TLS, DNS, tools | the rest | | not modelled |

## Modules

`BaseLimiter` has no state. Its operators are `GetResponseDescriptorStatus` and
the functions it calls, one operator per decision: whether the limit is
exceeded (`IsOverLimitThresholdReached`), what the answer says
(`ResponseCode`, `LimitRemaining`, `CalculateReset`), what each statistic grows
by (`StatIncrease`), and whether the key enters the local cache
(`SetsLocalCache`). Counters are taken modulo `Word`, which stands for 2^32.
The near-limit ratio is the fraction `NearNum / NearDen`; the program uses a
float32, whose rounding is not modelled.

`FixedCache` is `DoLimit` of the Redis cache for concurrent calls `Request`,
which may be of one replica or of several with a common Redis. The steps are the
points where other calls can get in between: building the keys
(`GenerateCacheKeys`), each local lookup (`LookupLocalCache`), each Redis command
(`Get`, `IncrBy`, `Expire`) and each answer (`Reply`, which updates statistics
and local cache as well). A pipeline of the per-second client follows that of
the main client. `Fail` is a connection that breaks between two commands: the
commands before it have been executed. The environment is the clock (`Tick`),
expiry in Redis (`RedisExpire`) and eviction from freecache (`Evict`). The
limits are part of a call, because a reload or an override in the request can
change them between two calls. A replica has its own local cache; the model has
one, so its runs are of calls of one replica, whose Redis may be shared.
`expired` and `overAtStart` are history variables for the properties.
`FixedCacheSums` states the properties that add up the hits of several calls. A sum of
hits is the cardinality of a set with one member per hit, a form the prover can
reason about.

`Quota` says what a backend promises without saying how: a descriptor of a call
takes its hits from the counter of its key in one atomic step and is answered by
the value that step left; it may be refused at once only when the counter is
over the limit, or was dropped. `FixedCacheQuota` gives the
refinement mapping. The atomic step of the many in `DoLimit` is the `IncrBy`, and a
refusal by the local cache takes effect at the lookup, before the call has
answered.

`Memcached` is the other backend. A call reads all its counters first
(`Get`, one key a step, as `GetMulti` may ask several servers), answers
(`Reply`), and only then hands its increments to a worker (`Submit`). The workers
are the goroutines of `runAsync`: an idle one takes the task from `taskQueue`,
otherwise the call starts a new one, named after it. A task sends one command a
step, in the order Increment, Add on a miss, Increment again when the Add finds
the key (`dance`). `GetError` and `CommandError` are errors of the client; a
command that failed may have been executed. `Flush` is the wait of integration tests.
`MemcachedSums` states the properties that add up hits.

`Config` is made of pure operators. A file is the list of its descriptors in the
order `loadDescriptors` meets them, each with the path of the keys above it; a
domain is the list of the nodes that were loaded. Texts are sequences of symbols,
since composite keys, wildcards and cache keys depend on how texts are joined and
compared. Whether a YAML text parses and passes `validateYamlKeys` is a flag of
the file. `ConfigLoader` loads one list of files, for the properties.

`RateLimitService` has requests (`ShouldRateLimit`, entered through gRPC or the
JSON handler) and the goroutine that applies updates (`SetConfig`). What a
configuration is, and which rule it has for a descriptor, are parameters
(`ConfigLoad`, `ConfigGetLimit`), which `MCService` sets to those of `Config`. Requests look
limits up in the configuration they snapped, one descriptor a step
(`ConstructLimit`), because a lookup may change the metric of a shared rule. The
cache may answer whatever a backend may answer. `SetConfig` reports health,
installs the configuration, and reads the header settings under the lock, step
by step, as the headers are read without it.

`FileProvider`, `XdsProvider` and `CertProvider` are the three providers, with the
library each depends on: the goruntime loader, which takes a snapshot of a
directory and wakes the callbacks registered with it, and the xDS stream.
Versions stand for contents. The channels are unbuffered, so a send and its
receive are one step. `ServerLifecycle` composes them with `Runner.Run`, the start of
the listeners, `NewService`, the signal handler and `Stop`. `RateLimitService` and
`ServerLifecycle` both have `SetConfig`; the second keeps the version in use and leaves
the rest to the first.

`HealthChecker` is `server/health.go`: the map of components, the word `ok`
that `ServeHTTP` loads, the gRPC serving status, and the mutex. The two stores
that publish a change are separate steps, because probes take no lock.

`ServerHealth` composes the goroutines that report health: the trace callbacks
of the connections of one or two pools, `SetConfig`, and the goroutine that waits
for SIGTERM. It extends `HealthChecker` and is checked, and proved, to implement
its specification. That a connection's callbacks run one after the other, and
that a connection is used only after `ConnCreated` has returned, is taken from
how the pool library calls its trace functions.

`MC...` modules give the constants values; `...Proofs` modules hold theorems.

Operators whose name ends in `_Something` after the name of another operator, and
whose comment starts with "Mutant", are wrong versions of it: with each of them in
place of the original, TLC finds the property named in `PROJECT.json` violated.

## Runs

| Run | Shows |
| --- | --- |
| `windows` | keys outlive their window, the local cache refuses nothing Redis would admit, resets lead to a later window; `FixedCache` implements `Quota` |
| `quota` | no window admits more than its limit, no two calls get the same quota, only a failed call leaves a key without expiry; over-limit and near-limit statistics add up to what the final counter says |
| `stop` | with `STOP_CACHE_KEY_INCREMENT_WHEN_OVERLIMIT`: the quota holds, refused calls take no quota, a call that left out its hits on a key is not admitted |
| `memcached` | no hit is lost to the race of two tasks for a key, counters are the sum of the hits, an answer fits the hits counted when it was read, flushed hits are seen, and all comes to rest |
| `config` | `GetLimit` finds the rule a declarative definition calls the best match, the order of files does not matter, limited descriptors have different keys |
| `service` | a request is judged by one configuration, replacement ignores the order of descriptors, headers are complete and describe the tightest limit |
| `one_pool` | both probes agree with the components; losing the last connection, or the last domain, is reported; SIGTERM makes the probes unhealthy for good; `ServerHealth` implements `HealthChecker` |
| `server` | the latest configuration and certificate arrive, what is acknowledged is in use, no half-replaced certificate is served, no gRPC call is cut off, shutdown completes |

Four runs show disagreements of the code with its documentation or comments; TLC
finds each property violated, and `PROJECT.json` quotes the text.

| Run | What happens |
| --- | --- |
| `stop_shadow` | in stop mode, a shadow-mode rule over its limit makes calls pass that are not counted on the enforced rule |
| `stop_stats` | in stop mode, `limitAfterIncrease - hitsAddend` is not the count before, and a call over the limit is charged too little |
| `pool_race` | a `Fail` that was decided before a connection was created comes after its `Ok` |
| `metric` | a detailed rule that has descriptors below it is not copied, and the hits of one request go to the metric of another |

### Known exceptions

Some properties are stated with an exception, or checked on instances that
avoid a case, because the code does not handle it:

* `LocalCacheSound` needs limits that do not change. The local cache entry does not
  name the limit, so after a reload or an override raises it, the key is refused
  until the entry expires. Two calls with different limits for one key show it.
* `QuotaRespected` and `NoSharedQuota` are for counters below 2^32: the reply of `INCRBY` is
  read into a `uint32`, and a counter beyond it admits again.
* `QuotaRespected` and `AdmittedIsCounted` in stop mode need calls that do not outlast their keys, and no rule in
  shadow mode (`stop_shadow`). When a key expires between the `GET` that found it over
  its limit and the `INCRBY`, the call is admitted and its other keys were increased by
  0. The run has a clock that stands still; `MaxTime = 1` shows the violation.
  `StopModeAdmitsItsLimit` and `AdmittedCallsAreCounted` state both conditions as premises.
* `NoConnectionIsUnhealthy` is for one pool. The per-second pool reports to the same
  component, and one pool's new connection covers the other's loss of its last
  one. `Pool <- TwoPools` with `PoolOf <- OneEach` shows it.
* `LatestConfigArrives` and `ShutdownCompletes` except a dial that fails: `retryGrpcConn`
  then sends on the channel its own goroutine should read, and `Stop` waits for
  the same goroutine. `grpc.Dial` with `WithBlock` and no timeout rarely fails.
* `LatestCertArrives` excepts a change of the certificate between its first load and
  the registration of the callback, which the loader reports to nobody.
* `NewService` waits for an event, not for a configuration: one that carries an error
  ends the wait too, and the server then refuses requests until a configuration
  loads.
* A SIGTERM between `NewHealthChecker` and `handleGracefulShutdown` reaches the health
  goroutine alone: the process turns unhealthy and runs on.
* `GetLimitIsBestMatch` follows the code where two wildcards of one level fit an entry: the
  first one loaded wins, even if the other is longer. The repository's `README.md:411-413`
  speaks of "the most specific match possible", with an example of an exact value and a key
  alone, and does not say which of two wildcards that is. For the same reason
  `FileOrderIrrelevant` excepts competing wildcards.
* `ConfigHealthIsCurrent` keeps the `config` component healthy when an update does not
  load, since the configuration before it stays in use. The repository's `README.md:740` ("If we
  later fail to load any configs, it will go unhealthy again") can be read otherwise;
  `README.md:753-754`, which speaks of detecting no config, agrees with the code.
* `CountersApart` is for texts without the separator `_`; `AnswerFitsCounter` for
  counters that fit an int32, the range `ParseInt` accepts.

### Bounds

The runs of `FixedCache` have two or three calls of at most two descriptors, two
rules with limits of one to three, and hits of zero (which count as one) to
three. Two calls are enough for any race on one counter; the third
is there so that the sum of several matters and a counter crosses both
thresholds. Units are scaled: a second window is one tick, a minute window two, others four;
in `windows`, `MaxTime` lets the clock cross a window of every unit in use. `Word` is
larger than any counter of these runs: counters that wrap are left to the note on
hazards in `PROJECT.json`, while subtractions do wrap (`stop_stats`). `MaxFailures` is one: a second failure meets no state the first does not.
`stop` has calls that use one counter up and calls that leave room for exactly one more hit,
so that a call of two descriptors meets both sides of the threshold. Requests are interchangeable; `SYMMETRY` is used in runs without liveness only.
`memcached` has two calls on a common key, with hits that cross the limit and the
sign bit, and one error or eviction at any point. `config` loads one file of
one or two blocks of descriptors, or two files of one block each, of the same domain or
not; the twelve blocks are plain, valued, wildcard and nested rules and
rules that do not load. Every descriptor of one or two entries, over three keys and
five values, is looked up. `service`
has two requests and two updates, of five kinds: with a replacing unlimited rule,
with a shadow rule, without domains, rejected, and a panic. `ServerHealth` has two
connections, since each race is of one that goes and one that comes.
`server` starts with files, with xDS (two outages), and with TLS; three versions
of the configuration, of which one does not load and, for xDS, one cannot be decoded, and
three certificates are enough for a change before, during and after the first load.

Deadlock is not checked in runs whose calls are used up at the end, nor in `server`,
where the process exits.

### Fairness

The runs of `FixedCache` check safety only and assume none. `ComesToRest` assumes weak
fairness of each call and each worker of memcached: a goroutine is scheduled, and a command is
answered or fails; the ticker of a worker fires. Nothing is assumed of the clock, of
expiry or of eviction. `SigtermDrains` assumes weak fairness of the goroutines'
own steps, and strong fairness of acquiring the mutex: Go's `sync.Mutex` hands
the lock over to a waiter that has waited for a millisecond. New connections, updates
and the signal itself need never happen. `server` assumes weak fairness of the main
goroutine, of the configuration provider with its receiver, of the certificate
provider, of the signal handler and of the listeners, that gRPC calls in flight end, that a replaced certificate is followed
by its key, and that the management server comes back; an outage, a change, a
failed dial and the signal need never happen.

## Proofs

Every theorem is for all values of the constants: any set of calls, goroutines,
connections or updates, any rules, units, limits, hits and jitter, any number of
descriptors and failures. The assumptions are the `ASSUME`s of the modules (units have
positive lengths, the near-limit ratio is between 0 and 1, the sets of connections are
finite, a request names finitely many descriptors) and the premises a theorem states.
All follow one pattern: a property that is not inductive is strengthened to an invariant
that every step keeps, action by action, and the temporal step comes last.

Premises on `FixedCache` that several theorems need:

| Premise | Says | Why |
| --- | --- | --- |
| `LimitsStatic(rpu)` | all calls carry the limit their rule has in `rpu` | a local cache entry does not name the limit it was over |
| `NoOverflow` | counters stay below `Word` | the reply of `INCRBY` is read into a `uint32` |
| `HeadRoom` | so do counters with the hits of one more call | stop mode adds its hits to what it read, in a `uint32` |
| `KeysOutliveCalls` | a call is answered before one of its keys expires | see the exception above |

### Redis cache

`FixedCacheTypeProofs` has the invariants, `FixedCacheProofs` and `FixedCacheSumsProofs`
the theorems.

* `TypeCorrect`: the type invariant. It is not inductive, since a command for a
  descriptor without a key would write outside the domains; `PhaseInv` adds which
  commands can be outstanding in which phase of `DoLimit`.
* `QuotaIsNotShared`: `SlotInv` says that the result an `INCRBY` was given lies between
  what it added and the counter. An increment puts its own share above all earlier
  ones; every other step leaves results and counters alone, except for keys that
  expire, of which nothing is claimed.
* `WindowsAdmitTheirLimit` (not in stop mode): `CodeInv` says that an admitted descriptor
  was given a result within its limit. Its hits then have places of their own below
  that result, so the admitted hits of a key map one to one into the numbers up to the
  largest limit.
* `StoppedCallsTakeNoQuota` (`HeadRoom`): `StopInv` says that what a call read is not above
  the counter while the key lives, that it is over the limit where the counter was when
  the call began, and that an `INCRBY` for hits that did not fit left the counter over
  its limit.
* `StopModeAdmitsItsLimit` (`HeadRoom`, `KeysOutliveCalls`, no rule in shadow mode): the
  argument of `WindowsAdmitTheirLimit` needs calls that counted all their hits. In stop
  mode a call may leave them out, and `NearCodeInv` says that it is then refused.
* `AdmittedCallsAreCounted` (the same premises) states that step by itself: what a call read may
  be stale when it raises its counters, but counters only grow while their keys live, so a
  call that stopped for a key finds it over the limit again.
* `OverLimitIsExact` and `NearLimitIsExact` (`LimitsStatic`, `NoOverflow`, not in stop mode):
  `StatInv` says that a statistic is the number of answered hits above the threshold,
  `TileInv` that the increments leave no gap below the counter, `DoneInv` that a finished
  call has answered everything. When no call is in progress, the hits on a key and
  the numbers up to its counter correspond one to one, and the hits that the local
  cache refused come on top; the windows of a rule add up.
* `LocalCacheIsSound` (`LimitsStatic`): what the local cache holds is a key whose counter is
  above its limit, or expired (`LocalInv`).
* `CountersOutliveTheirWindow`, `LeaksComeFromFailures`, `ResetsAreLater`: a call never has read
  a time that is still to come (`ClockInv`), and a time to live that is set
  reaches the end of the window (`TTLInv`).
* `FixedCacheImplementsQuota` (`LimitsStatic`, `NoOverflow`): every behaviour is one of
  `Quota`. `INCRBY` is the step that takes the hits; a lookup that hits the local cache is
  a refusal, which `LocalInv` justifies; the reply is the answer to what was taken;
  expiry in Redis is a reset; every other step changes nothing `Quota` sees.
  `AnswerInv` adds how far the replies of a call are, so that no descriptor is answered
  twice.

The facts about finite sets that the counting uses are the predicate `FiniteLaws`;
`FiniteLawsHold` derives them from the library.

### memcached

* `CountersOutliveTheirWindow`: from `BaseInv`, which ties types, the phases of a call and
  the tasks of the workers together.
* `RaceLosesNoHit`: `LossInv` follows the hits of a task through Increment, Add and the
  second Increment, which happens only when another task has stored the key.
* `CountersAreSums`, `ReturnedHitsAreRead`, `AnswersFitCounters`: `SumInv` says what memcached has
  counted, `WaitInv` what Flush waits for, `SeenInv` what a call read. The laws of sums
  they use are the predicate `Counting`, which follows from `FiniteInv`: finitely many
  calls have begun, and the `WaitGroup` counts the workers that have a task.
* `LocalRefusalsAreDue`, for limits that do not change: `LocalInv` says that the counter of a
  key in the local cache is over its limit, or will be by the increments on
  their way.

### Service, health and life cycle

* `RequestsUseOneConfiguration` and `EnforcedLimitsIgnoreOrder`, for whatever `GetLimit`
  computes: `UpdateInv` follows the goroutine that installs configurations, `RequestInv`
  a request from its snapshot to the cache (together `ServiceInv`).
* `HeadersAreComplete` and `HeadersAreTightest`: `TallyInv` follows the loop over the statuses;
  the second is for response headers enabled by the settings.
* `ProbesAreCoherent`, `ProbesAreTruthful` and `SigtermIsFinal`: `Coherent` says nothing while the
  mutex is held, so `HealthInv` adds that the holder is the one goroutine that is
  publishing, and that what it publishes is what the map says.
* `ServerImplementsHealthChecker` makes these hold of the server. `ConfigHealthCorrect` rests on
  `ConfigInv`; `EmptyPoolIsUnhealthy`, for one pool, on `PoolInv` (the gauge is the
  number of connections whose `ConnClosed` has not subtracted yet) and
  `EmptyPoolReported` (a pool without a connection is reported or about to be).
* `ShutdownCutsOffNoCall` (`ShutInv`), `AcknowledgedIsInUse` (`EventInv` follows a version from the
  management server to the service and back) and `ServedCertificateHasKey` (`CertInv`).

### Only model-checked

* `SigtermDrains`, `ComesToRest`, `LatestConfigArrives`, `LatestCertArrives` and
  `ShutdownCompletes`: liveness under fairness is beyond the prover.
* `GetLimitIsBestMatch`, `FileOrderIrrelevant` and `CountersApart`: the tree of a configuration
  is built and searched by folds over lists, and what a fold computes for every
  input takes an induction over data that the prover cannot do.
* The properties of the four runs that TLC finds violated.

## Not modelled

* Formatting, logging, metrics, statistics sinks and tracing: output without
  effect on the state. The counters that matter are variables of `FixedCache`.
* `settings`: it reads the environment; what it sets are constants.
* YAML parsing, the conversion from protobuf (`config_xds.go`) and `Dump`.
* TLS set-up, DNS and dialling; the list of memcached servers from an SRV record;
  Redis cluster and sentinel failover, whose lost writes Redis does not report.
* The unit of a limit override, which the code does not check, and units that the
  protobuf enum may have beside the four of `UnitToDivider`.
* The float32 rounding of the near-limit threshold.
* Failures to listen, which end the process, debug endpoints, and `Runner.Stop`, which
  only tests call.
* The command line tools.
