--------------------------- MODULE RateLimitService ----------------------------
(***************************************************************************)
(* The service (src/src/service/ratelimit.go): concurrent ShouldRateLimit  *)
(* requests, each in the goroutine of its gRPC call or of the JSON handler *)
(* (src/src/server/server_impl.go), and the goroutine that applies the     *)
(* updates of the configuration.  The cache behind DoLimit answers         *)
(* anything a backend may answer; statistics are left out.  The operators  *)
(* of the configuration are parameters, as config.RateLimitConfig is an    *)
(* interface to the service; module Config defines them.                   *)
(***************************************************************************)
EXTENDS Integers, Sequences, Functions

CONSTANTS
    ConfigLoad(_, _),        \* the configuration in the files of an update
    ConfigIsEmptyDomains(_),
    ConfigGetLimit(_, _, _), \* the rule a configuration has for a descriptor
    NoRule,                  \* nil: no rule, or no configuration
    EmptyText,
    Request,                 \* ShouldRateLimit calls; each happens at most once
    Calls,                   \* what a request may ask
    Updates,                 \* what the provider may deliver
    MaxUpdates,              \* bound: updates delivered
    MaxRemaining,            \* bound: largest LimitRemaining of the cache
    MergeDomainConfigs,
    ForceStart,              \* FORCE_START_WITHOUT_INITIAL_CONFIG
    HealthyWithAtLeastOneConfigLoad,
    ResponseHeadersEnabled,  \* LIMIT_RESPONSE_HEADERS_ENABLED
    GlobalShadowMode         \* SHADOW_MODE

ASSUME SettingsAssumption ==
    {MergeDomainConfigs, ForceStart, HealthyWithAtLeastOneConfigLoad,
     ResponseHeadersEnabled, GlobalShadowMode} \subseteq BOOLEAN
ASSUME BoundAssumption == MaxUpdates \in Nat /\ MaxRemaining \in Nat
ASSUME CallsAssumption == \A c \in Calls : c.descriptors \in Seq(Range(c.descriptors))

VARIABLES
    headers,     \* customHeadersEnabled, and whether the names are set
    locked,      \* configLock is held by SetConfig
    serving,     \* NewService has returned
    upd,         \* where the update goroutine is in SetConfig
    newConfig,   \* the configuration it is about to install
    updates,     \* number of updates delivered
    healthy,     \* health of the config component
    crashed,     \* a panic has ended the process
    applied,     \* the configurations that were installed; the last one is in use
    metricOf,    \* Stats of the rules in the trees that GetLimit has changed
    pc,          \* where each request is
    call,        \* what it asks
    since,       \* history: configurations installed when it began
    snapped,     \* snappedConfig: its place in `applied'
    limits,      \* what GetLimit returned, descriptor by descriptor
    checked,     \* limitsToCheck: the descriptors passed to the cache
    metrics,     \* history: the metric each descriptor's hits went to
    statuses,    \* responseDescriptorStatuses
    idx,         \* next descriptor of the loop over the statuses
    minimum,     \* minimumDescriptor, 0 when there is none
    reply        \* the answer

updater == <<headers, locked, serving, upd, newConfig, updates, healthy, applied>>
request == <<pc, call, since, snapped, limits, checked, metrics, statuses, idx, minimum,
             reply>>
vars == <<updater, crashed, metricOf, request>>

NoReply == [kind |-> "none"]
NoCall == [domain |-> EmptyText, descriptors |-> << >>, via |-> "grpc"]

Init ==
    /\ headers = "off" /\ locked = FALSE /\ serving = ForceStart
    /\ upd = "wait" /\ newConfig = NoRule /\ updates = 0
    /\ healthy = ~HealthyWithAtLeastOneConfigLoad
    /\ crashed = FALSE /\ applied = << >> /\ metricOf = [k \in {} |-> << >>]
    /\ pc = [p \in Request |-> "idle"]
    /\ call = [p \in Request |-> NoCall]
    /\ since = [p \in Request |-> 0]
    /\ snapped = [p \in Request |-> 0]
    /\ limits = [p \in Request |-> << >>]
    /\ checked = [p \in Request |-> {}]
    /\ metrics = [p \in Request |-> << >>]
    /\ statuses = [p \in Request |-> << >>]
    /\ idx = [p \in Request |-> 1]
    /\ minimum = [p \in Request |-> 0]
    /\ reply = [p \in Request |-> NoReply]

(***************************************************************************)
(* SetConfig, in NewService for the first update and in its goroutine for  *)
(* the later ones.                                                         *)
(***************************************************************************)
SetConfigReturns == upd' = "wait" /\ serving' = TRUE /\ newConfig' = NoRule

\* An update arrives, with a configuration, the error of one that does not load,
\* or another error.  An error of the configuration is counted and logged, and
\* SetConfig returns; any other error is a panic.
GetConfig ==
    /\ upd = "wait" /\ updates < MaxUpdates /\ updates' = updates + 1
    /\ \E u \in Updates :
         LET loaded == ConfigLoad(u.files, MergeDomainConfigs)
         IN  \/ /\ u.panics /\ crashed' = TRUE
                /\ UNCHANGED <<upd, serving, newConfig>>
             \/ /\ ~u.panics /\ loaded.err
                /\ SetConfigReturns /\ UNCHANGED crashed
             \/ /\ ~u.panics /\ ~loaded.err
                /\ newConfig' = loaded
                /\ upd' = "health"
                /\ UNCHANGED <<crashed, serving>>
    /\ UNCHANGED <<headers, locked, healthy, applied, metricOf, request>>

HealthAfter(new) == ~ConfigIsEmptyDomains(new)

UpdateHealth ==
    /\ upd = "health"
    /\ healthy' = IF HealthyWithAtLeastOneConfigLoad
                  THEN HealthAfter(newConfig) ELSE healthy
    /\ upd' = "install"
    /\ UNCHANGED <<headers, locked, serving, newConfig, updates, crashed, applied,
                   metricOf, request>>

\* Mutant: the lock covers the configuration and not the settings.
KeepsLock_ConfigOnly == FALSE

\* configLock.Lock() covers the settings as well as the configuration.
KeepsLock == TRUE

InstallConfig ==
    /\ upd = "install"
    /\ applied' = Append(applied, newConfig)
    /\ locked' = KeepsLock
    /\ upd' = "settings"
    /\ UNCHANGED <<headers, serving, newConfig, updates, healthy, crashed, metricOf, request>>

\* settings.NewSettings(): the process environment, which does not change.
ReadSettings ==
    /\ upd = "settings"
    /\ headers' = IF ResponseHeadersEnabled /\ headers = "off" THEN "unnamed" ELSE headers
    /\ upd' = "names"
    /\ UNCHANGED <<locked, serving, newConfig, updates, healthy, crashed, applied,
                   metricOf, request>>

\* The names of the three headers, and configLock.Unlock().
NameHeaders ==
    /\ upd = "names"
    /\ headers' = IF ResponseHeadersEnabled THEN "named" ELSE headers
    /\ locked' = FALSE
    /\ SetConfigReturns
    /\ UNCHANGED <<updates, healthy, crashed, applied, metricOf, request>>

SetConfig ==
    UpdateHealth \/ InstallConfig \/ ReadSettings \/ NameHeaders

(***************************************************************************)
(* ShouldRateLimit.                                                        *)
(***************************************************************************)
N(p) == Len(call[p].descriptors)
Installed == IF locked THEN Len(applied) - 1 ELSE Len(applied)

Begin(p) ==
    /\ pc[p] = "idle" /\ serving
    /\ \E c \in Calls : call' = [call EXCEPT ![p] = c]
    /\ since' = [since EXCEPT ![p] = Installed]
    /\ pc' = [pc EXCEPT ![p] = "check"]
    /\ UNCHANGED <<updater, crashed, metricOf, snapped, limits, checked, metrics,
                   statuses, idx, minimum, reply>>

Answer(p, r) ==
    /\ reply' = [reply EXCEPT ![p] = r]
    /\ pc' = [pc EXCEPT ![p] = "done"]

\* The HTTP status of the JSON handler for an error or an overall code.
HttpStatus(outcome) ==
    CASE outcome = "OK" -> 200
      [] outcome = "OVER_LIMIT" -> 429
      [] outcome = "UNKNOWN" -> 500
      [] OTHER -> 400

Error(p, kind) == [kind |-> kind, http |-> HttpStatus(kind)]

\* A body that is not a request never reaches the service.
BadBody(p) ==
    /\ pc[p] = "check" /\ call[p].via = "badjson"
    /\ Answer(p, Error(p, "bad request"))
    /\ UNCHANGED <<updater, crashed, metricOf, call, since, snapped, limits, checked,
                   metrics, statuses, idx, minimum>>

\* checkServiceErr: an empty domain, no descriptors.
BadRequest(p) ==
    /\ pc[p] = "check" /\ call[p].via # "badjson"
    /\ call[p].domain = EmptyText \/ N(p) = 0
    /\ Answer(p, Error(p, "service error"))
    /\ UNCHANGED <<updater, crashed, metricOf, call, since, snapped, limits, checked,
                   metrics, statuses, idx, minimum>>

\* GetCurrentConfig under the read lock, and the check that there is one.
Snapshot(p) ==
    /\ pc[p] = "check" /\ call[p].via # "badjson"
    /\ call[p].domain # EmptyText /\ N(p) > 0
    /\ ~locked
    /\ \/ /\ applied = << >>
          /\ Answer(p, Error(p, "service error"))
          /\ UNCHANGED snapped
       \/ /\ applied # << >>
          /\ snapped' = [snapped EXCEPT ![p] = Len(applied)]
          /\ pc' = [pc EXCEPT ![p] = "limits"]
          /\ UNCHANGED reply
    /\ UNCHANGED <<updater, crashed, metricOf, call, since, limits, checked, metrics,
                   statuses, idx, minimum>>

Rule(p, i) == limits[p][i].rule

\* Mutant: looks the limit up in the configuration of the moment.
SnappedConfig_Current(p) == applied[Len(applied)]

SnappedConfig(p) == applied[snapped[p]]

\* One round of the loop of constructLimitsToCheck.  Where GetLimit returns the
\* rule of the tree and the rule is detailed, it has changed the Stats of that
\* rule, for every request that holds it.
ConstructLimit(p) ==
    LET i == Len(limits[p]) + 1
        found == ConfigGetLimit(SnappedConfig(p), call[p].domain, call[p].descriptors[i])
        key == <<snapped[p], found.rule.fullKey>>
    IN  /\ pc[p] = "limits"
        /\ limits' = [limits EXCEPT ![p] = Append(@, found)]
        /\ metricOf' = IF found.shared /\ found.rule.detailedMetric
                       THEN [k \in DOMAIN metricOf \cup {key} |->
                               IF k = key THEN found.metric ELSE metricOf[k]]
                       ELSE metricOf
        /\ pc' = [pc EXCEPT ![p] = IF i = N(p) THEN "cache" ELSE "limits"]
        /\ UNCHANGED <<updater, crashed, call, since, snapped, checked, metrics,
                       statuses, idx, minimum, reply>>

Unlimited(p) == {i \in 1..N(p) : Rule(p, i) # NoRule /\ Rule(p, i).unlimited}

\* Mutant: only a descriptor that comes first replaces another.
Replaced_Earlier(p, i) ==
    /\ Rule(p, i).name # ""
    /\ \E j \in 1..(i - 1) : Rule(p, j) # NoRule /\ Rule(p, i).name \in Rule(p, j).replaces

Replaced(p, i) ==
    /\ Rule(p, i).name # ""
    /\ \E j \in 1..N(p) : Rule(p, j) # NoRule /\ Rule(p, i).name \in Rule(p, j).replaces

\* limitsToCheck: no limit, an unlimited one and a replaced one are nil.
LimitsToCheck(p) ==
    {i \in 1..N(p) : /\ Rule(p, i) # NoRule /\ i \notin Unlimited(p)
                     /\ ~Replaced(p, i)}

\* The metric of descriptor i, when the cache counts its hits.
Metric(p, i) ==
    LET key == <<snapped[p], Rule(p, i).fullKey>>
    IN  IF limits[p][i].shared /\ key \in DOMAIN metricOf
        THEN metricOf[key] ELSE limits[p][i].metric

\* What a backend may answer for descriptor i.
CacheAnswers(p, i) ==
    IF i \notin LimitsToCheck(p)
    THEN {[limited |-> FALSE, code |-> "OK", remaining |-> 0]}
    ELSE [limited : {TRUE}, code : {"OK"}, remaining : 0..MaxRemaining]
         \cup (IF Rule(p, i).shadowMode THEN {}
               ELSE {[limited |-> TRUE, code |-> "OVER_LIMIT", remaining |-> 0]})

DoLimit(p) ==
    /\ pc[p] = "cache"
    /\ checked' = [checked EXCEPT ![p] = LimitsToCheck(p)]
    /\ metrics' = [metrics EXCEPT ![p] =
         [i \in 1..N(p) |-> IF i \in LimitsToCheck(p) THEN Metric(p, i) ELSE << >>]]
    /\ \/ /\ \E s \in [1..N(p) -> UNION {CacheAnswers(p, i) : i \in 1..N(p)}] :
               /\ \A i \in 1..N(p) : s[i] \in CacheAnswers(p, i)
               /\ statuses' = [statuses EXCEPT ![p] = s]
          /\ pc' = [pc EXCEPT ![p] = "reply"]
          /\ UNCHANGED reply
       \/ /\ Answer(p, Error(p, "redis error"))
          /\ UNCHANGED statuses
    /\ UNCHANGED <<updater, crashed, metricOf, call, since, snapped, limits, idx,
                   minimum>>

\* Mutant: an earlier refusal stays the minimum, a later lower one does not count.
IsMinimum_First(p, i) ==
    headers # "off" /\ statuses[p][i].limited /\ minimum[p] = 0

\* minLimitRemaining is that of minimumDescriptor: a refusal has none left.
IsMinimum(p, i) ==
    \/ /\ headers # "off" /\ statuses[p][i].limited
       /\ minimum[p] # 0 =>
            statuses[p][i].remaining < statuses[p][minimum[p]].remaining
    \/ statuses[p][i].code = "OVER_LIMIT"

\* One round of the loop over the statuses.
Aggregate(p) ==
    /\ pc[p] = "reply" /\ idx[p] <= N(p)
    /\ minimum' = [minimum EXCEPT ![p] = IF IsMinimum(p, idx[p]) THEN idx[p] ELSE @]
    /\ idx' = [idx EXCEPT ![p] = @ + 1]
    /\ UNCHANGED <<updater, crashed, metricOf, pc, call, since, snapped, limits, checked,
                   metrics, statuses, reply>>

\* The headers, the overall code, and the global shadow mode.
Respond(p) ==
    LET over == \E i \in 1..N(p) : statuses[p][i].code = "OVER_LIMIT"
        code == IF over /\ ~GlobalShadowMode THEN "OVER_LIMIT" ELSE "OK"
    IN  /\ pc[p] = "reply" /\ idx[p] > N(p)
        /\ Answer(p, [ kind |-> code, http |-> HttpStatus(code),
                       headers |-> IF minimum[p] = 0 THEN "off" ELSE headers,
                       of |-> minimum[p] ])
        /\ UNCHANGED <<updater, crashed, metricOf, call, since, snapped, limits, checked,
                       metrics, statuses, idx, minimum>>

ShouldRateLimit(p) ==
    \/ BadBody(p) \/ BadRequest(p) \/ Snapshot(p) \/ ConstructLimit(p)
    \/ DoLimit(p) \/ Aggregate(p) \/ Respond(p)

Next ==
    \/ ~crashed /\ GetConfig
    \/ ~crashed /\ SetConfig
    \/ \E p \in Request : ~crashed /\ (Begin(p) \/ ShouldRateLimit(p))

Spec == Init /\ [][Next]_vars

(***************************************************************************)
(* Properties.                                                             *)
(***************************************************************************)
\* All descriptors of a request are judged by one configuration, and by one that
\* was in use at some time since the request began, whatever updates run beside
\* it (ratelimit.go:82-97, 185-186).
OneConfiguration ==
    \A p \in Request : limits[p] # << >> =>
       \E v \in 1..Len(applied) :
          /\ v >= since[p]
          /\ \A i \in 1..Len(limits[p]) :
               Rule(p, i) = ConfigGetLimit(applied[v], call[p].domain,
                                           call[p].descriptors[i]).rule

\* Which limits are enforced does not depend on the order of the descriptors: a
\* rule is replaced by one that comes later as by one that comes earlier, and by
\* an unlimited one too (README.md:280-286, ratelimit.go:150-173).
ReplacementIgnoresOrder ==
    \A p, q \in Request :
       /\ snapped[p] = snapped[q] /\ metrics[p] # << >> /\ metrics[q] # << >>
       /\ call[p].domain = call[q].domain
       /\ Range(call[p].descriptors) = Range(call[q].descriptors)
       => {Rule(p, i) : i \in checked[p]} = {Rule(q, i) : i \in checked[q]}

\* Once response headers are enabled every answer about a limit carries all
\* three, with their names, although the names are read without the lock: a
\* request that has a configuration began after they were written
\* (ratelimit.go:82-97, 225-230).
HeadersComplete ==
    ResponseHeadersEnabled => \A p \in Request :
       /\ pc[p] = "done" /\ reply[p].kind \in {"OK", "OVER_LIMIT"}
       /\ checked[p] # {}
       => reply[p].headers = "named"

\* The headers describe a descriptor that refuses when one does, and otherwise
\* the one closest to its limit (README.md:1079-1088, ratelimit.go:195-222).
HeadersDescribeTightest ==
    \A p \in Request :
       /\ pc[p] = "done" /\ reply[p].kind \in {"OK", "OVER_LIMIT"} /\ checked[p] # {}
       => /\ reply[p].of \in checked[p]
          /\ \A i \in checked[p] :
               statuses[p][reply[p].of].remaining <= statuses[p][i].remaining
          /\ reply[p].kind = "OVER_LIMIT" =>
               statuses[p][reply[p].of].code = "OVER_LIMIT"

\* The hits of a request are counted on the metric of its own rule; for a detailed
\* rule, on the metric of its own entries (README.md:826,
\* config_impl.go:356-368).
MetricIsOwn ==
    \A p \in Request : metrics[p] # << >> =>
       \A i \in checked[p] : metrics[p][i] = limits[p][i].metric
================================================================================
