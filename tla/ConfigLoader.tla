----------------------------- MODULE ConfigLoader ------------------------------
(***************************************************************************)
(* One update of the configuration: the files a provider delivers are      *)
(* loaded, and the tree they give answers GetLimit.                        *)
(***************************************************************************)
EXTENDS Config

CONSTANTS
    FileLists,      \* the lists of files to load
    Descriptors,    \* the descriptors requests may carry
    Domains         \* the domains requests may name

VARIABLES
    files,              \* the files of the update
    mergeDomainConfigs, \* MERGE_DOMAIN_CONFIG
    config              \* None, or the result of the load

vars == <<files, mergeDomainConfigs, config>>

Init ==
    /\ files \in FileLists
    /\ mergeDomainConfigs \in BOOLEAN
    /\ config = None

NewRateLimitConfigImpl ==
    /\ config = None
    /\ config' = Load(files, mergeDomainConfigs)
    /\ UNCHANGED <<files, mergeDomainConfigs>>

Spec == Init /\ [][NewRateLimitConfigImpl]_vars

(***************************************************************************)
(* Properties.                                                             *)
(***************************************************************************)
Loaded == config # None /\ ~config.err

RuleOf(c, domain, d) == GetLimit(c, domain, d).rule

\* The nodes below `path' that an entry of a request fits.
Candidates(nodes, path, entry) ==
    LET text == entry.key \o Sep \o entry.value
    IN  {n \in 1..Len(nodes) :
           /\ Front(nodes[n].path) = path
           /\ LET key == Last(nodes[n].path)
              IN  \/ key \in {text, entry.key}
                  \/ IsWildcard(key) /\ IsPrefix(Front(key), text)}

\* An exact key before wildcards, an earlier wildcard before a later one, the
\* key alone last.  Of two wildcards the code takes the one loaded first, not the
\* longer one, although README.md:411-413 speaks of the most specific match.
Preferred(nodes, n, m, entry) ==
    LET key(x) == Last(nodes[x].path)
        rank(x) == IF key(x) = entry.key \o Sep \o entry.value THEN 1
                   ELSE IF key(x) = entry.key THEN 3 ELSE 2
    IN  rank(n) < rank(m) \/ (rank(n) = rank(m) /\ n <= m)

\* The nodes that are the best choice at every level for these entries.
BestMatches(nodes, entries) ==
    {n \in 1..Len(nodes) :
       LET path == nodes[n].path
       IN  /\ Len(path) = Len(entries)
           /\ \A i \in 1..Len(path) :
                LET c == Candidates(nodes, SubSeq(path, 1, i - 1), entries[i])
                IN  \E b \in c : /\ nodes[b].path = SubSeq(path, 1, i)
                                 /\ \A m \in c : Preferred(nodes, b, m, entries[i])}

\* GetLimit finds the rule of the best match at every level, of the depth of the
\* request and no other; there is one such rule, as no two have the same place in
\* the tree (README.md:427-446, config_impl.go:136-140, 316-363).
GetLimitIsBestMatch ==
    Loaded => \A domain \in DOMAIN config.domains, d \in Descriptors :
       LET nodes == config.domains[domain]
           best == BestMatches(nodes, d.entries)
       IN  d.limit = None =>
             /\ best = {} => RuleOf(config, domain, d) = None
             /\ \A n \in best : RuleOf(config, domain, d) = nodes[n].rule

\* At most one wildcard key below each node.
WildcardsApart(c) ==
    \A domain \in DOMAIN c.domains :
       LET nodes == c.domains[domain]
       IN  \A n \in 1..Len(nodes) : Len(WildcardKeys(nodes, Front(nodes[n].path))) <= 1

\* The order in which the files of an update are read makes no difference: both
\* orders are rejected, or both give the same rule to every request.  Wildcard
\* keys that compete at one level are the exception: there the first one loaded
\* wins (config_impl.go:246-268, 327-334).
FileOrderIrrelevant ==
    config # None =>
       LET other == Load(Reverse(files), mergeDomainConfigs)
       IN  /\ other.err = config.err
           /\ (Loaded /\ WildcardsApart(config)) =>
                \A domain \in Domains, d \in Descriptors :
                   RuleOf(other, domain, d) = RuleOf(config, domain, d)

Plain(t) == \A i \in 1..Len(t) : t[i] # "_"

\* Two descriptors that are limited count on different keys: the separator keeps
\* keys and values apart where they do not contain it (cache_key.go:62-71).
CountersApart ==
    Loaded =>
       LET limited == {r \in Domains \X Descriptors :
                         /\ \A i \in 1..Len(r[2].entries) :
                              Plain(r[2].entries[i].key) /\ Plain(r[2].entries[i].value)
                         /\ RuleOf(config, r[1], r[2]) # None}
       IN  Cardinality({GenerateCacheKey(Empty, r[1], r[2].entries) : r \in limited})
             = Cardinality({<<r[1], r[2].entries>> : r \in limited})
================================================================================
