-------------------------------- MODULE Config ---------------------------------
(***************************************************************************)
(* The configuration (src/src/config/config_impl.go): how YAML files become *)
(* a tree of descriptors per domain, and which rule GetLimit finds for a   *)
(* descriptor of a request.  Everything here is a pure operator.           *)
(*                                                                         *)
(* A text is a sequence of symbols, of which only "_" and "*" matter.  The *)
(* descriptors of a file are its rows, in the order loadDescriptors meets  *)
(* them; `parent' is the path of composite keys above the row.  A domain   *)
(* is the sequence of its nodes, in the order they were loaded.            *)
(***************************************************************************)
EXTENDS Integers, SequencesExt

Empty == << >>
Sep == <<"_">>

\* rate_limit of a row that has none, rule of a node that has none, limit
\* override of a descriptor that has none.
None == [none |-> TRUE]

ValidUnits == {"SECOND", "MINUTE", "HOUR", "DAY"}

(***************************************************************************)
(* Loading.                                                                *)
(***************************************************************************)
FinalKey(row) ==
    IF row.value = Empty THEN row.key ELSE row.key \o Sep \o row.value

Path(row) == Append(row.parent, FinalKey(row))

\* The checks on rate_limit: a unit unless it is unlimited, and then none; no
\* empty and no own name under `replaces'.
ValidRateLimit(rl) ==
    /\ rl.unlimited <=> rl.unit \notin ValidUnits
    /\ "" \notin rl.replaces /\ rl.name \notin rl.replaces

NewRateLimit(fullKey, rl, shadowMode, detailedMetric) ==
    [ fullKey |-> fullKey, requestsPerUnit |-> rl.requestsPerUnit,
      unit |-> rl.unit, unlimited |-> rl.unlimited, name |-> rl.name,
      replaces |-> rl.replaces, shadowMode |-> shadowMode,
      detailedMetric |-> detailedMetric ]

NewDescriptor(domain, row) ==
    [ path |-> Path(row),
      rule |-> IF row.rateLimit = None THEN None
               ELSE NewRateLimit(<<domain>> \o Path(row), row.rateLimit,
                                 row.shadowMode, row.detailedMetric) ]

Present(nodes, path) == \E n \in 1..Len(nodes) : nodes[n].path = path

\* One round of the loop of loadDescriptors.  A failed check panics and ends
\* the load.
LoadDescriptor(domain, acc, row) ==
    IF \/ acc.err
       \/ row.key = Empty
       \/ Present(acc.nodes, Path(row))
       \/ row.rateLimit # None /\ ~ValidRateLimit(row.rateLimit)
    THEN [acc EXCEPT !.err = TRUE]
    ELSE [acc EXCEPT !.nodes = Append(@, NewDescriptor(domain, row))]

LoadDescriptors(domain, nodes, rows) ==
    FoldLeft(LAMBDA acc, row : LoadDescriptor(domain, acc, row),
             [err |-> FALSE, nodes |-> nodes], rows)

\* Mutant: a second file of a domain replaces the first.
DomainNodes_Replace(domains, domain) == << >>

DomainNodes(domains, domain) ==
    IF domain \in DOMAIN domains THEN domains[domain] ELSE << >>

\* loadConfig: one file into the configuration under construction.
LoadConfig(acc, file, mergeDomainConfigs) ==
    LET known == file.domain \in DOMAIN acc.domains
        loaded == LoadDescriptors(file.domain, DomainNodes(acc.domains, file.domain),
                                  file.rows)
    IN  IF acc.err \/ file.domain = Empty \/ (known /\ ~mergeDomainConfigs) \/ loaded.err
        THEN [acc EXCEPT !.err = TRUE]
        ELSE [acc EXCEPT !.domains =
                [d \in DOMAIN acc.domains \cup {file.domain} |->
                   IF d = file.domain THEN loaded.nodes ELSE acc.domains[d]]]

NoDomains == [d \in {} |-> << >>]

\* ConfigFileContentToYaml: every file parses and has only the keys and the
\* kinds of values validateYamlKeys knows.
WellFormed(files) == \A i \in 1..Len(files) : files[i].wellFormed

\* NewRateLimitConfigImpl on the files of one update.
Load(files, mergeDomainConfigs) ==
    FoldLeft(LAMBDA acc, file : LoadConfig(acc, file, mergeDomainConfigs),
             [err |-> ~WellFormed(files), domains |-> NoDomains], files)

IsEmptyDomains(config) == DOMAIN config.domains = {}

(***************************************************************************)
(* GetLimit.                                                               *)
(***************************************************************************)
IsWildcard(key) == key[Len(key)] = "*"

HasChildren(nodes, path) == \E n \in 1..Len(nodes) : Front(nodes[n].path) = path

\* wildcardKeys of the node at `path', in the order they were loaded.
WildcardKeys(nodes, path) ==
    SelectSeq([n \in 1..Len(nodes) |-> nodes[n].path],
              LAMBDA p : Front(p) = path /\ IsWildcard(Last(p)))

\* Mutant: the default of a key comes before its wildcards.
Lookup_DefaultFirst(nodes, path, entry) ==
    LET exact == Append(path, entry.key \o Sep \o entry.value)
        default == Append(path, entry.key)
        wild == SelectSeq(WildcardKeys(nodes, path),
                          LAMBDA p : IsPrefix(Front(Last(p)), Last(exact)))
    IN  IF Present(nodes, exact) THEN exact
        ELSE IF Present(nodes, default) THEN default
        ELSE IF wild # << >> THEN Head(wild)
        ELSE << >>

\* The node an entry leads to from the node at `path', << >> when there is none:
\* key_value, else the first wildcard key that fits, else the key alone.
Lookup(nodes, path, entry) ==
    LET exact == Append(path, entry.key \o Sep \o entry.value)
        default == Append(path, entry.key)
        wild == SelectSeq(WildcardKeys(nodes, path),
                          LAMBDA p : IsPrefix(Front(Last(p)), Last(exact)))
    IN  IF Present(nodes, exact) THEN exact
        ELSE IF wild # << >> THEN Head(wild)
        ELSE IF Present(nodes, default) THEN default
        ELSE << >>

RuleAt(nodes, path) ==
    IF path = << >> THEN None
    ELSE (CHOOSE n \in Range(nodes) : n.path = path).rule

\* One round of the loop over the entries: only the last one finds a limit, and
\* the loop ends where the tree ends.
Walk(nodes, walk, entry, last) ==
    LET next == Lookup(nodes, walk.path, entry)
        rule == RuleAt(nodes, next)
    IN  IF walk.stopped THEN walk
        ELSE [ path |-> next,
               rule |-> IF rule # None /\ last THEN rule ELSE walk.rule,
               stopped |-> next = << >> \/ ~HasChildren(nodes, next) ]

\* The metric of a detailed rule names the key and value of every entry.
DetailedMetricFullKey(domain, entries) ==
    <<domain>> \o [i \in 1..Len(entries) |-> entries[i].key \o Sep \o entries[i].value]

\* descriptorKey: the metric of an override.
DescriptorKey(domain, entries) ==
    <<domain>> \o [i \in 1..Len(entries) |-> FinalKey(entries[i])]

\* What GetLimit returns: the rule, the metric its hits go to, and whether the
\* object returned is the one of the tree (it is, unless the rule is detailed
\* and has no descriptors below it, when the caller gets a copy).
GetLimit(config, domain, descriptor) ==
    IF domain \notin DOMAIN config.domains
    THEN [rule |-> None, metric |-> << >>, shared |-> FALSE]
    ELSE IF descriptor.limit # None
    THEN LET key == DescriptorKey(domain, descriptor.entries)
         IN  [ rule |-> NewRateLimit(key, descriptor.limit, FALSE, FALSE),
               metric |-> key, shared |-> FALSE ]
    ELSE LET nodes == config.domains[domain]
             entries == descriptor.entries
             end == FoldLeftDomain(
                      LAMBDA walk, i : Walk(nodes, walk, entries[i], i = Len(entries)),
                      [path |-> << >>, rule |-> None, stopped |-> FALSE], entries)
         IN  [ rule |-> end.rule,
               metric |-> IF end.rule = None THEN << >>
                          ELSE IF end.rule.detailedMetric
                          THEN DetailedMetricFullKey(domain, entries)
                          ELSE end.rule.fullKey,
               shared |-> end.rule # None
                          /\ ~(end.rule.detailedMetric /\ end.stopped) ]

(***************************************************************************)
(* GenerateCacheKey (src/src/limiter/cache_key.go): the text of the key, up *)
(* to the start of the window, which ends it.                              *)
(***************************************************************************)
\* Mutant: the values are left out.
GenerateCacheKey_KeyOnly(prefix, domain, entries) ==
    prefix \o domain \o Sep \o FlattenSeq([i \in 1..Len(entries) |-> entries[i].key \o Sep])

GenerateCacheKey(prefix, domain, entries) ==
    prefix \o domain \o Sep
    \o FlattenSeq([i \in 1..Len(entries) |->
                     entries[i].key \o Sep \o entries[i].value \o Sep])
================================================================================
