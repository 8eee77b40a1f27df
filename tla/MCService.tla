------------------------------- MODULE MCService -------------------------------
(***************************************************************************)
(* Instances of RateLimitService for TLC, with the configuration of module *)
(* Config.                                                                 *)
(***************************************************************************)
EXTENDS RateLimitService, TLC

CONSTANTS r1, r2

C == INSTANCE Config

MCLoad(files, mergeDomainConfigs) == C!Load(files, mergeDomainConfigs)
MCIsEmptyDomains(config) == C!IsEmptyDomains(config)
MCGetLimit(config, domain, descriptor) == C!GetLimit(config, domain, descriptor)
MCNoRule == C!None
MCEmptyText == C!Empty

X == <<"x">>
Y == <<"y">>
D == <<"d">>

Limit(n, name, replaces) ==
    [unit |-> "SECOND", requestsPerUnit |-> n, unlimited |-> FALSE, name |-> name,
     replaces |-> replaces]
Free(replaces) == [Limit(0, "", replaces) EXCEPT !.unlimited = TRUE, !.unit = "none"]

Row(parent, key, value, rl, shadow, detailed) ==
    [parent |-> parent, key |-> key, value |-> value, rateLimit |-> rl,
     shadowMode |-> shadow, detailedMetric |-> detailed]
Files(rows) == <<[domain |-> D, rows |-> rows, wellFormed |-> TRUE]>>
Update(files) == [files |-> files, panics |-> FALSE]

\* An unlimited rule for y that replaces the rule of x; a detailed shadow rule for
\* y beside a rule for x; no domain at all; a file that is rejected; a panic.
Replacing == Files(<<Row(<<>>, X, EmptyText, Limit(1, "n", {}), FALSE, FALSE),
                     Row(<<>>, Y, EmptyText, Free({"n"}), FALSE, FALSE)>>)
Plain == Files(<<Row(<<>>, X, EmptyText, Limit(2, "", {}), FALSE, FALSE),
                 Row(<<>>, Y, EmptyText, Limit(1, "", {}), TRUE, TRUE)>>)
Rejected == Files(<<Row(<<>>, EmptyText, Y, NoRule, FALSE, FALSE)>>)
MCUpdates ==
    { Update(Replacing), Update(Plain), Update(<< >>), Update(Rejected),
      [files |-> << >>, panics |-> TRUE] }

Entry(k, v) == [entries |-> <<[key |-> k, value |-> v]>>, limit |-> NoRule]
Ask(domain, descriptors) == [domain |-> domain, descriptors |-> descriptors, via |-> "grpc"]
MCCalls ==
    { Ask(D, <<Entry(X, Y), Entry(Y, X)>>), Ask(D, <<Entry(Y, X), Entry(X, Y)>>),
      Ask(D, << >>), [Ask(D, << >>) EXCEPT !.via = "badjson"] }

\* A detailed rule with a descriptor below it.
Nested == Files(<<Row(<<>>, X, EmptyText, Limit(2, "", {}), FALSE, TRUE),
                  Row(<<X>>, Y, EmptyText, NoRule, FALSE, FALSE)>>)
NestedUpdates == { Update(Nested) }
NestedCalls == { Ask(D, <<Entry(X, X)>>), Ask(D, <<Entry(X, Y)>>) }

Symmetry == Permutations(Request)
================================================================================
