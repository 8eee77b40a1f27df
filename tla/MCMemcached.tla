------------------------------ MODULE MCMemcached ------------------------------
(***************************************************************************)
(* Instance of Memcached for TLC.                                          *)
(***************************************************************************)
EXTENDS MemcachedSums, TLC

CONSTANTS a, b, r1, r2

MCDivider == [u \in Units |-> IF u = "SECOND" THEN 1 ELSE 2]
MCUnit == (a :> "SECOND") @@ (b :> "MINUTE")

One(d, limit, hits) ==
    [n |-> 1, desc |-> <<d, NoLimit>>, limit |-> <<limit, 0>>, hitsAddend |-> hits]
Two(d, dLimit, e, eLimit, hits) ==
    [n |-> 2, desc |-> <<d, e>>, limit |-> <<dLimit, eLimit>>, hitsAddend |-> hits]

\* Four hits take a key over its limit at once, and reach the values that do not
\* fit ParseInt: with words of 8 values those are 4 to 7.
MCCalls == { Two(NoLimit, 0, b, 1, 4), Two(b, 1, a, 1, 0) }
================================================================================
