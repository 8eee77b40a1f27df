--------------------------------- MODULE Quota ---------------------------------
(***************************************************************************)
(* What a rate limit backend promises, without saying how.  A slot is one  *)
(* descriptor of one call.  A slot takes its hits from the counter of its  *)
(* key in one atomic step and is answered by the value it was left at.  It *)
(* may be refused without taking anything only when the counter is over    *)
(* the limit of the slot, or the key has been reset since.                 *)
(***************************************************************************)
EXTENDS Integers

CONSTANTS
    Slot,       \* a descriptor of a call
    Key,        \* what is counted: a descriptor in a window
    MaxHits     \* bound: the hits one slot adds

VARIABLES
    used,       \* the counter of each key
    reset,      \* the keys whose counter was dropped
    asked,      \* what each slot asks: nothing, or one question
    grant,      \* where a slot left the counter, or None
    verdict     \* the answer to each slot, or "none"

quotaVars == <<used, reset, asked, grant, verdict>>

\* The key and limit of a slot, and whether the limit is enforced.
Question == [key : Key, limit : Nat, enforced : BOOLEAN]

None == -1

QuotaInit ==
    /\ used = [k \in Key |-> 0]
    /\ reset = {}
    /\ asked = [s \in Slot |-> {}]
    /\ grant = [s \in Slot |-> None]
    /\ verdict = [s \in Slot |-> "none"]

\* A call begins: some of its slots have a limit.
Ask ==
    /\ asked' \in [Slot -> SUBSET Question]
    /\ \A s \in Slot : asked[s] # {} => asked'[s] = asked[s]
    /\ UNCHANGED <<used, reset, grant, verdict>>

Take(s, q) ==
    /\ grant[s] = None /\ verdict[s] = "none"
    /\ \E hits \in 0..MaxHits :
         /\ used' = [used EXCEPT ![q.key] = @ + hits]
         /\ grant' = [grant EXCEPT ![s] = used[q.key] + hits]
    /\ UNCHANGED <<reset, asked, verdict>>

Allow(s, q) ==
    /\ verdict[s] = "none"
    /\ q.enforced => grant[s] # None /\ grant[s] <= q.limit
    /\ verdict' = [verdict EXCEPT ![s] = "OK"]
    /\ UNCHANGED <<used, reset, asked, grant>>

\* Refused by what the slot was granted, or at once.
Refuse(s, q) ==
    /\ verdict[s] = "none" /\ q.enforced
    /\ \/ grant[s] # None /\ grant[s] > q.limit
       \/ grant[s] = None /\ (used[q.key] > q.limit \/ q.key \in reset)
    /\ verdict' = [verdict EXCEPT ![s] = "OVER_LIMIT"]
    /\ UNCHANGED <<used, reset, asked, grant>>

Reset(k) ==
    /\ used' = [used EXCEPT ![k] = 0]
    /\ reset' = reset \cup {k}
    /\ UNCHANGED <<asked, grant, verdict>>

QuotaNext ==
    \/ Ask
    \/ \E s \in Slot : \E q \in asked[s] : Take(s, q) \/ Allow(s, q) \/ Refuse(s, q)
    \/ \E k \in Key : Reset(k)

QuotaSpec == QuotaInit /\ [][QuotaNext]_quotaVars
================================================================================
