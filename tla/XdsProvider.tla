------------------------------ MODULE XdsProvider ------------------------------
(***************************************************************************)
(* The xDS provider (src/src/provider/xds_grpc_sotw_provider.go): the      *)
(* goroutine of initXdsClient, which dials and waits for a reason to dial  *)
(* again, and the goroutine of watchConfigs, which fetches.  The channels  *)
(* are unbuffered: a send and its receive are one step of both goroutines. *)
(***************************************************************************)
EXTENDS Provider

CONSTANTS
    MaxOutages,     \* bound: times the management server goes away
    Undecodable,    \* versions whose resources cannot be unmarshalled
    DialMayFail     \* grpc.Dial may return an error (it retries by itself)

VARIABLES
    offered,    \* the version the management server has
    reachable,  \* the management server can be reached
    outages,    \* number of outages so far
    stream,     \* "none", "up", or "closed"
    pushed,     \* last version sent on this stream
    dialer,     \* where the goroutine of initXdsClient is
    watcher,    \* where the goroutine of watchConfigs is
    acked       \* last version that was acknowledged

xdsVars == <<offered, reachable, outages, stream, pushed, dialer, watcher, acked>>

XdsInit ==
    /\ offered = 1 /\ reachable \in BOOLEAN /\ outages = 0
    /\ stream = "none" /\ pushed = 0
    /\ dialer = "none" /\ watcher = "none" /\ acked = 0

NewXdsGrpcSotwProvider ==
    /\ dialer' = "dial"
    /\ UNCHANGED <<offered, reachable, outages, stream, pushed, watcher, acked>>

(***************************************************************************)
(* The management server.                                                  *)
(***************************************************************************)
NewVersion ==
    /\ offered < MaxVersion
    /\ offered' = offered + 1
    /\ UNCHANGED <<reachable, outages, stream, pushed, dialer, watcher, acked>>

Outage ==
    /\ reachable /\ outages < MaxOutages
    /\ reachable' = FALSE
    /\ outages' = outages + 1
    /\ stream' = IF stream = "up" THEN "closed" ELSE stream
    /\ UNCHANGED <<offered, pushed, dialer, watcher, acked>>

Recover ==
    /\ ~reachable
    /\ reachable' = TRUE
    /\ UNCHANGED <<offered, outages, stream, pushed, dialer, watcher, acked>>

(***************************************************************************)
(* initXdsClient.                                                          *)
(***************************************************************************)
\* initializeAndWatch: grpc.Dial blocks until the server is there.
Dial ==
    /\ dialer = "dial" /\ reachable
    /\ stream' = "up" /\ pushed' = 0
    /\ watcher' = "fetch"
    /\ dialer' = "select"
    /\ UNCHANGED <<offered, reachable, outages, acked>>

\* An error of the dial: retryGrpcConn sends on the channel that this goroutine
\* would have to receive from.
DialError ==
    /\ DialMayFail /\ dialer = "dial"
    /\ dialer' = "stuck"
    /\ UNCHANGED <<offered, reachable, outages, stream, pushed, watcher, acked>>

\* Mutant: leaves the loop on a retry too.
AfterRetry_Break == "stopped"

AfterRetry == "dial"

\* connectionRetryChannel: true, from the watcher.  The connection is closed, and
\* after the backoff the next dial begins.
Retry ==
    /\ dialer = "select" /\ watcher = "retry"
    /\ stream' = "closed"
    /\ dialer' = AfterRetry
    /\ watcher' = "none"
    /\ UNCHANGED <<offered, reachable, outages, pushed, acked>>

\* connectionRetryChannel: false, from Stop.
StopWatching ==
    /\ dialer = "select"
    /\ stream' = "closed"
    /\ dialer' = "stopped"
    /\ UNCHANGED <<offered, reachable, outages, pushed, watcher, acked>>

(***************************************************************************)
(* watchConfigs.                                                           *)
(***************************************************************************)
\* Fetch returns a version this stream has not sent yet.  What cannot be
\* unmarshalled is refused at once.
Fetch ==
    /\ watcher = "fetch" /\ stream = "up" /\ pushed # offered
    /\ pushed' = offered
    /\ watcher' = IF offered \in Undecodable THEN "fetch" ELSE "send"
    /\ UNCHANGED <<offered, reachable, outages, stream, dialer, acked>>

FetchError ==
    /\ watcher = "fetch" /\ stream = "closed"
    /\ watcher' = "retry"
    /\ UNCHANGED <<offered, reachable, outages, stream, pushed, dialer, acked>>

\* The send of sendConfigs, a configuration or an error, meets its receiver.
XdsSend ==
    /\ watcher = "send"
    /\ watcher' = "ack"
    /\ UNCHANGED <<offered, reachable, outages, stream, pushed, dialer, acked>>

\* Mutant: acknowledges what it received, whether it loads or not.
Acknowledges_Always(version) == TRUE

\* Ack after a configuration, Nack after an error.
Acknowledges(version) == version \notin Invalid

Ack ==
    /\ watcher = "ack"
    /\ acked' = IF Acknowledges(pushed) /\ stream = "up" THEN pushed ELSE acked
    /\ watcher' = "fetch"
    /\ UNCHANGED <<offered, reachable, outages, stream, pushed, dialer>>

XdsStep == Dial \/ Retry \/ Fetch \/ FetchError \/ Ack
================================================================================
