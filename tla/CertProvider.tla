----------------------------- MODULE CertProvider ------------------------------
(***************************************************************************)
(* The certificate provider (src/src/provider/cert_provider.go): the pair  *)
(* of files the gRPC server takes its certificate from, reloaded when the  *)
(* goruntime loader reports a change.  The files are replaced one after    *)
(* the other; a pair of different versions does not load.                  *)
(***************************************************************************)
EXTENDS Naturals

CONSTANT MaxCert    \* bound: versions of the certificate

VARIABLES
    certFile,        \* version of the certificate on disk
    keyFile,         \* version of the key on disk
    changed,         \* a change the loader has not seen yet
    certRegistered,  \* the loader knows runtimeUpdateEvent
    certWaking,      \* the loader is about to send on runtimeUpdateEvent
    reload,          \* where the goroutine that reloads is
    readCert,        \* the certificate LoadX509KeyPair has read
    cert,            \* the certificate in memory, 0 when there is none
    missed           \* history: a change the loader had no one to report to

certVars == <<certFile, keyFile, changed, certRegistered, certWaking, reload, readCert,
              cert, missed>>

CertInit ==
    /\ certFile = 1 /\ keyFile \in {0, 1} /\ changed = FALSE
    /\ certRegistered = FALSE /\ certWaking = FALSE
    /\ reload = "none" /\ readCert = 0 /\ cert = 0 /\ missed = FALSE

WriteCert ==
    /\ certFile = keyFile /\ certFile < MaxCert
    /\ certFile' = certFile + 1 /\ changed' = (reload # "none")
    /\ UNCHANGED <<keyFile, certRegistered, certWaking, reload, readCert, cert, missed>>

WriteKey ==
    /\ keyFile # certFile
    /\ keyFile' = certFile /\ changed' = (reload # "none")
    /\ UNCHANGED <<certFile, certRegistered, certWaking, reload, readCert, cert, missed>>

\* The loader sees the change and wakes its callback, when there is one.
CertRefresh ==
    /\ changed /\ ~certWaking
    /\ changed' = FALSE
    /\ certWaking' = certRegistered
    /\ missed' = (missed \/ ~certRegistered)
    /\ UNCHANGED <<certFile, keyFile, certRegistered, reload, readCert, cert>>

\* NewCertProvider: setupRuntime starts the loader, then the first reload.
NewCertProvider ==
    /\ reload' = "cert"
    /\ UNCHANGED <<certFile, keyFile, changed, certRegistered, certWaking, readCert, cert,
                   missed>>

\* LoadX509KeyPair reads one file and then the other.
ReadCertFile ==
    /\ reload = "cert"
    /\ readCert' = certFile
    /\ reload' = "key"
    /\ UNCHANGED <<certFile, keyFile, changed, certRegistered, certWaking, cert, missed>>

\* Mutant: takes the certificate without its key.
PairLoads_Unchecked == TRUE

PairLoads == readCert = keyFile

\* Mutant: a reload that fails ends the loop.
AfterReload_GiveUp ==
    IF ~PairLoads THEN "none" ELSE IF certRegistered THEN "wait" ELSE "register"

\* The first reload is followed by watch(), the others by the next round of its loop.
AfterReload == IF certRegistered THEN "wait" ELSE "register"

\* A pair that does not load leaves the certificate there is; without one it is
\* fatal.
ReadKeyFile ==
    /\ reload = "key"
    /\ \/ /\ PairLoads
          /\ cert' = readCert
       \/ /\ ~PairLoads /\ cert # 0
          /\ UNCHANGED cert
    /\ reload' = AfterReload
    /\ UNCHANGED <<certFile, keyFile, changed, certRegistered, certWaking, readCert,
                   missed>>

CertFatal == reload = "key" /\ ~PairLoads /\ cert = 0

CertAddUpdateCallback ==
    /\ reload = "register"
    /\ certRegistered' = TRUE
    /\ reload' = "wait"
    /\ UNCHANGED <<certFile, keyFile, changed, certWaking, readCert, cert, missed>>

CertUpdateEvent ==
    /\ reload = "wait" /\ certWaking
    /\ certWaking' = FALSE
    /\ reload' = "cert"
    /\ UNCHANGED <<certFile, keyFile, changed, certRegistered, readCert, cert, missed>>

CertStep ==
    \/ CertRefresh \/ ReadCertFile \/ ReadKeyFile
    \/ CertAddUpdateCallback \/ CertUpdateEvent
================================================================================
