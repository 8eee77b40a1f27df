---------------------------- MODULE ServerLifecycle ----------------------------
(***************************************************************************)
(* The life of the process: Runner.Run (src/src/service_cmd/runner/        *)
(* runner.go) builds the server, its certificate and configuration         *)
(* providers and the service, then starts the listeners                    *)
(* (src/src/server/server_impl.go); a signal stops it.  The configuration  *)
(* provider is one of the two, by ConfigType; its event and the receive in *)
(* NewService are one step, the channel being unbuffered.                  *)
(***************************************************************************)
EXTENDS FileProvider, XdsProvider, CertProvider

CONSTANTS
    Settings,       \* what to start with: ConfigType, GrpcServerUseTLS, and a
                    \* bound on the versions of the configuration
    ForceStart,     \* ForceStartWithoutInitialConfig
    MaxRPCs         \* bound: gRPC calls in flight

VARIABLES
    configType,  \* "FILE" or "GRPC_XDS_SOTW"
    useTLS,      \* GrpcServerUseTLS
    versions,    \* bound: versions of the configuration in this run
    main,        \* where the main goroutine is
    updater,     \* where the receiver of configuration events is
    event,       \* the version it received last
    applied,     \* the version the service uses, 0 while its config is nil
    grpc,        \* the gRPC server
    rpcs,        \* gRPC calls in flight
    debug,       \* the debug listener
    httpServer,  \* server.httpServer: "nil", "set" or "closed"
    listenerMu,  \* Stop holds the mutex
    stopper,     \* where the goroutine of handleGracefulShutdown is
    signalled,   \* a signal has been sent
    exited       \* the process is gone: "no", "killed", "fatal" or "exit"

settings == <<configType, useTLS, versions>>
service == <<updater, event, applied>>
listeners == <<grpc, rpcs, debug, httpServer, listenerMu>>
process == <<main, stopper, signalled, exited>>
lifeVars == <<settings, service, listeners, process>>
vars == <<fileVars, xdsVars, certVars, lifeVars>>

Init ==
    /\ FileInit /\ XdsInit /\ CertInit
    /\ \E s \in Settings : configType = s[1] /\ useTLS = s[2] /\ versions = s[3]
    /\ configType = "FILE" => reachable     \* of no importance then
    /\ ~useTLS => keyFile = certFile
    /\ main = "cert" /\ updater = "none" /\ event = 0 /\ applied = 0
    /\ grpc = "none" /\ rpcs = 0 /\ debug = "none"
    /\ httpServer = "nil" /\ listenerMu = FALSE
    /\ stopper = "none" /\ signalled = FALSE /\ exited = "no"

(***************************************************************************)
(* Runner.Run, the main goroutine.                                         *)
(***************************************************************************)
\* newServer: the certificate comes first, and its first reload is waited for.
StartCertProvider ==
    /\ main = "cert" /\ useTLS /\ reload = "none"
    /\ NewCertProvider
    /\ UNCHANGED <<fileVars, xdsVars, lifeVars>>

\* getProviderImpl, then NewHealthChecker, which takes over SIGTERM.
NewServer ==
    /\ main = "cert" /\ (useTLS => reload \in {"register", "wait"})
    /\ main' = "service"
    /\ \/ configType = "FILE" /\ NewFileProvider /\ UNCHANGED xdsVars
       \/ configType = "GRPC_XDS_SOTW" /\ NewXdsGrpcSotwProvider /\ UNCHANGED fileVars
    /\ UNCHANGED <<certVars, settings, service, listeners, stopper,
                   signalled, exited>>

\* logger.Fatalf of the first reload.
Fatal ==
    /\ CertFatal
    /\ exited' = "fatal"
    /\ UNCHANGED <<fileVars, xdsVars, certVars, settings, service, listeners,
                   main, stopper, signalled>>

WaitsForConfig == ~ForceStart

\* NewService: receives the first event itself, or leaves that to a goroutine.
NewService ==
    /\ main = "service" /\ updater = "none"
    /\ updater' = IF WaitsForConfig THEN "first" ELSE "wait"
    /\ main' = IF WaitsForConfig THEN "service" ELSE "start"
    /\ UNCHANGED <<fileVars, xdsVars, certVars, settings, event, applied,
                   listeners, stopper, signalled, exited>>

\* server.Start: the goroutines of the debug and of the gRPC listener.
Start ==
    /\ main = "start"
    /\ main' = "notify" /\ debug' = "start" /\ grpc' = "start"
    /\ UNCHANGED <<fileVars, xdsVars, certVars, settings, service, rpcs,
                   httpServer, listenerMu, stopper, signalled, exited>>

HandleGracefulShutdown ==
    /\ main = "notify"
    /\ main' = "listen" /\ stopper' = "wait"
    /\ UNCHANGED <<fileVars, xdsVars, certVars, settings, service, listeners,
                   signalled, exited>>

SetHttpServer ==
    /\ main = "listen" /\ ~listenerMu
    /\ main' = "serve" /\ httpServer' = "set"
    /\ UNCHANGED <<fileVars, xdsVars, certVars, settings, service, grpc, rpcs,
                   debug, listenerMu, stopper, signalled, exited>>

\* srv.Serve returns ErrServerClosed, Start and Run return, and main ends.
ServeReturns ==
    /\ main = "serve" /\ httpServer = "closed"
    /\ exited' = "exit"
    /\ UNCHANGED <<fileVars, xdsVars, certVars, settings, service, listeners,
                   main, stopper, signalled>>

MainStep ==
    \/ StartCertProvider \/ NewServer \/ Fatal \/ NewService \/ Start
    \/ HandleGracefulShutdown \/ SetHttpServer \/ ServeReturns

(***************************************************************************)
(* Configuration events.                                                   *)
(***************************************************************************)
\* The provider's send meets the receive in NewService.
ConfigUpdateEvent ==
    /\ updater \in {"first", "wait"}
    /\ \/ FileSend /\ event' = fileRead /\ UNCHANGED xdsVars
       \/ XdsSend /\ event' = pushed /\ UNCHANGED fileVars
    /\ updater' = IF updater = "first" THEN "setFirst" ELSE "set"
    /\ UNCHANGED <<certVars, settings, applied, listeners, process>>

\* SetConfig: an event with an error leaves the configuration as it is.  The
\* first call returns to Run either way.
SetConfig ==
    /\ updater \in {"setFirst", "set"}
    /\ applied' = IF event \in Invalid THEN applied ELSE event
    /\ updater' = "wait"
    /\ main' = IF updater = "setFirst" THEN "start" ELSE main
    /\ UNCHANGED <<fileVars, xdsVars, certVars, settings, event, listeners,
                   stopper, signalled, exited>>

ProviderStep ==
    \/ /\ \/ FileStep /\ UNCHANGED <<xdsVars, certVars>>
          \/ XdsStep /\ UNCHANGED <<fileVars, certVars>>
       /\ UNCHANGED lifeVars
    \/ ConfigUpdateEvent
    \/ SetConfig

(***************************************************************************)
(* The listeners.                                                          *)
(***************************************************************************)
ListenDebug ==
    /\ debug = "start" /\ ~listenerMu
    /\ debug' = "open"
    /\ UNCHANGED <<fileVars, xdsVars, certVars, settings, service, grpc, rpcs,
                   httpServer, listenerMu, process>>

\* Serve on a server that was stopped returns at once.
StartGrpc ==
    /\ grpc = "start"
    /\ grpc' = IF stopper \in {"none", "wait", "stop"} THEN "serving" ELSE "stopped"
    /\ UNCHANGED <<fileVars, xdsVars, certVars, settings, service, rpcs,
                   debug, httpServer, listenerMu, process>>

Accept ==
    /\ grpc = "serving" /\ rpcs < MaxRPCs
    /\ rpcs' = rpcs + 1
    /\ UNCHANGED <<fileVars, xdsVars, certVars, settings, service, grpc,
                   debug, httpServer, listenerMu, process>>

Finish ==
    /\ rpcs > 0
    /\ rpcs' = rpcs - 1
    /\ UNCHANGED <<fileVars, xdsVars, certVars, settings, service, grpc,
                   debug, httpServer, listenerMu, process>>

(***************************************************************************)
(* The end.                                                                *)
(***************************************************************************)
\* A SIGTERM.  Before NewHealthChecker it kills the process; before
\* handleGracefulShutdown only the health goroutine receives it.
Signal ==
    /\ ~signalled
    /\ signalled' = TRUE
    /\ exited' = IF main = "cert" THEN "killed" ELSE "no"
    /\ stopper' = IF stopper = "wait" THEN "stop" ELSE stopper
    /\ UNCHANGED <<fileVars, xdsVars, certVars, settings, service, listeners,
                   main>>

\* Mutant: does not wait for the calls in flight.
Drained_AtOnce == TRUE

Drained == rpcs = 0

\* Stop: GracefulStop refuses new calls ...
GracefulStop ==
    /\ stopper = "stop"
    /\ stopper' = "drain"
    /\ grpc' = IF grpc = "serving" THEN "stopped" ELSE grpc
    /\ UNCHANGED <<fileVars, xdsVars, certVars, settings, service, rpcs,
                   debug, httpServer, listenerMu, main, signalled, exited>>

\* ... and returns when there are none; then the listeners are closed, under a
\* mutex that is held until the provider has stopped.
CloseListeners ==
    /\ stopper = "drain" /\ Drained /\ ~listenerMu
    /\ stopper' = "provider" /\ listenerMu' = TRUE
    /\ debug' = IF debug = "open" THEN "closed" ELSE debug
    /\ httpServer' = IF httpServer = "set" THEN "closed" ELSE httpServer
    /\ UNCHANGED <<fileVars, xdsVars, certVars, settings, service, grpc, rpcs,
                   main, signalled, exited>>

\* provider.Stop: nothing for files; a send the dialer has to receive for xDS.
StopProvider ==
    /\ stopper = "provider"
    /\ stopper' = "exit" /\ listenerMu' = FALSE
    /\ \/ configType = "FILE" /\ UNCHANGED xdsVars
       \/ configType = "GRPC_XDS_SOTW" /\ StopWatching
    /\ UNCHANGED <<fileVars, certVars, settings, service, grpc, rpcs, debug,
                   httpServer, main, signalled, exited>>

Exit ==
    /\ stopper = "exit"
    /\ exited' = "exit"
    /\ UNCHANGED <<fileVars, xdsVars, certVars, settings, service, listeners,
                   main, stopper, signalled>>

StopperStep == GracefulStop \/ CloseListeners \/ StopProvider \/ Exit

(***************************************************************************)
(* The specification.                                                      *)
(***************************************************************************)
CertProviderStep == useTLS /\ CertStep /\ UNCHANGED <<fileVars, xdsVars, lifeVars>>
FinishWriting == useTLS /\ WriteKey /\ UNCHANGED <<fileVars, xdsVars, lifeVars>>
ServerRecovers ==
    configType = "GRPC_XDS_SOTW" /\ Recover /\ UNCHANGED <<fileVars, certVars, lifeVars>>

\* What the process does by itself, what its surroundings owe it, and what they
\* may do.
Runs ==
    /\ exited = "no"
    /\ \/ MainStep \/ ProviderStep \/ CertProviderStep \/ StopperStep
       \/ ListenDebug \/ StartGrpc \/ Finish
Owed == exited = "no" /\ (FinishWriting \/ ServerRecovers)
May ==
    /\ exited = "no"
    /\ \/ Accept \/ Signal
       \/ /\ configType = "FILE" /\ disk < versions
          /\ WriteFiles
          /\ UNCHANGED <<xdsVars, certVars, lifeVars>>
       \/ /\ configType = "GRPC_XDS_SOTW"
          /\ (NewVersion /\ offered < versions) \/ Outage \/ DialError
          /\ UNCHANGED <<fileVars, certVars, lifeVars>>
       \/ useTLS /\ WriteCert /\ UNCHANGED <<fileVars, xdsVars, lifeVars>>

Next == Runs \/ Owed \/ May

Spec == Init /\ [][Next]_vars
FairSpec ==
    /\ Spec
    /\ WF_vars(exited = "no" /\ MainStep)
    /\ WF_vars(exited = "no" /\ ProviderStep)
    /\ WF_vars(exited = "no" /\ CertProviderStep)
    /\ WF_vars(exited = "no" /\ StopperStep)
    /\ WF_vars(exited = "no" /\ (ListenDebug \/ StartGrpc))
    /\ WF_vars(exited = "no" /\ Finish)
    /\ WF_vars(Owed)

(***************************************************************************)
(* Properties.                                                             *)
(***************************************************************************)
\* A process that stops by itself has answered every gRPC call it accepted,
\* whichever of os.Exit and the return of main comes first (server_impl.go:355-378).
NoCallCutOff == exited = "exit" => rpcs = 0

\* What the management server was told is in use has reached the service, which
\* uses it, uses a later one, or is about to (xds_grpc_sotw_provider.go:174-175).
AckedIsInUse ==
    acked # 0 => applied >= acked \/ (event = acked /\ event \notin Invalid)

\* The certificate in memory is one whose key has been written: a pair read in the
\* middle of a replacement is never served (cert_provider.go:52-63).
CertHasKey == cert # 0 => cert <= keyFile

Stopping == exited # "no" \/ stopper \notin {"none", "wait"}

\* The latest version of the configuration reaches the service, whatever the outages,
\* the changes while an event is being sent, and the races between the first read and
\* the registration of the callback (file_provider.go:33-46,
\* xds_grpc_sotw_provider.go:68-124).
LatestConfigArrives ==
    <>[](\/ Stopping \/ dialer = "stuck" \/ CertFatal
         \/ IF configType = "FILE" THEN event = disk
            ELSE event = offered \/ offered \in Undecodable)

\* The latest certificate is served, unless the loader saw a change before the
\* callback was registered (cert_provider.go:103-106).
LatestCertArrives ==
    <>[](Stopping \/ ~useTLS \/ missed \/ cert = certFile)

\* Once the handler has the signal the process ends, whatever the main goroutine and
\* the provider are doing, unless the dialer is stuck (server_impl.go:355-378).
ShutdownCompletes ==
    stopper = "stop" ~> (exited # "no" \/ dialer = "stuck")
================================================================================
