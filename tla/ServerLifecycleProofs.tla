-------------------------- MODULE ServerLifecycleProofs ------------------------
(***************************************************************************)
(* Proofs about ServerLifecycle, for any number of versions, of calls in   *)
(* flight and of outages.  ShutInv follows the goroutine that stops the    *)
(* server, EventInv a version of the configuration from the management     *)
(* server to the service and back, CertInv the pair of files.              *)
(***************************************************************************)
EXTENDS ServerLifecycle, TLAPS

(***************************************************************************)
(* Shutdown.                                                               *)
(***************************************************************************)
ShutInv ==
    /\ updater \in {"first", "setFirst"} => main = "service"
    /\ main \in {"cert", "service", "start", "notify"} => stopper = "none"
    /\ stopper \in {"drain", "provider", "exit"} => grpc # "serving"
    /\ stopper \in {"provider", "exit"} => rpcs = 0
    /\ httpServer = "closed" => stopper \in {"provider", "exit"}
    /\ exited = "exit" => stopper \in {"provider", "exit"}


\* Every step keeps the order of the shutdown: once new calls are refused none is
\* accepted, and the listeners are closed when none is left.
LEMMA ShutNext ==
    ASSUME ShutInv, [Next]_vars
    PROVE  ShutInv'
  <1>1. CASE MainStep /\ exited = "no"
    BY <1>1 DEF MainStep, ShutInv, StartCertProvider, NewServer, Fatal, NewService, Start,
                HandleGracefulShutdown, SetHttpServer, ServeReturns, WaitsForConfig,
                lifeVars, settings, service, listeners, process
  <1>2. CASE ConfigUpdateEvent /\ exited = "no"
    BY <1>2 DEF ConfigUpdateEvent, ShutInv, listeners, process
  <1>3. CASE SetConfig /\ exited = "no"
    BY <1>3 DEF SetConfig, ShutInv, listeners
  <1>4. CASE (ListenDebug \/ StartGrpc \/ Finish \/ Accept) /\ exited = "no"
    BY <1>4 DEF ListenDebug, StartGrpc, Finish, Accept, ShutInv, service, process
  <1>5. CASE (Signal \/ StopperStep) /\ exited = "no"
    BY <1>5 DEF Signal, StopperStep, GracefulStop, CloseListeners, Drained, StopProvider,
                Exit, ShutInv, service, listeners
  <1>6. CASE UNCHANGED lifeVars
    BY <1>6 DEF ShutInv, lifeVars, service, listeners, process
  <1>7. \/ /\ exited = "no"
           /\ \/ MainStep \/ ConfigUpdateEvent \/ SetConfig
              \/ ListenDebug \/ StartGrpc \/ Finish \/ Accept
              \/ Signal \/ StopperStep
        \/ UNCHANGED lifeVars
    BY DEF Next, Runs, Owed, May, ProviderStep, CertProviderStep, FinishWriting,
           ServerRecovers, vars
  <1> QED  BY <1>1, <1>2, <1>3, <1>4, <1>5, <1>6, <1>7

\* A process that stops by itself cuts off no gRPC call it accepted, for any number of
\* calls in flight and wherever the main goroutine is (server_impl.go:355-378).
THEOREM ShutdownCutsOffNoCall == Spec => []NoCallCutOff
  <1>1. Init => ShutInv  BY DEF Init, ShutInv
  <1>2. ShutInv /\ [Next]_vars => ShutInv'  BY ShutNext
  <1>3. ShutInv => NoCallCutOff  BY DEF ShutInv, NoCallCutOff
  <1> QED  BY <1>1, <1>2, <1>3, PTL DEF Spec

(***************************************************************************)
(* Configuration events.                                                   *)
(***************************************************************************)
VersionType ==
    /\ disk \in Nat /\ snapshot \in Nat /\ fileRead \in Nat
    /\ offered \in Nat /\ pushed \in Nat /\ acked \in Nat
    /\ event \in Nat /\ applied \in Nat

\* One provider runs.  What the watcher holds is no older than the last event, and
\* it acknowledges the last event.
EventInv ==
    /\ VersionType /\ pushed <= offered
    /\ main = "cert" => dialer = "none" /\ fileWatch = "none" /\ event = 0
    /\ configType = "FILE" => dialer = "none"
    /\ dialer = "none" => watcher = "none" /\ acked = 0
    /\ dialer = "dial" => watcher = "none"
    /\ dialer # "none" =>
         /\ fileWatch = "none"
         /\ event <= offered /\ acked <= event
         /\ watcher = "send" => pushed >= event
         /\ watcher = "ack" => pushed = event
    /\ updater \notin {"setFirst", "set"} /\ event \notin Invalid => applied = event
    /\ updater \in {"first", "setFirst"} => main = "service"
    /\ AckedIsInUse

\* The first configuration is the one there is.
LEMMA EventInit == Init => EventInv
  BY DEF Init, FileInit, XdsInit, CertInit, EventInv, VersionType, AckedIsInUse

\* The main goroutine starts one provider.
LEMMA MainKeepsEvents ==
    ASSUME EventInv, MainStep
    PROVE  EventInv'
  <1>1. CASE NewServer
    BY <1>1, SMTT(30) DEF NewServer, NewFileProvider, NewXdsGrpcSotwProvider, EventInv, VersionType,
                AckedIsInUse, service, settings, fileVars, xdsVars
  <1>2. CASE ~NewServer
    BY <1>2 DEF MainStep, StartCertProvider, Fatal, NewService, Start, WaitsForConfig,
                HandleGracefulShutdown, SetHttpServer, ServeReturns, EventInv,
                VersionType, AckedIsInUse, lifeVars, settings, service, process,
                fileVars, xdsVars
  <1> QED  BY <1>1, <1>2

\* A version moves from the disk or the management server to the watcher.
LEMMA ProviderKeepsEvents ==
    ASSUME EventInv, UNCHANGED <<settings, service, main>>,
           \/ (FileStep \/ WriteFiles) /\ UNCHANGED xdsVars
           \/ (XdsStep \/ NewVersion \/ Outage \/ DialError \/ Recover \/ StopWatching)
              /\ UNCHANGED fileVars
    PROVE  EventInv'
  <1>1. CASE (FileStep \/ WriteFiles) /\ UNCHANGED xdsVars
    BY <1>1 DEF FileStep, WriteFiles, LoaderRefresh, AddUpdateCallback, ReadSnapshot,
                RuntimeUpdateEvent, EventInv, VersionType, AckedIsInUse, settings,
                service, xdsVars
  <1>2. CASE Ack /\ UNCHANGED fileVars
    BY <1>2 DEF Ack, Acknowledges, EventInv, VersionType, AckedIsInUse, settings,
                service, fileVars
  <1>3. CASE (Dial \/ Retry \/ Fetch \/ FetchError) /\ UNCHANGED fileVars
    BY <1>3 DEF Dial, Retry, AfterRetry, Fetch, FetchError, EventInv, VersionType,
                AckedIsInUse, settings, service, fileVars
  <1>4. CASE (NewVersion \/ Outage \/ DialError \/ Recover \/ StopWatching)
             /\ UNCHANGED fileVars
    BY <1>4 DEF NewVersion, Outage, DialError, Recover, StopWatching, EventInv,
                VersionType, AckedIsInUse, settings, service, fileVars
  <1> QED  BY <1>1, <1>2, <1>3, <1>4 DEF XdsStep

\* The service receives an event, and uses what it received.
LEMMA ServiceKeepsEvents ==
    ASSUME EventInv, ConfigUpdateEvent \/ SetConfig
    PROVE  EventInv'
  <1>1. CASE ConfigUpdateEvent
    BY <1>1 DEF ConfigUpdateEvent, FileSend, XdsSend, EventInv, VersionType,
                AckedIsInUse, settings, process, fileVars, xdsVars
  <1>2. CASE SetConfig
    BY <1>2 DEF SetConfig, EventInv, VersionType, AckedIsInUse, settings, fileVars,
                xdsVars
  <1> QED  BY <1>1, <1>2
\* What the other steps leave alone: the versions, and where the main goroutine is
\* once it has started the provider.
LEMMA OthersKeepEvents ==
    ASSUME EventInv, UNCHANGED <<fileVars, xdsVars, settings, service, main>>
    PROVE  EventInv'
  BY DEF EventInv, VersionType, AckedIsInUse, fileVars, xdsVars, settings, service

\* Every step keeps EventInv.
LEMMA EventNext ==
    ASSUME EventInv, [Next]_vars
    PROVE  EventInv'
  <1>1. CASE MainStep  BY <1>1, MainKeepsEvents
  <1>2. CASE ConfigUpdateEvent \/ SetConfig  BY <1>2, ServiceKeepsEvents
  <1>3. CASE /\ UNCHANGED <<settings, service, main>>
             /\ \/ (FileStep \/ WriteFiles) /\ UNCHANGED xdsVars
                \/ (XdsStep \/ NewVersion \/ Outage \/ DialError \/ Recover \/ StopWatching)
                   /\ UNCHANGED fileVars
    BY <1>3, ProviderKeepsEvents
  <1>4. CASE UNCHANGED <<fileVars, xdsVars, settings, service, main>>
    BY <1>4, OthersKeepEvents
  <1>5. ASSUME StopperStep
        PROVE  /\ UNCHANGED <<fileVars, settings, service, main>>
               /\ StopWatching \/ UNCHANGED xdsVars
    BY <1>5, Zenon DEF StopperStep, GracefulStop, CloseListeners, StopProvider, Exit
  <1>6. ASSUME ListenDebug \/ StartGrpc \/ Finish \/ Accept \/ Signal
        PROVE  UNCHANGED <<fileVars, xdsVars, settings, service, main>>
    BY <1>6, Zenon DEF ListenDebug, StartGrpc, Finish, Accept, Signal, process
  <1>7. ASSUME UNCHANGED lifeVars PROVE UNCHANGED <<settings, service, main>>
    BY <1>7, Zenon DEF lifeVars, process
  <1>8. CASE UNCHANGED vars
    BY <1>4, <1>7, <1>8, Zenon DEF vars
  <1>9. CASE Runs
    BY <1>1, <1>2, <1>3, <1>4, <1>5, <1>6, <1>7, <1>9, Zenon
       DEF Runs, ProviderStep, CertProviderStep
  <1>10. CASE Owed
    BY <1>3, <1>4, <1>7, <1>10, Zenon DEF Owed, FinishWriting, ServerRecovers
  <1>11. CASE May
    BY <1>3, <1>4, <1>6, <1>7, <1>11, Zenon DEF May
  <1> QED  BY <1>8, <1>9, <1>10, <1>11 DEF Next

\* What the management server was told is in use is in use, or about to be, for any
\* number of versions, outages and reconnections (xds_grpc_sotw_provider.go:174-175).
THEOREM AcknowledgedIsInUse == Spec => []AckedIsInUse
  <1>1. Init => EventInv  BY EventInit
  <1>2. EventInv /\ [Next]_vars => EventInv'  BY EventNext
  <1>3. EventInv => AckedIsInUse  BY DEF EventInv
  <1> QED  BY <1>1, <1>2, <1>3, PTL DEF Spec

(***************************************************************************)
(* Certificates.                                                           *)
(***************************************************************************)
\* The certificate is replaced before its key.
CertInv ==
    /\ certFile \in Nat /\ keyFile \in Nat /\ cert \in Nat
    /\ keyFile <= certFile
    /\ CertHasKey

\* Every step keeps CertInv.
LEMMA CertNext ==
    ASSUME CertInv, [Next]_vars
    PROVE  CertInv'
  <1>1. CASE WriteCert \/ WriteKey
    BY <1>1 DEF WriteCert, WriteKey, CertInv, CertHasKey
  <1>2. CASE CertStep \/ NewCertProvider
    BY <1>2 DEF CertStep, CertRefresh, ReadCertFile, ReadKeyFile, PairLoads,
                CertAddUpdateCallback, CertUpdateEvent, NewCertProvider, CertInv,
                CertHasKey
  <1>3. CASE UNCHANGED certVars
    BY <1>3 DEF CertInv, CertHasKey, certVars
  <1>4. ASSUME MainStep PROVE NewCertProvider \/ UNCHANGED certVars
    BY <1>4, Zenon DEF MainStep, StartCertProvider, NewServer, Fatal, NewService, Start,
                HandleGracefulShutdown, SetHttpServer, ServeReturns
  <1>5. ASSUME \/ ConfigUpdateEvent \/ SetConfig \/ StopperStep
               \/ ListenDebug \/ StartGrpc \/ Finish \/ Accept \/ Signal
        PROVE  UNCHANGED certVars
    BY <1>5, Zenon DEF ConfigUpdateEvent, SetConfig, StopperStep, GracefulStop,
                CloseListeners, StopProvider, Exit, ListenDebug, StartGrpc, Finish,
                Accept, Signal
  <1>6. \/ WriteCert \/ WriteKey \/ CertStep \/ NewCertProvider \/ UNCHANGED certVars
    BY <1>4, <1>5, Zenon DEF Next, Runs, Owed, May, ProviderStep, CertProviderStep,
       FinishWriting, ServerRecovers, vars
  <1> QED  BY <1>1, <1>2, <1>3, <1>6

\* The certificate in memory is one whose key has been written, whenever the files are
\* replaced and read (cert_provider.go:52-63).
THEOREM ServedCertificateHasKey == Spec => []CertHasKey
  <1>1. Init => CertInv  BY DEF Init, CertInit, CertInv, CertHasKey
  <1>2. CertInv /\ [Next]_vars => CertInv'  BY CertNext
  <1>3. CertInv => CertHasKey  BY DEF CertInv
  <1> QED  BY <1>1, <1>2, <1>3, PTL DEF Spec
================================================================================
