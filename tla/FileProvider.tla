----------------------------- MODULE FileProvider ------------------------------
(***************************************************************************)
(* The file provider (src/src/provider/file_provider.go) and the goruntime *)
(* loader it uses.  Versions of the files stand for their contents.        *)
(***************************************************************************)
EXTENDS Provider

VARIABLES
    disk,        \* version of the files on disk
    snapshot,    \* version in the current snapshot of the loader
    registered,  \* the loader knows runtimeUpdateEvent
    waking,      \* the loader is about to send on runtimeUpdateEvent
    fileWatch,   \* where the goroutine of watch() is
    fileRead     \* version sendEvent works on

fileVars == <<disk, snapshot, registered, waking, fileWatch, fileRead>>

FileInit ==
    /\ disk = 1 /\ snapshot = 0
    /\ registered = FALSE /\ waking = FALSE
    /\ fileWatch = "none" /\ fileRead = 0

\* NewFileProvider: setupRuntime takes the first snapshot, then go watch().
NewFileProvider ==
    /\ snapshot' = disk
    /\ fileWatch' = "register"
    /\ UNCHANGED <<disk, registered, waking, fileRead>>

WriteFiles ==
    /\ disk < MaxVersion
    /\ disk' = disk + 1
    /\ UNCHANGED <<snapshot, registered, waking, fileWatch, fileRead>>

\* The loader sees the change, replaces its snapshot and wakes its callbacks,
\* one blocking send each.
LoaderRefresh ==
    /\ fileWatch # "none" /\ ~waking /\ snapshot # disk
    /\ snapshot' = disk
    /\ waking' = registered
    /\ UNCHANGED <<disk, registered, fileWatch, fileRead>>

\* Mutant: waits for a change before the first event.
AfterRegister_NoFirstEvent == "wait"

\* The goroutine of watch() sends a first event before it waits for changes.
AfterRegister == "read"

AddUpdateCallback ==
    /\ fileWatch = "register"
    /\ registered' = TRUE
    /\ fileWatch' = AfterRegister
    /\ UNCHANGED <<disk, snapshot, waking, fileRead>>

\* sendEvent, up to the send: the files of the snapshot are converted and loaded.
ReadSnapshot ==
    /\ fileWatch = "read"
    /\ fileRead' = snapshot
    /\ fileWatch' = "send"
    /\ UNCHANGED <<disk, snapshot, registered, waking>>

\* The send on configUpdateEventChan meets its receiver.
FileSend ==
    /\ fileWatch = "send"
    /\ fileWatch' = "wait"
    /\ UNCHANGED <<disk, snapshot, registered, waking, fileRead>>

RuntimeUpdateEvent ==
    /\ fileWatch = "wait" /\ waking
    /\ waking' = FALSE
    /\ fileWatch' = "read"
    /\ UNCHANGED <<disk, snapshot, registered, fileRead>>

FileStep ==
    LoaderRefresh \/ AddUpdateCallback \/ ReadSnapshot \/ RuntimeUpdateEvent
================================================================================
