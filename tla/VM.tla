---------------------------------- MODULE VM ----------------------------------
(***************************************************************************)
(* The QEMU virtual machine supervisor (src/engines/qemu/vm/vm.go): Start, *)
(* the socket-readiness monitor goroutine of waitForSockets, the exit      *)
(* watcher goroutine, Kill and SetHTTPHandler.  The QEMU argument list of  *)
(* NewVirtualMachine is formatting and is left out; the output forwarders  *)
(* only log.  Two facts about the environment are constants: whether the  *)
(* slugid sub-folder exists when Start watches it (NewVirtualMachine never *)
(* creates it), and whether the Create events fsnotify delivers carry the  *)
(* bare file name the monitor compares with (fsnotify gives the path).     *)
(***************************************************************************)
EXTENDS Naturals

CONSTANTS
    SocketFiles,        \* {vncSocketFile, qmpSocketFile}
    SocketFolderExists, \* the slugid sub-folder of socketFolder exists
    EventNameBase       \* e.Name of a Create event equals the bare file name

ASSUME VMConstAssumption ==
    /\ SocketFiles # {}
    /\ SocketFolderExists \in BOOLEAN
    /\ EventNameBase \in BOOLEAN

VARIABLES
    started,   \* vm.started
    st,        \* Start(): "idle","spawn","select","record","kill","returned"
    q,         \* QEMU process: "notStarted","running","killed","exited"
    exitErr,   \* what vm.qemu.Wait() returns: "nil","exitErr","killed"
    socks,     \* socket files QEMU has created
    mon,       \* monitor goroutine: "none","watching","sending","stopped"
    seen,      \* sockets whose Create event the monitor has received
    monErr,    \* error the monitor sends on socketsReady: "none","timeout","fsError"
    ready,     \* socketsReady has been closed (both sockets seen)
    reported,  \* error Start received from socketsReady, or "none"
    ew,        \* exit watcher goroutine: "none","waiting","done"
    vmErr,     \* vm.Error
    network,   \* vm.network: "held","released"
    image,     \* vm.image: "held","released"
    folder,    \* vm.socketFolder: "present","removed"
    closes,    \* number of close(vm.qemuDone) executed
    handler    \* a meta-data handler has been set on the network

vars == <<started, st, q, exitErr, socks, mon, seen, monErr, ready, reported,
          ew, vmErr, network, image, folder, closes, handler>>

Errors == {"nil", "watchErr", "spawnErr", "timeout", "fsError", "exitErr",
           "killed"}

DoneClosed == closes > 0

-----------------------------------------------------------------------------
(* Start().                                                                *)

\* Start: sets vm.started under vm.m, creates the pipes and calls
\* waitForSockets; w.Add fails when the folder does not exist, and then
\* Start records the error and closes Done.
StartBegin ==
    /\ st = "idle"
    /\ ~started
    /\ started' = TRUE
    /\ IF SocketFolderExists
       THEN /\ mon' = "watching"
            /\ st' = "spawn"
            /\ UNCHANGED <<vmErr, closes>>
       ELSE /\ vmErr' = "watchErr"
            /\ closes' = closes + 1
            /\ st' = "returned"
            /\ UNCHANGED mon
    /\ UNCHANGED <<q, exitErr, socks, seen, monErr, ready, reported, ew,
                   network, image, folder, handler>>

\* Mutant: the spawn-failure path does not return and launches the
\* exit watcher too.
StartSpawnNoReturn ==
    /\ st = "spawn"
    /\ \/ /\ vmErr' = "spawnErr"
          /\ closes' = closes + 1
          /\ st' = "select"
          /\ ew' = "waiting"
          /\ UNCHANGED q
       \/ /\ q' = "running"
          /\ ew' = "waiting"
          /\ st' = "select"
          /\ UNCHANGED <<vmErr, closes>>
    /\ UNCHANGED <<started, exitErr, socks, mon, seen, monErr, ready, reported,
                   network, image, folder, handler>>

\* vm.qemu.Start(): on failure the error is recorded and Done closed; on
\* success the forwarders and the exit watcher are launched.
StartSpawn ==
    /\ st = "spawn"
    /\ \/ /\ vmErr' = "spawnErr"
          /\ closes' = closes + 1
          /\ st' = "returned"
          /\ UNCHANGED <<q, ew>>
       \/ /\ q' = "running"
          /\ ew' = "waiting"
          /\ st' = "select"
          /\ UNCHANGED <<vmErr, closes>>
    /\ UNCHANGED <<started, exitErr, socks, mon, seen, monErr, ready, reported,
                   network, image, folder, handler>>

\* Mutant: the select forgets the case <-vm.Done.
StartSelectNoDone ==
    /\ st = "select"
    /\ \/ /\ mon = "sending"
          /\ reported' = monErr
          /\ mon' = "stopped"
          /\ st' = "record"
       \/ /\ ready
          /\ st' = "returned"
          /\ UNCHANGED <<reported, mon>>
    /\ UNCHANGED <<started, q, exitErr, socks, seen, monErr, ready, ew, vmErr,
                   network, image, folder, closes, handler>>

\* The select on socketsReady and vm.Done: receive the monitor's error,
\* or the closed socketsReady, or the closed Done.
StartSelect ==
    /\ st = "select"
    /\ \/ /\ mon = "sending"
          /\ reported' = monErr
          /\ mon' = "stopped"
          /\ st' = "record"
       \/ /\ ready \/ DoneClosed
          /\ st' = "returned"
          /\ UNCHANGED <<reported, mon>>
    /\ UNCHANGED <<started, q, exitErr, socks, seen, monErr, ready, ew, vmErr,
                   network, image, folder, closes, handler>>

\* Under vm.m: "if vm.Error != nil { vm.Error = err }".
StartRecordError ==
    /\ st = "record"
    /\ vmErr' = IF vmErr # "nil" THEN reported ELSE vmErr
    /\ st' = "kill"
    /\ UNCHANGED <<started, q, exitErr, socks, mon, seen, monErr, ready,
                   reported, ew, network, image, folder, closes, handler>>

\* What Kill() does: nothing once Done is closed, else kill the process
\* (a no-op on a process that has already exited).
KillEffect ==
    q' = IF ~DoneClosed /\ q = "running" THEN "killed" ELSE q

\* Start calls vm.Kill() after a monitoring error and returns.
StartKill ==
    /\ st = "kill"
    /\ KillEffect
    /\ st' = "returned"
    /\ UNCHANGED <<started, exitErr, socks, mon, seen, monErr, ready, reported,
                   ew, vmErr, network, image, folder, closes, handler>>

\* Kill() called by the engine once Start has returned.
Kill ==
    /\ st = "returned"
    /\ ~DoneClosed
    /\ q = "running"
    /\ KillEffect
    /\ UNCHANGED <<started, st, exitErr, socks, mon, seen, monErr, ready,
                   reported, ew, vmErr, network, image, folder, closes, handler>>

\* SetHTTPHandler: under vm.m, only while the network is not released.
SetHTTPHandler ==
    /\ network = "held"
    /\ ~handler
    /\ handler' = TRUE
    /\ UNCHANGED <<started, st, q, exitErr, socks, mon, seen, monErr, ready,
                   reported, ew, vmErr, network, image, folder, closes>>

-----------------------------------------------------------------------------
(* The QEMU process.                                                       *)

\* QEMU creates one of its control sockets in the socket folder.
QemuCreateSocket(f) ==
    /\ q = "running"
    /\ f \notin socks
    /\ socks' = socks \cup {f}
    /\ UNCHANGED <<started, st, q, exitErr, mon, seen, monErr, ready, reported,
                   ew, vmErr, network, image, folder, closes, handler>>

\* QEMU exits by itself (guest shutdown or crash).
QemuExit ==
    /\ q = "running"
    /\ q' = "exited"
    /\ exitErr' \in {"nil", "exitErr"}
    /\ UNCHANGED <<started, st, socks, mon, seen, monErr, ready, reported, ew,
                   vmErr, network, image, folder, closes, handler>>

\* A killed QEMU exits; Wait() reports the signal.
QemuKilledExit ==
    /\ q = "killed"
    /\ q' = "exited"
    /\ exitErr' = "killed"
    /\ UNCHANGED <<started, st, socks, mon, seen, monErr, ready, reported, ew,
                   vmErr, network, image, folder, closes, handler>>

-----------------------------------------------------------------------------
(* The readiness monitor goroutine of waitForSockets.                      *)

\* The monitor's flags vncReady and qmpReady: a received Create event sets
\* a flag only when its e.Name equals the bare file name.
Flagged(evs) == IF EventNameBase THEN evs ELSE {}

\* Mutant: the loop ends when either socket is seen (|| for &&).
MonitorEventEither(f) ==
    /\ mon = "watching"
    /\ f \in socks \ seen
    /\ seen' = seen \cup {f}
    /\ IF Flagged(seen') # {}
       THEN mon' = "stopped" /\ ready' = TRUE
       ELSE UNCHANGED <<mon, ready>>
    /\ UNCHANGED <<started, st, q, exitErr, socks, monErr, reported, ew, vmErr,
                   network, image, folder, closes, handler>>

\* A Create event for a socket file; when both flags are set the loop
\* ends, the watcher is closed and socketsReady closed.
MonitorEvent(f) ==
    /\ mon = "watching"
    /\ f \in socks \ seen
    /\ seen' = seen \cup {f}
    /\ IF Flagged(seen') = SocketFiles
       THEN mon' = "stopped" /\ ready' = TRUE
       ELSE UNCHANGED <<mon, ready>>
    /\ UNCHANGED <<started, st, q, exitErr, socks, monErr, reported, ew, vmErr,
                   network, image, folder, closes, handler>>

\* case <-vm.Done: QEMU is gone, stop monitoring.
MonitorDone ==
    /\ mon = "watching"
    /\ DoneClosed
    /\ mon' = "stopped"
    /\ UNCHANGED <<started, st, q, exitErr, socks, seen, monErr, ready,
                   reported, ew, vmErr, network, image, folder, closes, handler>>

\* case <-time.After(90s) or <-w.Errors: the monitor blocks sending the
\* error on the unbuffered socketsReady until Start receives it.  Once Done
\* is closed the blocked select wakes on <-vm.Done, so the select takes the
\* error only if it was ready while Done was open: the step is taken then,
\* and Done may close right after it.
MonitorFail(e) ==
    /\ mon = "watching"
    /\ ~DoneClosed
    /\ mon' = "sending"
    /\ monErr' = e
    /\ UNCHANGED <<started, st, q, exitErr, socks, seen, ready, reported, ew,
                   vmErr, network, image, folder, closes, handler>>

\* The 90 seconds of time.After cannot have passed before QEMU is spawned:
\* Start calls qemu.Start right after waitForSockets.
MonitorTimeout == q # "notStarted" /\ MonitorFail("timeout")
MonitorFsError == MonitorFail("fsError")

-----------------------------------------------------------------------------
(* The exit watcher goroutine.                                             *)

\* Mutant: Done is closed by the exit watcher without waiting for
\* qemu.Wait() to return.
ExitWatcherNoWait ==
    /\ ew = "waiting"
    /\ vmErr' = IF vmErr = "nil" THEN exitErr ELSE vmErr
    /\ network' = "released"
    /\ image' = "released"
    /\ folder' = "removed"
    /\ closes' = closes + 1
    /\ ew' = "done"
    /\ UNCHANGED <<started, st, q, exitErr, socks, mon, seen, monErr, ready,
                   reported, handler>>

\* qemu.Wait() returned; under vm.m: keep the first error, close the pipes,
\* release network and image, remove the socket folder, then close Done.
ExitWatcher ==
    /\ ew = "waiting"
    /\ q \in {"exited", "notStarted"}
    /\ vmErr' = IF vmErr = "nil" THEN exitErr ELSE vmErr
    /\ network' = "released"
    /\ image' = "released"
    /\ folder' = "removed"
    /\ closes' = closes + 1
    /\ ew' = "done"
    /\ UNCHANGED <<started, st, q, exitErr, socks, mon, seen, monErr, ready,
                   reported, handler>>

-----------------------------------------------------------------------------

-----------------------------------------------------------------------------
(* Properties.                                                             *)

\* Every variable stays in its domain.
VMTypeOK ==
    /\ started \in BOOLEAN
    /\ st \in {"idle", "spawn", "select", "record", "kill", "returned"}
    /\ q \in {"notStarted", "running", "killed", "exited"}
    /\ exitErr \in {"nil", "exitErr", "killed"}
    /\ socks \in SUBSET SocketFiles
    /\ mon \in {"none", "watching", "sending", "stopped"}
    /\ seen \in SUBSET SocketFiles
    /\ monErr \in {"none", "timeout", "fsError"}
    /\ ready \in BOOLEAN
    /\ reported \in {"none", "timeout", "fsError"}
    /\ ew \in {"none", "waiting", "done"}
    /\ vmErr \in Errors
    /\ network \in {"held", "released"}
    /\ image \in {"held", "released"}
    /\ folder \in {"present", "removed"}
    /\ closes \in Nat
    /\ handler \in BOOLEAN

\* The done channel is closed at most once, whichever of the three close
\* sites of Start and the exit watcher run (a second close panics).
DoneClosedOnce == closes <= 1

\* Kill (vm.go:345-352) does nothing once Done is closed, "We're obviously
\* not running, so we must be done": Done is closed only after QEMU has
\* exited or when it was never started, so skipping the kill never leaves
\* a live QEMU behind.
DoneMeansStopped == DoneClosed => q \in {"notStarted", "exited"}

\* Start returns with the VM still running only when both control sockets
\* were seen, or when QEMU has been killed or has exited.
StartReturnsReadyOrDone ==
    (st = "returned" /\ ~DoneClosed) =>
        \/ seen = SocketFiles
        \/ q \in {"killed", "exited"}

\* Start always returns: the sockets appear, the monitor fails or times
\* out, or QEMU exits.
StartTerminates == (st # "idle") ~> (st = "returned")

\* Spec 4.3: the done-signal closes last, after network, image and socket
\* folder are released, so VNCSocket() returns "" once Done is closed.
DoneImpliesReleased ==
    DoneClosed =>
        /\ network = "released"
        /\ image = "released"
        /\ folder = "removed"

\* Spec 4.3: a readiness-monitor error becomes the VM's terminal error:
\* once Start has handled it, vm.Error is set.
ReadinessErrorRecorded ==
    (reported # "none" /\ st \in {"kill", "returned"}) => vmErr # "nil"

\* Spec 4.3: monitoring observes the done-signal so it stops once QEMU is
\* gone, leaving no dangling watcher goroutine.
MonitorStops == DoneClosed ~> (mon \in {"none", "stopped"})

\* Comment at vm.go:36, "Error, to be read after Done is closed": once Done
\* is closed no step of Start, the monitor or the exit watcher changes
\* vm.Error any more.
ErrorFixedOnceDone == [][DoneClosed => UNCHANGED vmErr]_vars

\* A VM as NewVirtualMachine returns it.
Init ==
    /\ started = FALSE
    /\ st = "idle"
    /\ q = "notStarted"
    /\ exitErr = "nil"
    /\ socks = {}
    /\ mon = "none"
    /\ seen = {}
    /\ monErr = "none"
    /\ ready = FALSE
    /\ reported = "none"
    /\ ew = "none"
    /\ vmErr = "nil"
    /\ network = "held"
    /\ image = "held"
    /\ folder = "present"
    /\ closes = 0
    /\ handler = FALSE

Next ==
    \/ StartBegin \/ StartSpawn \/ StartSelect \/ StartRecordError
    \/ StartKill \/ Kill \/ SetHTTPHandler
    \/ \E f \in SocketFiles : QemuCreateSocket(f) \/ MonitorEvent(f)
    \/ QemuExit \/ QemuKilledExit
    \/ MonitorDone \/ MonitorTimeout \/ MonitorFsError
    \/ ExitWatcher

(***************************************************************************)
(* Fairness: runnable goroutines run, a killed QEMU exits, filesystem     *)
(* events are delivered and the 90 second timer fires.  QEMU need not     *)
(* create its sockets or exit by itself; nobody is obliged to call Kill.  *)
(***************************************************************************)
Fairness ==
    /\ WF_vars(StartBegin) /\ WF_vars(StartSpawn) /\ WF_vars(StartSelect)
    /\ WF_vars(StartRecordError) /\ WF_vars(StartKill)
    /\ WF_vars(QemuKilledExit) /\ WF_vars(ExitWatcher)
    /\ \A f \in SocketFiles : WF_vars(MonitorEvent(f))
    /\ WF_vars(MonitorDone) /\ WF_vars(MonitorTimeout)

Spec == Init /\ [][Next]_vars

FairSpec == Spec /\ Fairness

-----------------------------------------------------------------------------
(* Refinement of the VM's lifecycle.                                       *)

\* Where the Start call is, as its caller sees it.
StartPhase ==
    CASE st = "idle" -> "idle"
      [] st = "returned" -> "returned"
      [] OTHER -> "waiting"

Lifecycle == INSTANCE VMLifecycle
    WITH proc <- q, done <- DoneClosed, start <- StartPhase, ready <- ready

\* The supervisor implements the lifecycle of spec 4.3: Start runs once and
\* returns only when the sockets are ready, Done is closed, or it killed
\* QEMU; Kill acts only while Done is open; Done is closed only once QEMU
\* exited or was never spawned, and stays closed.
ImplementsLifecycle == Lifecycle!ASpec

=============================================================================
