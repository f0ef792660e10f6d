------------------------------ MODULE BuildImage ------------------------------
(***************************************************************************)
(* The qemu-build command's buildImage                                     *)
(* (src/commands/qemu-build/buildimage.go) composed with the virtual       *)
(* machine supervisor of module VM: buildImage prepares its temporary      *)
(* folders, the image and a user-space network, starts the VM, waits for   *)
(* SIGINT or the VM's Done, then for Done, and packages the image.  The    *)
(* VM's goroutines run in the builder's process; QEMU is a process of its  *)
(* own.  The VM is the one of vm.go, whose NewVirtualMachine cannot fail.  *)
(***************************************************************************)
EXTENDS VM

CONSTANT MaxSignals  \* SIGINTs delivered to the builder in a behaviour

ASSUME BuildConstAssumption == MaxSignals \in Nat

VARIABLES
    bpc,        \* buildImage: "init","start","select","waitDone","package",
                \* "returned", or "killed" (the process died of a signal)
    tmpDir,     \* tempFolder: "none","present","removed"
    sockDir,    \* socketFolder: "none","present","removed"
    img,        \* the MutableImage: "none","held","disposed"
    netMade,    \* network.NewUserNetwork succeeded
    notify,     \* signal.Notify(interrupted, os.Interrupt) is in force
    sigQueued,  \* the interrupted channel (capacity 1) holds a signal
    sigs,       \* SIGINTs delivered so far
    berr,       \* err as buildImage will return it
    packaged    \* img.Package(outputFile) succeeded

bvars == <<bpc, tmpDir, sockDir, img, netMade, notify, sigQueued, sigs, berr,
           packaged>>

allVars == <<vars, bvars>>

\* The fallible calls before the VM is created, in order: filepath.Abs,
\* ioutil.TempDir (image folder), the machine file and NewMutableImage (or
\* NewMutableImageFromFile), ioutil.TempDir (sockets), NewUserNetwork.
SetupSteps == 5

\* The process is alive and runs the VM's goroutines.
Alive == bpc # "killed"

BuildInit ==
    /\ Init
    /\ bpc = "init"
    /\ tmpDir = "none" /\ sockDir = "none" /\ img = "none"
    /\ netMade = FALSE
    /\ notify = FALSE /\ sigQueued = FALSE /\ sigs = 0
    /\ berr = "nil" /\ packaged = FALSE

\* Lines 33-102 up to machine.Start(): step k is the first call that fails
\* (k = SetupSteps + 1: none does).  A failure returns at once; the
\* deferred RemoveAll of each folder created so far runs, while the image,
\* whose Dispose is deferred only at line 127, is left held.
BuildPrepare ==
    /\ bpc = "init"
    /\ \E k \in 1..(SetupSteps + 1) :
         LET ok == k = SetupSteps + 1
             Made(i) == k > i
             Dir(i) == IF ~Made(i) THEN "none"
                       ELSE IF ok THEN "present" ELSE "removed"
         IN /\ tmpDir' = Dir(2)
            /\ sockDir' = Dir(4)
            /\ img' = IF Made(3) THEN "held" ELSE "none"
            /\ netMade' = ok
            /\ bpc' = IF ok THEN "start" ELSE "returned"
            /\ berr' = IF ok THEN "nil" ELSE "setupErr"
    /\ UNCHANGED vars
    /\ UNCHANGED <<notify, sigQueued, sigs, packaged>>

\* machine.Start() is called by buildImage.
BuildStartVM ==
    /\ bpc = "start"
    /\ StartBegin
    /\ UNCHANGED bvars

\* Start has returned: signal.Notify is installed (line 114-115).
BuildNotify ==
    /\ bpc = "start"
    /\ st = "returned"
    /\ notify' = TRUE
    /\ bpc' = "select"
    /\ UNCHANGED vars
    /\ UNCHANGED <<tmpDir, sockDir, img, netMade, sigQueued, sigs, berr, packaged>>

\* A SIGINT reaches the builder.  With Notify in force it is queued in the
\* interrupted channel (dropped if the channel is full); otherwise Go's
\* default action ends the process, and no deferred call runs.
SigInt ==
    /\ sigs < MaxSignals
    /\ bpc \notin {"returned", "killed"}
    /\ sigs' = sigs + 1
    /\ IF notify
       THEN /\ sigQueued' = TRUE
            /\ UNCHANGED bpc
       ELSE /\ bpc' = "killed"
            /\ UNCHANGED sigQueued
    /\ UNCHANGED vars
    /\ UNCHANGED <<tmpDir, sockDir, img, netMade, notify, berr, packaged>>

\* Mutant: the Done case drops machine.Error.
BuildSelectIgnoreError ==
    /\ bpc = "select"
    /\ \/ /\ sigQueued
          /\ sigQueued' = FALSE
          /\ KillEffect
          /\ berr' = "interrupted"
       \/ /\ DoneClosed
          /\ berr' = "nil"
          /\ UNCHANGED <<sigQueued, q>>
    /\ bpc' = "waitDone"
    /\ UNCHANGED <<started, st, exitErr, socks, mon, seen, monErr, ready,
                   reported, ew, vmErr, network, image, folder, closes, handler>>
    /\ UNCHANGED <<tmpDir, sockDir, img, netMade, notify, sigs, packaged>>

\* Mutant: the interrupt case forgets machine.Kill().
BuildSelectNoKill ==
    /\ bpc = "select"
    /\ \/ /\ sigQueued
          /\ sigQueued' = FALSE
          /\ berr' = "interrupted"
       \/ /\ DoneClosed
          /\ berr' = vmErr
          /\ UNCHANGED sigQueued
    /\ bpc' = "waitDone"
    /\ UNCHANGED <<started, st, q, exitErr, socks, mon, seen, monErr, ready,
                   reported, ew, vmErr, network, image, folder, closes, handler>>
    /\ UNCHANGED <<tmpDir, sockDir, img, netMade, notify, sigs, packaged>>

\* The select of lines 118-124: on the interrupt, machine.Kill() and an
\* error; on Done, machine.Error.
BuildSelect ==
    /\ bpc = "select"
    /\ \/ /\ sigQueued
          /\ sigQueued' = FALSE
          /\ KillEffect
          /\ berr' = "interrupted"
       \/ /\ DoneClosed
          /\ berr' = vmErr
          /\ UNCHANGED <<sigQueued, q>>
    /\ bpc' = "waitDone"
    /\ UNCHANGED <<started, st, exitErr, socks, mon, seen, monErr, ready,
                   reported, ew, vmErr, network, image, folder, closes, handler>>
    /\ UNCHANGED <<tmpDir, sockDir, img, netMade, notify, sigs, packaged>>

\* Lines 125-135: <-machine.Done, signal.Stop, defer img.Dispose(); on an
\* error return, running the deferred Dispose and both RemoveAlls.
BuildWaitDone ==
    /\ bpc = "waitDone"
    /\ DoneClosed
    /\ notify' = FALSE
    /\ IF berr = "nil"
       THEN /\ bpc' = "package"
            /\ UNCHANGED <<img, tmpDir, sockDir>>
       ELSE /\ bpc' = "returned"
            /\ img' = "disposed" /\ tmpDir' = "removed" /\ sockDir' = "removed"
    /\ UNCHANGED vars
    /\ UNCHANGED <<netMade, sigQueued, sigs, berr, packaged>>

\* Lines 137-145: img.Package(outputFile), then return through the defers.
BuildPackage ==
    /\ bpc = "package"
    /\ \E ok \in BOOLEAN :
         /\ packaged' = ok
         /\ berr' = IF ok THEN "nil" ELSE "packageErr"
    /\ bpc' = "returned"
    /\ img' = "disposed" /\ tmpDir' = "removed" /\ sockDir' = "removed"
    /\ UNCHANGED vars
    /\ UNCHANGED <<netMade, notify, sigQueued, sigs>>

\* A step of the VM's goroutines (alive only with the process) or of QEMU.
VMStep ==
    /\ \/ Alive /\ \/ StartSpawn \/ StartSelect \/ StartRecordError \/ StartKill
                   \/ \E f \in SocketFiles : MonitorEvent(f)
                   \/ MonitorDone \/ MonitorTimeout \/ MonitorFsError
                   \/ ExitWatcher
       \/ \E f \in SocketFiles : QemuCreateSocket(f)
       \/ QemuExit \/ QemuKilledExit
    /\ UNCHANGED bvars

BuildNext ==
    \/ BuildPrepare \/ BuildStartVM \/ BuildNotify \/ SigInt
    \/ BuildSelect \/ BuildWaitDone \/ BuildPackage
    \/ VMStep

(***************************************************************************)
(* Fairness: the builder's goroutine and the VM's goroutines run, a       *)
(* killed QEMU exits, fsnotify delivers and the readiness timer fires.    *)
(* Nobody need send SIGINT and QEMU need not exit by itself: a build runs *)
(* until the guest shuts down.                                             *)
(***************************************************************************)
BuildFairness ==
    /\ WF_allVars(BuildPrepare) /\ WF_allVars(BuildStartVM)
    /\ WF_allVars(BuildNotify) /\ WF_allVars(BuildSelect)
    /\ WF_allVars(BuildWaitDone) /\ WF_allVars(BuildPackage)
    /\ WF_allVars(Alive /\ (StartSpawn \/ StartSelect \/ StartRecordError
                            \/ StartKill) /\ UNCHANGED bvars)
    /\ WF_allVars(Alive /\ (MonitorDone \/ MonitorTimeout) /\ UNCHANGED bvars)
    /\ \A f \in SocketFiles :
          WF_allVars(Alive /\ MonitorEvent(f) /\ UNCHANGED bvars)
    /\ WF_allVars(Alive /\ ExitWatcher /\ UNCHANGED bvars)
    /\ WF_allVars(QemuKilledExit /\ UNCHANGED bvars)

BuildSpec == BuildInit /\ [][BuildNext]_allVars

BuildFairSpec == BuildSpec /\ BuildFairness

-----------------------------------------------------------------------------
(* Properties.                                                             *)

\* buildImage packages the image only once QEMU has exited by itself with
\* status 0 and the VM has released network, image and socket folder: an
\* interrupt, a spawn or readiness failure, or a killed QEMU never leads
\* to packaging a disk that QEMU may still write.
PackageAfterCleanExit ==
    bpc = "package" =>
        /\ q = "exited" /\ exitErr = "nil"
        /\ network = "released" /\ image = "released" /\ folder = "removed"

\* An interrupt buildImage has received ends the build: machine.Kill()
\* makes QEMU exit, the exit watcher closes Done and buildImage returns.
InterruptEndsBuild ==
    (bpc = "select" /\ sigQueued) ~> (bpc \in {"returned", "killed"})

=============================================================================
