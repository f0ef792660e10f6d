---------------------------- MODULE BuildImageProofs ----------------------------
(***************************************************************************)
(* Proof that buildImage packages the image only after QEMU exited by     *)
(* itself with status 0 and the VM released its resources, for every set  *)
(* of socket files, both environment constants and any number of SIGINTs. *)
(* Every step of the composition is a step of the VM or leaves the VM's    *)
(* variables alone, so the VM's inductive invariant carries over; on top   *)
(* of it, a Done closed with a nil vm.Error was closed by the exit watcher *)
(* after a clean exit, and a nil err past the select came from such a Done.*)
(***************************************************************************)
EXTENDS BuildImage, VMProofs

\* The exit watcher runs only for a QEMU that was started.
WatchedStarted == ew = "waiting" => q # "notStarted"

\* Done closed while vm.Error is nil: only the exit watcher closes Done
\* without an error, and it does so after a clean exit and the releases.
CleanDone ==
    (DoneClosed /\ vmErr = "nil") =>
        /\ q = "exited" /\ exitErr = "nil"
        /\ network = "released" /\ image = "released" /\ folder = "removed"

\* The builder past Start: Start has returned, and a nil err is the
\* machine.Error of a closed Done.
BuildOK ==
    /\ bpc \in {"select", "waitDone", "package"} => st = "returned"
    /\ bpc \in {"waitDone", "package"} /\ berr = "nil" =>
           DoneClosed /\ vmErr = "nil"
    /\ bpc = "package" => berr = "nil"

BIInv == VIInv /\ WatchedStarted /\ CleanDone /\ BuildOK

-----------------------------------------------------------------------------

LEMMA BuildInitIInv == BuildInit => BIInv
<1> SUFFICES ASSUME BuildInit PROVE BIInv
    OBVIOUS
<1>1. VIInv
    BY VMInitIInv DEF BuildInit
<1>2. WatchedStarted /\ CleanDone /\ BuildOK
    BY DEF BuildInit, Init, WatchedStarted, CleanDone, BuildOK, DoneClosed
<1>. QED
    BY <1>1, <1>2 DEF BIInv

\* The select's machine.Kill() is the VM's Kill or changes nothing.
LEMMA SelectKillIsVMStep ==
    ASSUME VIInv, st = "returned", KillEffect,
           UNCHANGED <<started, st, exitErr, socks, mon, seen, monErr, ready,
                       reported, ew, vmErr, network, image, folder, closes,
                       handler>>
    PROVE  [Next]_vars
<1>1. CASE ~DoneClosed /\ q = "running"
    BY <1>1 DEF KillEffect, Kill, Next
<1>2. CASE ~(~DoneClosed /\ q = "running")
    BY <1>2 DEF KillEffect, vars
<1>. QED
    BY <1>1, <1>2

\* Every step of the composition is a step of the VM or a VM stutter.
LEMMA BuildStepIsVMStep ==
    BIInv /\ [BuildNext]_allVars => [Next]_vars
<1> SUFFICES ASSUME BIInv, [BuildNext]_allVars PROVE [Next]_vars
    OBVIOUS
<1>1. CASE BuildPrepare \/ BuildNotify \/ SigInt \/ BuildWaitDone
           \/ BuildPackage
    BY <1>1 DEF BuildPrepare, BuildNotify, SigInt, BuildWaitDone, BuildPackage
<1>2. CASE BuildStartVM
    BY <1>2 DEF BuildStartVM, Next
<1>3. CASE BuildSelect
  <2>1. st = "returned"
      BY <1>3 DEF BuildSelect, BIInv, BuildOK
  <2>2. CASE sigQueued' = FALSE /\ KillEffect /\ berr' = "interrupted"
      BY <1>3, <2>1, <2>2, SelectKillIsVMStep DEF BuildSelect, BIInv
  <2>3. CASE UNCHANGED <<sigQueued, q>> /\ berr' = vmErr
      BY <1>3, <2>3 DEF BuildSelect, vars
  <2>. QED
      BY <1>3, <2>2, <2>3 DEF BuildSelect
<1>4. CASE VMStep
    BY <1>4 DEF VMStep, Next
<1>5. CASE UNCHANGED allVars
    BY <1>5 DEF allVars
<1>. QED
    BY <1>1, <1>2, <1>3, <1>4, <1>5 DEF BuildNext

\* The two VM facts are preserved by every VM step.
LEMMA NextCleanDone ==
    VIInv /\ WatchedStarted /\ CleanDone /\ [Next]_vars
        => WatchedStarted' /\ CleanDone'
<1> SUFFICES ASSUME VIInv, WatchedStarted, CleanDone, [Next]_vars
             PROVE  WatchedStarted' /\ CleanDone'
    OBVIOUS
<1>. USE DEF VIInv, WatchedStarted, CleanDone, DoneClosed, CloseCount,
           StageOK, VMTypeOK
<1>1. CASE StartBegin
    BY <1>1 DEF StartBegin
<1>2. CASE StartSpawn
    BY <1>2 DEF StartSpawn
<1>3. CASE StartSelect \/ SetHTTPHandler
    BY <1>3 DEF StartSelect, SetHTTPHandler
<1>4. CASE StartRecordError
    BY <1>4 DEF StartRecordError, SentOK, VMTypeOK
<1>5. CASE StartKill \/ Kill
    BY <1>5 DEF StartKill, Kill, KillEffect
<1>6. ASSUME NEW f \in SocketFiles, QemuCreateSocket(f) \/ MonitorEvent(f)
      PROVE  WatchedStarted' /\ CleanDone'
    BY <1>6 DEF QemuCreateSocket, MonitorEvent
<1>7. CASE QemuExit \/ QemuKilledExit
    BY <1>7 DEF QemuExit, QemuKilledExit
<1>8. CASE MonitorDone \/ MonitorTimeout \/ MonitorFsError
    BY <1>8 DEF MonitorDone, MonitorTimeout, MonitorFsError, MonitorFail
<1>9. CASE ExitWatcher
    BY <1>9 DEF ExitWatcher
<1>10. CASE UNCHANGED vars
    BY <1>10 DEF vars
<1>. QED
    BY <1>1, <1>2, <1>3, <1>4, <1>5, <1>6, <1>7, <1>8, <1>9, <1>10 DEF Next

\* Once Done is closed with a nil vm.Error, it stays so: Start's own
\* closes come with an error, the exit watcher has run, and Start's
\* recording keeps a nil vm.Error nil.
LEMMA CleanDoneStable ==
    ASSUME VIInv, [Next]_vars, DoneClosed, vmErr = "nil"
    PROVE  DoneClosed' /\ vmErr' = "nil"
<1>. USE DEF VIInv, VMTypeOK, DoneClosed
<1>1. st \notin {"idle", "spawn"} /\ ew # "waiting"
    BY DEF CloseCount, StageOK
<1>2. CASE StartBegin \/ StartSpawn
    BY <1>1, <1>2 DEF StartBegin, StartSpawn
<1>3. CASE StartSelect \/ SetHTTPHandler \/ StartKill \/ Kill
    BY <1>3 DEF StartSelect, SetHTTPHandler, StartKill, Kill
<1>4. CASE StartRecordError
    BY <1>4 DEF StartRecordError
<1>5. ASSUME NEW f \in SocketFiles, QemuCreateSocket(f) \/ MonitorEvent(f)
      PROVE  DoneClosed' /\ vmErr' = "nil"
    BY <1>5 DEF QemuCreateSocket, MonitorEvent
<1>6. CASE QemuExit \/ QemuKilledExit \/ MonitorDone \/ MonitorTimeout
           \/ MonitorFsError
    BY <1>6 DEF QemuExit, QemuKilledExit, MonitorDone, MonitorTimeout,
       MonitorFsError, MonitorFail
<1>7. CASE ExitWatcher
    BY <1>1, <1>7 DEF ExitWatcher
<1>8. CASE UNCHANGED vars
    BY <1>8 DEF vars
<1>. QED
    BY <1>2, <1>3, <1>4, <1>5, <1>6, <1>7, <1>8 DEF Next

\* The builder's fact is preserved by every step of the composition.
LEMMA NextBuildOK ==
    BIInv /\ [BuildNext]_allVars /\ [Next]_vars => BuildOK'
<1> SUFFICES ASSUME BIInv, [BuildNext]_allVars, [Next]_vars
             PROVE  BuildOK'
    OBVIOUS
<1>1. DoneClosed /\ vmErr = "nil" => DoneClosed' /\ vmErr' = "nil"
    BY CleanDoneStable DEF BIInv
<1>. USE DEF BIInv, BuildOK
<1>2. CASE BuildPrepare
  <2>1. bpc' \in {"start", "returned"}
      BY <1>2 DEF BuildPrepare
  <2>. QED  BY <2>1
<1>9. CASE BuildNotify
    BY <1>9 DEF BuildNotify, vars, DoneClosed
<1>10. CASE SigInt
    BY <1>10 DEF SigInt, vars, DoneClosed
<1>3. CASE BuildStartVM
    BY <1>3 DEF BuildStartVM, StartBegin, bvars
<1>4. CASE BuildSelect
    BY <1>4 DEF BuildSelect, KillEffect, DoneClosed
<1>5. CASE BuildWaitDone
    BY <1>5 DEF BuildWaitDone, DoneClosed, vars
<1>6. CASE BuildPackage
    BY <1>6 DEF BuildPackage
<1>7. CASE VMStep
  <2>1. UNCHANGED <<bpc, berr>>
      BY <1>7 DEF VMStep, bvars
  <2>2. st = "returned" => st' = "returned"
      BY <1>7 DEF VMStep, StartSpawn, StartSelect, StartRecordError,
         StartKill, QemuCreateSocket, MonitorEvent, QemuExit, QemuKilledExit,
         MonitorDone, MonitorTimeout, MonitorFsError, MonitorFail, ExitWatcher
  <2>. QED
      BY <1>1, <2>1, <2>2
<1>8. CASE UNCHANGED allVars
  <2>1. UNCHANGED <<bpc, berr, st, vmErr, closes>>
      BY <1>8 DEF allVars, vars, bvars
  <2>. QED
      BY <2>1 DEF DoneClosed
<1>. QED
    BY <1>2, <1>3, <1>4, <1>5, <1>6, <1>7, <1>8, <1>9, <1>10 DEF BuildNext

LEMMA NextBIInv == BIInv /\ [BuildNext]_allVars => BIInv'
<1> SUFFICES ASSUME BIInv, [BuildNext]_allVars PROVE BIInv'
    OBVIOUS
<1>1. [Next]_vars
    BY BuildStepIsVMStep
<1>2. VIInv'
    BY <1>1, VMNextIInv DEF BIInv
<1>3. WatchedStarted' /\ CleanDone'
    BY <1>1, NextCleanDone DEF BIInv
<1>4. BuildOK'
    BY <1>1, NextBuildOK
<1>. QED
    BY <1>2, <1>3, <1>4 DEF BIInv

-----------------------------------------------------------------------------
(* Theorem.                                                                *)

\* buildImage reaches img.Package only after QEMU exited by itself with
\* status 0 and the VM released network, image and socket folder, whatever
\* the SIGINTs, spawn failures and readiness errors on the way.
THEOREM PackageAfterCleanExitHolds == BuildSpec => []PackageAfterCleanExit
<1>1. BIInv => PackageAfterCleanExit
    BY DEF BIInv, BuildOK, CleanDone, PackageAfterCleanExit
<1>. QED
    BY <1>1, BuildInitIInv, NextBIInv, PTL DEF BuildSpec
\* The VM that buildImage drives still implements the lifecycle of spec
\* 4.3: buildImage's own steps, its SIGINT handling and its select's
\* machine.Kill() never make the VM take a step the lifecycle forbids.
THEOREM BuildVMLifecycle == BuildSpec => ImplementsLifecycle
<1>1. BuildSpec => []BIInv
    BY BuildInitIInv, NextBIInv, PTL DEF BuildSpec
<1>2. []BIInv /\ [][BuildNext]_allVars => [][Next]_vars
    BY BuildStepIsVMStep, PTL
<1>3. BuildSpec => Spec
    BY <1>1, <1>2, PTL DEF BuildSpec, BuildInit, Spec
<1>. QED
    BY <1>3, VMImplementsLifecycle

=============================================================================
