------------------------------- MODULE VMProofs -------------------------------
(***************************************************************************)
(* Proofs about the QEMU virtual machine supervisor of module VM, for     *)
(* every set of socket files and both values of the environment constants: *)
(* type correctness and that vm.qemuDone is closed at most once.  The      *)
(* inductive invariant counts the close sites that have run: Start closes  *)
(* Done only on a path that returns without launching the exit watcher,   *)
(* and the exit watcher closes it once.                                    *)
(***************************************************************************)
EXTENDS VM, TLAPS

\* Each executed close(vm.qemuDone) is accounted for: the exit watcher's,
\* or Start's on a return that never launched the exit watcher.
CloseCount ==
    closes = (IF ew = "done" THEN 1 ELSE 0)
             + (IF st = "returned" /\ ew = "none" THEN 1 ELSE 0)

\* Start launches the exit watcher exactly when it passes the spawn.
StageOK ==
    /\ st \in {"idle", "spawn"} => ew = "none"
    /\ st \in {"select", "record", "kill"} => ew # "none"

\* An error the monitor sends, and hence one Start received, is an error.
SentOK ==
    /\ mon = "sending" => monErr # "none"
    /\ st = "record" => reported # "none"

VIInv == VMTypeOK /\ CloseCount /\ StageOK /\ SentOK

\* socketsReady is closed only when the monitor has seen every socket.
ReadyOK == ready => seen = SocketFiles

\* The exit watcher is launched only for a QEMU that was started.
WatchedSpawned == ew # "none" => q # "notStarted"

\* QEMU is spawned only when Start passes vm.qemu.Start().
NotSpawnedYet == st \in {"idle", "spawn"} => q = "notStarted"

\* The inductive invariant of DoneMeansStopped.
SIInv == VIInv /\ NotSpawnedYet /\ DoneMeansStopped

\* The inductive invariant of StartReturnsReadyOrDone.
RIInv == VIInv /\ ReadyOK /\ WatchedSpawned /\ StartReturnsReadyOrDone

\* The monitor sees only sockets QEMU created, and QEMU creates them only
\* once it has been spawned.
SocketsSpawned ==
    /\ seen \subseteq socks
    /\ socks # {} => q # "notStarted"

\* The invariant the refinement of VMLifecycle rests on.
LIInv == SIInv /\ RIInv /\ SocketsSpawned

-----------------------------------------------------------------------------

\* The initial state satisfies the inductive invariant.
LEMMA VMInitIInv == Init => VIInv
<1> SUFFICES ASSUME Init PROVE VIInv
    OBVIOUS
<1>1. VMTypeOK
    BY DEF Init, VMTypeOK, Errors
<1>2. CloseCount /\ StageOK /\ SentOK
    BY DEF Init, CloseCount, StageOK, SentOK
<1>. QED
    BY <1>1, <1>2 DEF VIInv

\* Every step of Next preserves the inductive invariant.
LEMMA VMNextIInv == VIInv /\ [Next]_vars => VIInv'
<1> SUFFICES ASSUME VIInv, [Next]_vars PROVE VIInv'
    OBVIOUS
<1>. USE VMConstAssumption DEF VIInv
<1>1. CASE StartBegin
    BY <1>1 DEF StartBegin, VMTypeOK, CloseCount, StageOK, SentOK, Errors
<1>2. CASE StartSpawn
    BY <1>2 DEF StartSpawn, VMTypeOK, CloseCount, StageOK, SentOK, Errors
<1>3. CASE StartSelect
    BY <1>3 DEF StartSelect, VMTypeOK, CloseCount, StageOK, SentOK
<1>4. CASE StartRecordError
    BY <1>4 DEF StartRecordError, VMTypeOK, CloseCount, StageOK, SentOK, Errors
<1>5. CASE StartKill \/ Kill
    BY <1>5 DEF StartKill, Kill, KillEffect, VMTypeOK, CloseCount, StageOK,
       SentOK
<1>6. CASE SetHTTPHandler
    BY <1>6 DEF SetHTTPHandler, VMTypeOK, CloseCount, StageOK, SentOK
<1>7. ASSUME NEW f \in SocketFiles, QemuCreateSocket(f) PROVE VIInv'
    BY <1>7 DEF QemuCreateSocket, VMTypeOK, CloseCount, StageOK, SentOK
<1>8. ASSUME NEW f \in SocketFiles, MonitorEvent(f) PROVE VIInv'
  <2>1. /\ seen' \in SUBSET SocketFiles
        /\ mon' \in {"watching", "stopped"} /\ ready' \in BOOLEAN
      BY <1>8 DEF MonitorEvent, VMTypeOK
  <2>2. UNCHANGED <<started, st, q, exitErr, socks, monErr, reported, ew,
                    vmErr, network, image, folder, closes, handler>>
      BY <1>8 DEF MonitorEvent
  <2>. QED
      BY <2>1, <2>2 DEF VMTypeOK, CloseCount, StageOK, SentOK
<1>9. CASE QemuExit \/ QemuKilledExit
    BY <1>9 DEF QemuExit, QemuKilledExit, VMTypeOK, CloseCount, StageOK, SentOK
<1>10. CASE MonitorDone \/ MonitorTimeout \/ MonitorFsError
    BY <1>10 DEF MonitorDone, MonitorTimeout, MonitorFsError, MonitorFail,
       VMTypeOK, CloseCount, StageOK, SentOK
<1>11. CASE ExitWatcher
    BY <1>11 DEF ExitWatcher, VMTypeOK, CloseCount, StageOK, SentOK, Errors
<1>12. CASE UNCHANGED vars
    BY <1>12 DEF vars, VMTypeOK, CloseCount, StageOK, SentOK
<1>. QED
    BY <1>1, <1>2, <1>3, <1>4, <1>5, <1>6, <1>7, <1>8, <1>9, <1>10, <1>11,
       <1>12 DEF Next

\* The initial state satisfies RIInv.
LEMMA VMInitRIInv == Init => RIInv
BY VMInitIInv DEF Init, RIInv, ReadyOK, WatchedSpawned,
   StartReturnsReadyOrDone

\* Every step keeps ReadyOK and WatchedSpawned.
LEMMA VMNextReadySpawned ==
    VIInv /\ ReadyOK /\ WatchedSpawned /\ [Next]_vars
        => ReadyOK' /\ WatchedSpawned'
<1> SUFFICES ASSUME VIInv, ReadyOK, WatchedSpawned, [Next]_vars
             PROVE  ReadyOK' /\ WatchedSpawned'
    OBVIOUS
<1>. USE VMConstAssumption DEF VIInv, ReadyOK, WatchedSpawned
<1>1. ASSUME NEW f \in SocketFiles, MonitorEvent(f)
      PROVE  ReadyOK' /\ WatchedSpawned'
  <2>1. seen' \subseteq SocketFiles
      BY <1>1 DEF MonitorEvent, VMTypeOK
  <2>2. CASE EventNameBase
      BY <1>1, <2>1, <2>2 DEF MonitorEvent, Flagged
  <2>3. CASE ~EventNameBase
      BY <1>1, <2>3 DEF MonitorEvent, Flagged
  <2>. QED  BY <2>2, <2>3
<1>2. CASE QemuExit \/ QemuKilledExit \/ StartKill \/ Kill
    BY <1>2 DEF QemuExit, QemuKilledExit, StartKill, Kill, KillEffect
<1>3. CASE StartBegin \/ StartSpawn \/ StartSelect \/ StartRecordError
           \/ SetHTTPHandler \/ ExitWatcher
    BY <1>3 DEF StartBegin, StartSpawn, StartSelect, StartRecordError,
       SetHTTPHandler, ExitWatcher
<1>4. ASSUME NEW f \in SocketFiles, QemuCreateSocket(f)
      PROVE  ReadyOK' /\ WatchedSpawned'
    BY <1>4 DEF QemuCreateSocket
<1>5. CASE MonitorDone \/ MonitorTimeout \/ MonitorFsError
    BY <1>5 DEF MonitorDone, MonitorTimeout, MonitorFsError, MonitorFail
<1>6. CASE UNCHANGED vars
    BY <1>6 DEF vars
<1>. QED
    BY <1>1, <1>2, <1>3, <1>4, <1>5, <1>6 DEF Next

\* Once Start has returned, each reason it may return with Done open
\* survives every step: all sockets seen, or QEMU killed or exited.
LEMMA ReturnedStable ==
    ASSUME VIInv, st = "returned", [Next]_vars,
           seen = SocketFiles \/ q \in {"killed", "exited"}
    PROVE  seen' = SocketFiles \/ q' \in {"killed", "exited"}
<1>. USE DEF VIInv, VMTypeOK
<1>1. CASE seen = SocketFiles
  <2>1. seen \subseteq seen'
      BY DEF Next, vars, StartBegin, StartSpawn, StartSelect,
         StartRecordError, StartKill, Kill, SetHTTPHandler, QemuCreateSocket,
         QemuExit, QemuKilledExit, MonitorEvent, MonitorDone, MonitorTimeout,
         MonitorFsError, MonitorFail, ExitWatcher
  <2>2. seen' \subseteq SocketFiles
      BY VMNextIInv DEF VIInv, VMTypeOK
  <2>. QED  BY <1>1, <2>1, <2>2
<1>2. CASE q \in {"killed", "exited"}
    BY <1>2 DEF Next, vars, StartBegin, StartSpawn, StartSelect,
       StartRecordError, StartKill, Kill, KillEffect, SetHTTPHandler,
       QemuCreateSocket, QemuExit, QemuKilledExit, MonitorEvent, MonitorDone,
       MonitorTimeout, MonitorFsError, MonitorFail, ExitWatcher
<1>. QED  BY <1>1, <1>2

\* Every step keeps StartReturnsReadyOrDone.
LEMMA VMNextReturns ==
    RIInv /\ [Next]_vars => StartReturnsReadyOrDone'
<1> SUFFICES ASSUME RIInv, [Next]_vars, st' = "returned", ~DoneClosed'
             PROVE  seen' = SocketFiles \/ q' \in {"killed", "exited"}
    BY DEF StartReturnsReadyOrDone
<1>. USE VMConstAssumption DEF RIInv, VIInv
<1>1. closes <= closes'
    BY DEF Next, vars, VMTypeOK, StartBegin, StartSpawn, StartSelect,
       StartRecordError, StartKill, Kill, SetHTTPHandler, QemuCreateSocket,
       QemuExit, QemuKilledExit, MonitorEvent, MonitorDone, MonitorTimeout,
       MonitorFsError, MonitorFail, ExitWatcher
<1>2. ~DoneClosed
  <2>1. closes' \in Nat
      BY VMNextIInv DEF VMTypeOK
  <2>. QED  BY <1>1, <2>1 DEF DoneClosed, VMTypeOK
<1>3. CASE st = "returned"
    BY <1>2, <1>3, ReturnedStable DEF StartReturnsReadyOrDone
<1>4. CASE st = "kill"
  <2>1. StartKill
      BY <1>4 DEF Next, vars, StartBegin, StartSpawn, StartSelect,
         StartRecordError, Kill, SetHTTPHandler, QemuCreateSocket, QemuExit,
         QemuKilledExit, MonitorEvent, MonitorDone, MonitorTimeout,
         MonitorFsError, MonitorFail, ExitWatcher
  <2>2. q # "notStarted"
      BY <1>4 DEF StageOK, WatchedSpawned
  <2>. QED
      BY <1>2, <2>1, <2>2 DEF StartKill, KillEffect, VMTypeOK
<1>5. CASE st = "select"
  <2>1. StartSelect /\ (ready \/ DoneClosed)
      BY <1>5 DEF Next, vars, StartBegin, StartSpawn, StartRecordError,
         StartKill, Kill, SetHTTPHandler, QemuCreateSocket, QemuExit,
         QemuKilledExit, MonitorEvent, MonitorDone, MonitorTimeout,
         MonitorFsError, MonitorFail, ExitWatcher, StartSelect
  <2>. QED
      BY <1>2, <2>1 DEF StartSelect, ReadyOK
<1>6. CASE st \in {"idle", "spawn"}
    BY <1>6 DEF Next, vars, StartBegin, StartSpawn, StartSelect,
       StartRecordError, StartKill, Kill, SetHTTPHandler, QemuCreateSocket,
       QemuExit, QemuKilledExit, MonitorEvent, MonitorDone, MonitorTimeout,
       MonitorFsError, MonitorFail, ExitWatcher, DoneClosed, VMTypeOK
<1>7. CASE st = "record"
    BY <1>7 DEF Next, vars, StartBegin, StartSpawn, StartSelect,
       StartRecordError, StartKill, Kill, SetHTTPHandler, QemuCreateSocket,
       QemuExit, QemuKilledExit, MonitorEvent, MonitorDone, MonitorTimeout,
       MonitorFsError, MonitorFail, ExitWatcher
<1>. QED
    BY <1>3, <1>4, <1>5, <1>6, <1>7 DEF VMTypeOK

\* Every step preserves RIInv.
LEMMA VMNextRIInv == RIInv /\ [Next]_vars => RIInv'
BY VMNextIInv, VMNextReadySpawned, VMNextReturns DEF RIInv

\* The initial state satisfies SIInv.
LEMMA VMInitSIInv == Init => SIInv
BY VMInitIInv DEF Init, SIInv, NotSpawnedYet, DoneMeansStopped, DoneClosed

\* Every step preserves SIInv.  Done is closed by Start before the spawn
\* and by the exit watcher after the exit; neither a spawn nor a kill
\* touches QEMU once Done is closed.
LEMMA VMNextSIInv == SIInv /\ [Next]_vars => SIInv'
<1> SUFFICES ASSUME SIInv, [Next]_vars PROVE SIInv'
    OBVIOUS
<1>1. VIInv'
    BY VMNextIInv DEF SIInv
<1>. USE DEF SIInv, VIInv, NotSpawnedYet, DoneMeansStopped, DoneClosed
<1>2. CASE StartBegin \/ StartSpawn
    BY <1>1, <1>2 DEF StartBegin, StartSpawn, CloseCount, StageOK, VMTypeOK
<1>3. CASE StartSelect \/ StartRecordError \/ SetHTTPHandler
    BY <1>1, <1>3 DEF StartSelect, StartRecordError, SetHTTPHandler
<1>4. CASE StartKill \/ Kill
    BY <1>1, <1>4 DEF StartKill, Kill, KillEffect
<1>5. ASSUME NEW f \in SocketFiles, QemuCreateSocket(f) \/ MonitorEvent(f)
      PROVE  SIInv'
    BY <1>1, <1>5 DEF QemuCreateSocket, MonitorEvent
<1>6. CASE QemuExit \/ QemuKilledExit
    BY <1>1, <1>6 DEF QemuExit, QemuKilledExit
<1>7. CASE MonitorDone \/ MonitorTimeout \/ MonitorFsError
    BY <1>1, <1>7 DEF MonitorDone, MonitorTimeout, MonitorFsError, MonitorFail
<1>8. CASE ExitWatcher
    BY <1>1, <1>8 DEF ExitWatcher
<1>9. CASE UNCHANGED vars
    BY <1>1, <1>9 DEF vars
<1>. QED
    BY <1>1, <1>2, <1>3, <1>4, <1>5, <1>6, <1>7, <1>8, <1>9 DEF Next

\* Every step keeps SocketsSpawned.
LEMMA VMNextSocketsSpawned ==
    VIInv /\ SocketsSpawned /\ [Next]_vars => SocketsSpawned'
<1> SUFFICES ASSUME VIInv, SocketsSpawned, [Next]_vars
             PROVE  SocketsSpawned'
    OBVIOUS
<1>. USE DEF SocketsSpawned
<1>1. ASSUME NEW f \in SocketFiles, QemuCreateSocket(f) \/ MonitorEvent(f)
      PROVE  SocketsSpawned'
    BY <1>1 DEF QemuCreateSocket, MonitorEvent
<1>2. CASE QemuExit \/ QemuKilledExit \/ StartKill \/ Kill
    BY <1>2 DEF QemuExit, QemuKilledExit, StartKill, Kill, KillEffect
<1>3. CASE StartBegin \/ StartSpawn \/ StartSelect \/ StartRecordError
           \/ SetHTTPHandler \/ ExitWatcher \/ MonitorDone \/ MonitorTimeout
           \/ MonitorFsError
    BY <1>3 DEF StartBegin, StartSpawn, StartSelect, StartRecordError,
       SetHTTPHandler, ExitWatcher, MonitorDone, MonitorTimeout,
       MonitorFsError, MonitorFail
<1>4. CASE UNCHANGED vars
    BY <1>4 DEF vars
<1>. QED
    BY <1>1, <1>2, <1>3, <1>4 DEF Next

\* The initial state satisfies LIInv.
LEMMA VMInitLIInv == Init => LIInv
BY VMInitSIInv, VMInitRIInv DEF Init, LIInv, SocketsSpawned

\* Every step preserves LIInv.
LEMMA VMNextLIInv == LIInv /\ [Next]_vars => LIInv'
BY VMNextSIInv, VMNextRIInv, VMNextSocketsSpawned DEF LIInv, RIInv

\* The initial state maps to the lifecycle's initial state.
LEMMA VMInitRefines == Init => Lifecycle!AInit
BY DEF Init, Lifecycle!AInit, DoneClosed, StartPhase

\* Before the spawn nothing has closed Done and QEMU is not started.
LEMMA BeforeSpawn ==
    ASSUME LIInv, st \in {"idle", "spawn"}
    PROVE  ~DoneClosed /\ q = "notStarted"
BY DEF LIInv, SIInv, VIInv, CloseCount, StageOK, NotSpawnedYet, DoneClosed

\* From the spawn on, QEMU has been started, and while the exit watcher
\* waits Done is open.
LEMMA AfterSpawn ==
    ASSUME LIInv
    PROVE  /\ st \in {"select", "record", "kill"} => q # "notStarted"
           /\ ew = "waiting" => ~DoneClosed /\ q # "notStarted"
BY DEF LIInv, RIInv, VIInv, CloseCount, StageOK, WatchedSpawned, DoneClosed,
   VMTypeOK

\* Every step of the supervisor is a step of the lifecycle or leaves its
\* image unchanged.
LEMMA VMNextRefines ==
    LIInv /\ [Next]_vars => [Lifecycle!ANext]_Lifecycle!avars
<1> SUFFICES ASSUME LIInv, [Next]_vars
             PROVE  [Lifecycle!ANext]_Lifecycle!avars
    OBVIOUS
<1>. DEFINE Stutter == UNCHANGED <<q, closes, ready>> /\ StartPhase' = StartPhase
<1>0. Stutter => UNCHANGED Lifecycle!avars
    BY DEF Lifecycle!avars, DoneClosed
<1>00. UNCHANGED <<q, closes, ready, st>> => UNCHANGED Lifecycle!avars
    BY DEF Lifecycle!avars, DoneClosed, StartPhase
<1>. USE DEF Lifecycle!ANext, DoneClosed
<1>1. CASE StartBegin
  <2>1. ~DoneClosed /\ q = "notStarted"
      BY <1>1, BeforeSpawn DEF StartBegin
  <2>2. CASE SocketFolderExists
      BY <1>1, <2>1, <2>2 DEF StartBegin, Lifecycle!ABegin, StartPhase,
         DoneClosed
  <2>3. CASE ~SocketFolderExists
      BY <1>1, <2>1, <2>3 DEF StartBegin, Lifecycle!AStartFail, StartPhase,
         DoneClosed, LIInv, SIInv, VIInv, VMTypeOK
  <2>. QED  BY <2>2, <2>3
<1>2. CASE StartSpawn
  <2>1. ~DoneClosed /\ q = "notStarted"
      BY <1>2, BeforeSpawn DEF StartSpawn
  <2>2. CASE q' = "running"
      BY <1>2, <2>1, <2>2 DEF StartSpawn, Lifecycle!ASpawn, StartPhase,
         DoneClosed
  <2>3. CASE q' # "running"
      BY <1>2, <2>1, <2>3 DEF StartSpawn, Lifecycle!AStartFail, StartPhase,
         DoneClosed, LIInv, SIInv, VIInv, VMTypeOK
  <2>. QED  BY <2>2, <2>3
<1>3. CASE StartSelect
  <2>1. q # "notStarted"
      BY <1>3, AfterSpawn DEF StartSelect
  <2>2. CASE st' = "record"
      BY <1>0, <1>3, <2>2 DEF StartSelect, StartPhase, Stutter
  <2>3. CASE st' = "returned"
      BY <1>3, <2>1, <2>3 DEF StartSelect, Lifecycle!AReturn, StartPhase
  <2>. QED  BY <1>3, <2>2, <2>3 DEF StartSelect
<1>4. CASE StartRecordError
    BY <1>0, <1>4 DEF StartRecordError, StartPhase, Stutter
<1>5. CASE StartKill
  <2>1. q # "notStarted"
      BY <1>5, AfterSpawn DEF StartKill
  <2>. QED
      BY <1>5, <2>1 DEF StartKill, KillEffect, Lifecycle!AGiveUp,
         Lifecycle!KillStep, StartPhase
<1>6. CASE Kill
    BY <1>6 DEF Kill, KillEffect, Lifecycle!AKill, StartPhase
<1>7. CASE SetHTTPHandler \/ MonitorDone \/ MonitorTimeout \/ MonitorFsError
    BY <1>00, <1>7 DEF SetHTTPHandler, MonitorDone, MonitorTimeout,
       MonitorFsError, MonitorFail
<1>8. ASSUME NEW f \in SocketFiles, QemuCreateSocket(f)
      PROVE  [Lifecycle!ANext]_Lifecycle!avars
    BY <1>00, <1>8 DEF QemuCreateSocket
<1>9. ASSUME NEW f \in SocketFiles, MonitorEvent(f)
      PROVE  [Lifecycle!ANext]_Lifecycle!avars
  <2>1. CASE ready' = ready
      BY <1>00, <1>9, <2>1 DEF MonitorEvent
  <2>2. CASE ready' # ready
    <3>1. q # "notStarted"
        BY <1>9 DEF MonitorEvent, LIInv, SocketsSpawned
    <3>2. ~ready /\ ready' = TRUE
        BY <1>9, <2>2 DEF MonitorEvent, LIInv, RIInv, VIInv, VMTypeOK
    <3>. QED
        BY <1>9, <3>1, <3>2 DEF MonitorEvent, Lifecycle!AReady, StartPhase,
           DoneClosed
  <2>. QED  BY <2>1, <2>2
<1>10. CASE QemuExit \/ QemuKilledExit
    BY <1>10 DEF QemuExit, QemuKilledExit, Lifecycle!AExit, StartPhase,
       DoneClosed
<1>11. CASE ExitWatcher
  <2>1. ~DoneClosed /\ q = "exited"
      BY <1>11, AfterSpawn DEF ExitWatcher
  <2>. QED
      BY <1>11, <2>1 DEF ExitWatcher, Lifecycle!AClose, StartPhase,
         DoneClosed, LIInv, SIInv, VIInv, VMTypeOK
<1>12. CASE UNCHANGED vars
    BY <1>00, <1>12 DEF vars
<1>. QED
    BY <1>1, <1>2, <1>3, <1>4, <1>5, <1>6, <1>7, <1>8, <1>9, <1>10, <1>11,
       <1>12 DEF Next

-----------------------------------------------------------------------------
(* Theorems.                                                               *)

\* Every reachable state of the VM supervisor is well typed; in particular
\* vm.Error only ever holds one of the errors of Start, the monitor or
\* qemu.Wait(), never the nil a failed monitor could not have sent.
THEOREM VMTypeCorrect == Spec => []VMTypeOK
<1>1. VIInv => VMTypeOK
    BY DEF VIInv
<1>. QED
    BY <1>1, VMInitIInv, VMNextIInv, PTL DEF Spec

\* vm.qemuDone is closed at most once on every path of Start and the exit
\* watcher, so no close of a closed channel panics, for every set of socket
\* files, whether or not the socket folder exists.
THEOREM DoneClosedOnceHolds == Spec => []DoneClosedOnce
<1>1. VIInv => DoneClosedOnce
    BY DEF VIInv, CloseCount, VMTypeOK, DoneClosedOnce
<1>. QED
    BY <1>1, VMInitIInv, VMNextIInv, PTL DEF Spec

\* vm.Done is closed only once QEMU has exited or when it never started,
\* so Kill's early return on a closed Done ("we're obviously not running")
\* never spares a live QEMU, on every path of Start and the exit watcher.
THEOREM DoneMeansStoppedHolds == Spec => []DoneMeansStopped
<1>1. SIInv => DoneMeansStopped
    BY DEF SIInv
<1>. QED
    BY <1>1, VMInitSIInv, VMNextSIInv, PTL DEF Spec

\* Start returns with QEMU still running and Done open only when the
\* monitor saw both control sockets: a timeout or watcher error makes it
\* kill QEMU, and a spawn or watch failure closes Done; so the engine never
\* gets a VM that is neither ready nor on its way down.
THEOREM StartReturnsReadyOrDoneHolds == Spec => []StartReturnsReadyOrDone
<1>1. RIInv => StartReturnsReadyOrDone
    BY DEF RIInv
<1>. QED
    BY <1>1, VMInitRIInv, VMNextRIInv, PTL DEF Spec

\* The supervisor implements the VM lifecycle of spec 4.3 (VMLifecycle):
\* every behaviour of Start, the monitor, the exit watcher, Kill and QEMU
\* is, seen through q, Done, the phase of Start and socketsReady, a
\* behaviour of the lifecycle, for every set of sockets and both values
\* of the environment constants.
THEOREM VMImplementsLifecycle == Spec => ImplementsLifecycle
<1>1. Spec => []LIInv
    BY VMInitLIInv, VMNextLIInv, PTL DEF Spec
<1>2. []LIInv /\ [][Next]_vars => [][Lifecycle!ANext]_Lifecycle!avars
    BY VMNextRefines, PTL
<1>. QED
    BY <1>1, <1>2, VMInitRefines, PTL
    DEF Spec, ImplementsLifecycle, Lifecycle!ASpec

=============================================================================
