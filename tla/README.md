# TLA+ models of taskcluster-worker's native sandbox, QEMU VM supervisor and image builder

This directory holds TLA+ specifications of the concurrent components of the
repository:

- the native engine's sandbox, in `src/engines/native/sandbox.go`;
- the QEMU virtual machine supervisor, in `src/engines/qemu/vm/vm.go`;
- the `qemu-build` command's `buildImage`, in
  `src/commands/qemu-build/buildimage.go`, which drives a VM.

It also holds an abstract specification of what a sandbox promises its
callers, TLC configurations that model-check everything on small instances,
and TLAPS proofs of the main safety invariants and of the refinement, for
every value of the constants.

## 1. The system and its parts

| Part | Source | State | Operations | Module |
|---|---|---|---|---|
| Sandbox runtime | sandbox.go L18-34, L165-331 | the process, `resolve` (an `atomics.Once`), `resultSet`/`resultErr`/`abortErr`, `sessions` (an `atomics.WaitGroup`), `mShells`, `shells`, the user and the working folder | NewShell, Kill, Abort, WaitForResult; the goroutines waitForTermination, the per-shell completion goroutine and the `S.Abort()` goroutines of abortShells | `Sandbox` |
| What a sandbox promises | spec 4.1 and 5 | the outcome, whether shells are accepted, each caller's pending call and last answer | start, refuse or finish a shell; call, resolve, return | `SandboxOutcome` |
| Sandbox construction | sandbox.go L36-163 | the working folder, the user (created or current), the context file, the process, `err` | newSandbox, fetchContext and its deferred cleanup | `SandboxConstruction`, `SandboxLifecycle`, proofs in `ConstructionProofs` |
| Once and WaitGroup | `runtime/atomics` (not under src/) | Once: idle, running or done; WaitGroup: counter and drained flag | Do, Wait, Add, Done, Drain, WaitAndDrain | modelled from the spec, inside `Sandbox` |
| VM supervisor | vm.go L27-419 | `started`, the QEMU process, `qemuDone`, `Error`, the network, the image and the socket folder; the monitor goroutine and the exit watcher | Start (with waitForSockets), Kill, SetHTTPHandler; the monitor and exit-watcher goroutines | `VM` |
| What a VM promises | spec 4.3, the doc comments of vm.go | QEMU's state, whether Done is closed, the phase of Start, readiness | begin, fail before spawn, spawn, ready, return, give up, kill, exit, close | `VMLifecycle` |
| Readiness timer | vm.go L375-413 | time, when the current `time.After` was armed, sockets created, events queued and seen | QEMU creating a socket, event, timeout, stop | `VMReadinessTimer` |
| Image builder | buildimage.go L24-146 | temp folders, image, network, `signal.Notify` and the interrupt channel, `err`, the packaged image | setup with its early returns, Start, Notify, SIGINT, the select, the wait for Done, Package | `BuildImage` (composed with `VM`) |
| Image inspection | `src/unnamed/part_000` | none | JSON decoding of `qemu-img info` | not modelled: pure data conversion |
| Daemon service, examples, dockertest | `src/commands/daemon`, `src/examples`, `src/test` | none | command glue | not modelled (section 6) |

How the parts interact:

- **The sandbox.** One Once is shared by three bodies: waitForTermination
  (natural completion), Kill and Abort. The first body to enter wins, and the
  others wait for it. NewShell counts every shell in the WaitGroup under
  `mShells`. abortShells drains the WaitGroup, starts an abort of every shell,
  unlocks, and waits for the count to reach zero. Each shell's completion
  goroutine takes `mShells`, unlists the shell and calls Done.
- **The VM.** Start spawns QEMU, the exit watcher and the readiness monitor.
  It then selects between readiness (socketsReady) and death (qemuDone). The
  exit watcher releases the resources and closes qemuDone. Kill kills the
  process unless Done is already closed.
- **The builder.** buildImage creates two temporary folders, the image and
  a user-space network, each call with an early return. It then calls
  `machine.Start()`, installs `signal.Notify` for SIGINT and selects between
  the interrupt (then `machine.Kill()`) and Done. It waits for Done and
  packages the image if no error was seen. The VM's goroutines live in the
  builder's process; QEMU is a process of its own.

The behaviours that make this code hard:

- three racers on one Once;
- a counter raised under a lock while it is being drained;
- a lock released before a blocking wait;
- rollback of a failed spawn;
- four OS calls that may each fail after allocations;
- a goroutine sending on an unbuffered channel whose reader may have left;
- three `close` sites of one channel, and an error written next to them;
- a filesystem watcher whose events must be matched, and a timer that is
  re-armed on each of them;
- a signal arriving before, during or after its handler exists.

## 2. Modules and their correspondence with the code

- **`NativeConfig`** declares `CreateUser`, the engine's configuration flag
  that selects an owned user or the current user.
- **`Sandbox`** models the sandbox after newSandbox has returned. Its
  constants are `Callers` (goroutines calling the public methods),
  `ShellIds`, and `NoHolder`.
  - Variables: `pc[c]`/`op[c]` is the statement each caller is at. `once` and
    `winner` are the Once. `sessions`/`drained` are the WaitGroup. `lock`
    is `mShells`, and `shells`/`list` are the shell slice.
    `resultSet`/`resultErr`/`abortErr` are the stored result. `ret[c]` is
    what caller `c` last returned. `strays` is whether processes escaped
    the process tree. `userState` and `folder` model the owned user and the
    working folder.
  - Each public method is split at every point where it blocks or takes a
    lock:
    - `NewShellAdd` is L165-172 and `NewShellSpawn` L174-208, a spawn that
      may fail and roll back Add.
    - `Kill`/`Abort` both enter through `ResolveCall`, which is `Do` and can
      be lost to another body.
    - The body's stages are `KillProcessTree`, `AbortShellsDrain` (L212-225),
      `AbortShellsWait` (L227-228) and `KillFinish`/`AbortFinish`.
    - `CallReturn` is `resolve.Wait()` plus the return statement: Kill
      returns `resultErr` and Abort `abortErr`.
  - The other goroutines:
    - waitForTermination is `ProcessExit`, `WaitForTerminationDrain` and
      `WaitForTerminationResolve`;
    - shells are `ShellExit`, `ShellAbortedExit` and `ShellDone`, the
      completion goroutine;
    - `StraySpawn` is the task leaving the process tree.
  - At its end, `Outcome == INSTANCE SandboxOutcome WITH ...` is the
    refinement mapping, and `ImplementsOutcome` is `Outcome!ASpec`.
- **`SandboxOutcome`** is the abstract specification of spec 4.1 and 5.
  - There is one outcome (`success`, `failure` or `aborted`). It is fixed
    once, only after the sandbox stopped accepting shells and while no shell
    is being started. `aborted` is possible only while an Abort is pending.
  - Every blocked Kill, Abort and WaitForResult returns the error that the
    outcome dictates (`Answer`).
  - NewShell is admitted only while shells are accepted.
  - The mapping:
    - `outcome` is `ObservedOutcome` (sandbox.go L259-263): none until
      `resolve` is done, then what the stored result says;
    - `accepting` is `~drained`;
    - `pending[c]` is the call caller `c` is inside;
    - `answer` is `ret`.
  - How the sandbox's steps map to abstract steps:
    - NewShellAdd maps to StartShell when it gets in before the drain, and
      to RejectShell otherwise;
    - the end of the spawn maps to ShellStarted;
    - entering Kill, Abort or WaitForResult maps to Call;
    - the drains map to StopIntake;
    - the winning body's final stage and waitForTermination's resolution
      map to Resolve;
    - CallReturn maps to Return;
    - every other step is a stutter.
- **`SandboxConstruction`** models newSandbox and fetchContext. There is one
  action per OS call, each of which may fail. `Fail(e)` is the deferred
  cleanup at L40-51. `Unpack` is the switch at L143-153, including its
  missing default case.
- **`SandboxLifecycle`** composes construction with the runtime: the runtime
  moves only after newSandbox has returned a sandbox.
- **`VM`** models the supervisor.
  - `StartBegin` covers L242-263: the started check, the pipes, and
    waitForSockets with its setup errors.
  - `StartSpawn` covers L265-295: spawn, with an error path that closes Done.
  - `StartSelect` is L329-342. `StartRecordError` is the inverted test at
    L334-338. `StartKill` is L339.
  - The monitor goroutine is `MonitorEvent`, `MonitorDone`, `MonitorTimeout`
    and `MonitorFsError` (L385-415). The untimed model lets the timeout or
    watcher-error case be taken only while Done is open, and the timeout
    only once QEMU is spawned. Once Done is closed the blocked select wakes
    on it, and 90 s cannot pass between waitForSockets and qemu.Start. A
    race in which both cases are ready is still there: the monitor takes
    its error while Done is open, and Done closes right after. The exit watcher is `ExitWatcher`
    (L294-327). The remaining actions are `Kill` and `SetHTTPHandler`.
  - Two environment facts are constants:
    - `SocketFolderExists` says whether the slugid sub-folder exists when
      Start watches it. NewVirtualMachine never creates it.
    - `EventNameBase` says whether a Create event's `e.Name` equals the bare
      file name the monitor compares with. fsnotify reports the path.
    - With both TRUE the model is vm.go as its comments intend, and the
      passing runs use those values. With the real code's values, Start
      always fails to watch (FALSE folder), or never sees readiness (FALSE
      names). These are findings 5 and 6. No run checks them, because a
      run would only restate the constant. The proofs cover every value.
  - At its end, `Lifecycle == INSTANCE VMLifecycle WITH ...` is the
    refinement mapping, and `ImplementsLifecycle` is `Lifecycle!ASpec`.
- **`VMLifecycle`** is the abstract specification of the VM that spec 4.3
  and vm.go's comments promise, without goroutines.
  - Start is entered once. It fails before the spawn only by closing Done.
    Otherwise it spawns QEMU and returns in one of three ways: ready, Done
    closed, or giving up with a kill.
  - Kill acts only after Start and while Done is open.
  - QEMU exits by itself or killed.
  - Done closes once QEMU has exited, and stays closed.
  - Two things are deliberately not part of it, because the violation runs
    show the code breaks them: the order of the resource releases, and the
    first-error rule of `vm.Error`.
  - The mapping:
    - `proc` is `q`;
    - `done` is `DoneClosed`;
    - `start` is `StartPhase`: `idle`, `returned`, or `waiting` for
      every stage in between;
    - `ready` is `ready` (socketsReady closed).
  - How the supervisor's steps map to abstract steps:
    - `StartBegin` maps to ABegin, or to AStartFail when the watch fails;
    - `StartSpawn` maps to ASpawn or AStartFail;
    - `StartSelect` maps to AReturn when it returns;
    - `StartKill` maps to AGiveUp;
    - `Kill` maps to AKill;
    - a `MonitorEvent` that closes socketsReady maps to AReady;
    - the QEMU exits map to AExit;
    - `ExitWatcher` maps to AClose;
    - every other step is a stutter.
- **`VMReadinessTimer`** adds time to the monitor loop of waitForSockets.
  - Time advances in ticks. `Timeout` ticks stand for the 90 seconds, and a
    due timer fires before more time passes.
  - `MonitorEvent` re-arms the timer (`armed' = now`), because the select
    evaluates `time.After(90 * time.Second)` on every iteration.
  - QEMU may create each socket at any moment. As in `VM`, `EventNameBase`
    says whether an event's name matches a flag. The run uses FALSE, the
    code's value, so the loop never ends on readiness, and only a timeout
    or a stop ends it.
  - Time is allowed to run one timeout beyond the bound that is checked,
    so a longer watch would be seen.
- **`BuildImage`** EXTENDS `VM` and composes buildImage with it:
  - `BuildPrepare` is L33-102. It chooses the first setup call that fails,
    if any. On failure it returns through the deferred RemoveAlls, leaving
    the image held, because `img.Dispose` is deferred only at L127.
  - `BuildStartVM` is `machine.Start()` entering Start's `StartBegin`.
  - `BuildNotify` is `signal.Notify` once Start has returned.
  - `SigInt` is a SIGINT. It is queued in the interrupt channel, which has
    capacity 1, when Notify is in force. Otherwise Go's default action ends
    the process and no defer runs.
  - `BuildSelect` is the select of L118-124, whose interrupt case applies
    the VM's `KillEffect`.
  - `BuildWaitDone` covers L125-135 and `BuildPackage` L137-145.
  - The VM's goroutines step only while the process is alive; QEMU steps
    regardless. The engine-facing `Kill` and `SetHTTPHandler` of `VM` are
    not part of the composition: buildImage calls neither.
- **`MCSandbox`, `MCSandboxLifecycle`, `MCVM`, `MCVMReadinessTimer` and
  `MCBuildImage`** are the MC modules. They give the constants model values.

Data is abstracted: errors are a few strings, the result set is
success/failure/none, and the environment map, log messages and QEMU
arguments are left out.

## 3. Runs

| Run | cfg | Expect | Properties | Shows |
|---|---|---|---|---|
| sandbox | MCSandbox.cfg | pass | TypeOK, ResolvedQuiescent, OutcomeAgrees, ResultImmutable, ImplementsOutcome, KillAbortReturn | With 2 callers, 2 shells and an owned user, resolution happens once and after full teardown, the result is never rewritten, every caller reports the outcome that was set, the sandbox implements `SandboxOutcome`, and under fairness every Kill and Abort returns |
| construction_owned_user | MCSandboxLifecycle.cfg | pass | NoLeakOnFailure | A failed newSandbox leaves no folder, user or process |
| construction_unknown_context | MCSandboxContext.cfg | violation | UnrecognizedContextRejected | A context with an unknown archive extension is unpacked as nothing and the task is started |
| vm_start | MCVM.cfg | pass | DoneClosedOnce, StartReturnsReadyOrDone, DoneMeansStopped, StartTerminates, ImplementsLifecycle | As intended, Done closes once and only after QEMU stopped, Start always returns, and the supervisor implements `VMLifecycle` |
| vm_done_before_release | MCVMReleased.cfg | violation | DoneImpliesReleased | Start's error paths close Done with resources held |
| vm_readiness_error_lost | MCVMReadiness.cfg | violation | ReadinessErrorRecorded | The inverted test drops a readiness error |
| vm_monitor_leak | MCVMMonitor.cfg | violation | MonitorStops | With QEMU spawned, a monitor error ready as QEMU exits blocks the monitor forever once Start takes Done (spawn failures excluded by `ACTION_CONSTRAINT SpawnSucceeds`) |
| vm_error_after_done | MCVMErrorFinal.cfg | violation | ErrorFixedOnceDone | Start rewrites `vm.Error` after the exit watcher closed Done |
| vm_readiness_timer_bound | MCVMReadinessTimer.cfg | pass | WorstCaseWatch | With the code's name comparison, the monitor gives up within one 90 s timeout after the last socket, (sockets + 1) × 90 s, not within 90 s |
| build_image | MCBuildImage.cfg | pass | PackageAfterCleanExit, InterruptEndsBuild | buildImage packages only after a clean QEMU exit with everything released, and a received SIGINT ends the build |

**Why these bounds are enough.**

- **Two callers** let Kill race Abort, either one race WaitForResult, and a
  NewShell race a Kill.
- **Two shells** allow one shell to be counted while another is being
  aborted, and a spawn to happen during a drain. Every race the code has is
  between two actors, plus the natural-completion goroutine.
- **One run for all sandbox properties** uses the owned user, whose
  teardown has the most steps. It checks liveness too, so it uses no
  symmetry. The current-user path of the runtime removes steps but adds
  none, and `SandboxProofs` covers both values of `CreateUser`.
- **The construction runs** enumerate every context kind and every failure
  point.
- **The VM** has one instance. Its only data set is the two socket files,
  which allows one socket, both, or none to appear before the exit.
- **The timer** uses 3 ticks for 90 s, so that an event can come before,
  at, and after a re-armed deadline. The tighter bound of one timeout per
  socket fails on this instance, at tick 7 of a 6-tick bound. So the
  checked bound is reached. `WorstCaseWatch` is proved for every set of
  sockets, every timeout and both values of `EventNameBase`.
- **The builder** gets up to two SIGINTs. That allows one before Notify,
  one queued, and one after `signal.Stop` during packaging. It also has
  every setup failure point and every VM path of `VM`.
- **Deadlock checking.** The VM, timer, builder and construction runs set
  `CHECK_DEADLOCK FALSE`, because those systems really do stop: QEMU exits
  and the supervisor has nothing left to do, the monitor has decided,
  buildImage has returned, or newSandbox has returned an error. The sandbox
  run checks deadlock. Callers may always call again, and every blocked
  step has a way out.

**Fairness.**

- In `Sandbox`, the steps of running goroutines are weakly fair. Steps that
  must take `mShells` (AbortShellsDrain and ShellDone) are strongly fair.
  This is because Go's `sync.Mutex` switches to starvation mode and hands the
  lock to a waiter that has starved for 1 ms.
- A killed process tree and an aborted shell eventually exit (WF).
- Callers are never obliged to call anything, and the task is never obliged
  to exit by itself.
- In `VM`, Start's steps, the exit watcher, a killed QEMU's exit, event
  delivery and the 90 s timer are weakly fair. QEMU is never obliged to
  create its sockets or to exit by itself.
- In `BuildImage`, the builder's steps and the same VM steps are weakly
  fair, for as long as the process is alive. Nobody is obliged to send
  SIGINT, and QEMU need not exit by itself: a build runs until the guest
  shuts down.

**Mutants.** Each property of a passing run is broken by a plausible bug in
the definition it guards:

- NewShellSpawn calls Done twice on rollback;
- abortShells does not abort, or does not wait;
- Kill and Abort return swapped errors;
- waitForTermination writes the result without Once;
- NewShell ignores the drain and admits a shell after resolution began
  (breaks the refinement);
- the cleanup keeps the created user;
- Start falls through a spawn error into the select (breaks DoneClosedOnce,
  and, as a step the lifecycle forbids, the refinement);
- the exit watcher closes Done without waiting for QEMU to exit;
- Start does not select on Done;
- the monitor signals readiness after one socket;
- the monitor loop never exits on dual readiness (breaks the timer bound);
- buildImage's select drops `machine.Error`, or forgets `machine.Kill()`.

## 4. What is proved (TLAPS)

`SandboxProofs` proves `TypeCorrect`, `ResolvedQuiescentHolds` and
`ResultImmutableHolds`, for every finite `ShellIds`, every `Callers` and both
values of `CreateUser`.

ResolvedQuiescent is not inductive as it stands. The inductive invariant
`IInv` strengthens it with:

- **CountOK:** `sessions` equals the number of live shells plus one while a
  NewShell holds `mShells` between Add and the end of its spawn. The lock is
  held only by such a caller.
- **OnceOK:** the Once is running exactly while one caller is in a body stage,
  and `winner` names that caller's operation.
- **BodyOK:** what the body's stages have established. After the process-tree
  kill the process no longer runs. After abortShells' drain, `drained` holds.
  At the final stage, the counter is zero.
- **WaitForTerminationOK:** once waitForTermination is past `process.Wait()`,
  the process has exited, and past WaitAndDrain, the group is drained.
- **FolderOK:** folder states under an owned user.

These facts are what make the final steps sound. Resolution happens only
after a drain that saw a zero counter, and no Add can follow a drain.
`ResultImmutable` follows from `IInv`, because once `once = "done"` no body
stage is enabled.

The lemmas used are:

- `LiveFinite`, `LiveKept` and `QuiescentLive`, about the set of live shells;
- `FS_AddElement`, `FS_RemoveElement` and `FS_EmptySet` from FiniteSetTheorems.

`SandboxOutcomeProofs` proves `OutcomeAgreesHolds` and
`SandboxImplementsOutcome` (Spec => Outcome!ASpec). It adds `ResultOK` to
`IInv`:

- before `resolve` is done nothing is stored;
- a caller that returned from Kill, Abort or WaitForResult did so after
  `resolve` was done;
- a caller's `op` matches the stage it is at;
- OutcomeAgrees itself.

The refinement follows the usual three steps:

- `InitRefines`: the initial state maps to `AInit`;
- `NextRefines`: under `IInv /\ ResultOK`, every step of `Next` is an
  `ANext` step or a stutter of the mapped variables, with one step per
  action;
- the last step combines them with PTL.

The key lemma `NoShellPending` says that while nobody holds `mShells`, no
caller is inside NewShell's spawn. This is what lets a resolution happen
with no shell pending.

`VMProofs` proves `VMTypeCorrect` and `DoneClosedOnceHolds` for every set of
socket files and every value of both environment constants. The invariant
`VIInv` adds three facts:

- **CloseCount:** `closes` equals one for an exit watcher that has finished,
  plus one for a Start that returned without launching it.
- **StageOK:** the exit watcher exists exactly from the spawn onward.
- **SentOK:** what the monitor sends is an error.

`VMProofs` also proves `StartReturnsReadyOrDoneHolds`, `DoneMeansStoppedHolds`
and `VMImplementsLifecycle`. Each needs one or two facts beyond `VIInv`:

- **NotSpawnedYet:** before the spawn QEMU is not started. With `CloseCount`,
  this shows that Start's two close sites run with QEMU not started, and the
  exit watcher's after it exited. So `SIInv` yields DoneMeansStopped.
- **ReadyOK** (socketsReady is closed only when every socket was seen) and
  **WatchedSpawned** (the exit watcher runs only for a spawned QEMU):
  `RIInv` uses them to show that Start's three ways out return ready, with
  Done closed, or with QEMU killed. `ReturnedStable` shows that each stays
  so.
- **SocketsSpawned:** the monitor sees only sockets that exist, and they
  exist only for a spawned QEMU. So AReady's guard holds.

`VMNextRefines` has one step per action. `BeforeSpawn` and `AfterSpawn`
supply Done's state and QEMU's at each stage. The theorem combines
`[]LIInv` with the step lemma by PTL.

`ConstructionProofs` proves `NoLeakOnFailureHolds` for the run's
specification, the lifecycle, for every set of context kinds and both
values of `CreateUser`. NoLeakOnFailure speaks only of the returned state,
so it is not inductive. `CInv` adds:

- **StageHeld:** which user and working folder newSandbox holds at each
  statement;
- **NotYetReturned:** nothing is returned and no process started before
  the end.

From these the deferred cleanup (`FailCInv`) and every step (`NextCInv`)
preserve CInv. Every lifecycle step is a sandbox step or leaves the
sandbox alone (`LifecycleIsSandbox`). So the sandbox that newSandbox
returns keeps its ordering invariant (`LifecycleResolvedQuiescent`) and
implements `SandboxOutcome` (`LifecycleImplementsOutcome`).

`VMReadinessTimerProofs` proves `WorstCaseWatchHolds`: the monitor watches
for at most `(Cardinality(SocketFiles) + 1) * Timeout`. It holds for every finite
non-empty set of sockets, every positive timeout and both values of
`EventNameBase`: it does not rely on the loop ending on readiness. The
inductive invariant `TimerIInv` has three parts:

- each socket's Create event is queued, then seen, once;
- while watching, the timer was last armed no later than
  `Cardinality(seen) * Timeout`;
- a due timer fires before time passes.

An event adds a new socket to `seen` (`FS_AddElement`). A subset of
`SocketFiles` is no larger (`FS_Subset`), which bounds `now` by
`(Cardinality(seen) + 1) * Timeout <= (Cardinality(SocketFiles) + 1) * Timeout`.

`BuildImageProofs` proves `PackageAfterCleanExitHolds` for every set of
sockets, both environment constants and any `MaxSignals`:

- `BuildStepIsVMStep` shows that every step of the composition is a `VM`
  step or leaves the VM's variables alone. The select's `machine.Kill()` is
  the VM's `Kill` or a no-op. So `VIInv` carries over through `VMNextIInv`.
- `CleanDone`: a Done closed with a nil `vm.Error` was closed by the exit
  watcher after QEMU exited with status 0 and the resources were released.
  Start's own closes always carry an error.
- `CleanDoneStable`: such a state stays so.
- `BuildOK`: past the select, a nil `err` is the `machine.Error` of a
  closed Done.
- From `BuildStepIsVMStep`, `BuildSpec` implies the VM's `Spec`. So the VM
  that buildImage drives still implements the lifecycle
  (`BuildVMLifecycle`).

Only model-checked:

- liveness: KillAbortReturn, StartTerminates, MonitorStops,
  InterruptEndsBuild. These need fairness and ENABLED, which are beyond
  TLAPS.
- every invariant of a passing run is now also proved, so safety is
  proved wherever it is stated.

No module uses recursion.

## 5. Findings

1. **Unknown context extension accepted** (sandbox.go:144). fetchContext
   accepts an unknown extension, but spec says construction fails.
2. **Done closed before release** (vm.go:261, 268). Start's failure paths
   close Done before releasing the network, the image and the socket folder.
   buildImage never releases the network itself, so a failed Start leaks
   it.
3. **Readiness error dropped** (vm.go:335). `if vm.Error != nil { vm.Error = err }`
   is inverted, so a readiness timeout is lost.
4. **Monitor goroutine leak** (vm.go:404, 408). The monitor's unbuffered
   send blocks forever once Start has returned through Done. The goroutine
   and the watcher leak. The race in the trace:
   - QEMU is spawned and exits;
   - the monitor's timeout or watcher error is ready while Done is open;
   - the exit watcher closes Done;
   - Start's select, with both cases ready, takes `<-vm.Done`.
5. **Socket folder never created** (vm.go:46, 379). The socket sub-folder is
   joined but never created, so watching it fails. This is found by reading
   the code. The constant `SocketFolderExists` models it, and no run checks
   it.
6. **Socket events never matched** (vm.go:392). Events are compared with bare
   names while fsnotify reports paths, so readiness is never seen and every
   Start times out. This is also found by reading the code. The constant
   `EventNameBase` models it. It shapes `WorstCaseWatch`.
7. **vm.Error rewritten after Done** (vm.go:336). The race runs as follows:
   - QEMU exits while Start is handling a monitor error;
   - the exit watcher stores qemu.Wait's error and closes Done;
   - Start then overwrites `vm.Error` with the monitor error.

   The field comment says Error is to be read after Done is closed, and
   buildImage (L123) reads it without `vm.m`. The fixed test
   `vm.Error == nil` would not cure this: a clean exit leaves Error nil for
   Start to fill after Done.

Two further divergences are modelled and shown by the passing runs rather
than checked as violations:

- **The readiness timeout restarts on every event** (vm.go:403). Spec 4.3
  speaks of a 90-second timeout. In the code, every event re-arms the
  timer and the loop never ends on readiness. `WorstCaseWatch` is the
  bound that remains: one timeout after the last socket, (sockets + 1) ×
  90 s. The run and the proof both show it, for the code's name
  comparison.
- **A SIGINT before `signal.Notify`** (buildimage.go:115) ends the builder
  by Go's default action while the temporary folders exist and QEMU may
  run. The comment at L113 promises a graceful kill. The `SigInt` step has
  this branch, and `build_image` fires it.

## 6. Not modelled

- **Data-only code:** the QEMU argument list (vm.go L56-218), the output
  forwarders and VNCSocket (a read), image inspection, and
  `newMachineFromFile` (reading, parsing and validating machine.json).
- **The daemon service** (service.go). `Manage` dispatches on parsed
  arguments. `Run` loads the configuration, creates a worker, and starts a
  goroutine that calls `w.Stop()` on SIGTERM, racing `w.Start()`. Whether
  that race is safe depends entirely on `worker.Worker`, which is not under
  src/, so there is nothing the code itself decides to model.
- **Packages outside src/** that buildImage calls: `image`, `network`,
  `qemurun.ExposeVNC`. So it is not modelled what `img.Dispose` releases on
  the early returns that skip it (L84, L101), nor what ExposeVNC does with
  the empty socket path that VNCSocket returns after Done (L110).
- **buildImage's NewVirtualMachine call** has another signature than the
  constructor in vm.go. The model composes buildImage with the vm.go VM,
  whose constructor cannot fail, so the error branch at L99-102 is dead in
  the model.
- **`user.Remove()` panicking inside the Once** (sandbox.go:316). The model's
  teardown calls succeed. The panic unwinds out of Abort to a caller that
  is not under src/.
- **Kill before Start** (a nil Process). vm.go documents Kill as callable
  only after Start.
