------------------------------- MODULE Sandbox -------------------------------
(***************************************************************************)
(* The native engine's sandbox (src/engines/native/sandbox.go) after       *)
(* construction: one primary process, the waitForTermination goroutine,    *)
(* interactive shells with their completion goroutines, and callers of     *)
(* NewShell, Kill, Abort and WaitForResult.  The one-shot gate s.resolve   *)
(* (atomics.Once) and the drainable counter s.sessions (atomics.WaitGroup) *)
(* are not under src/ and are modelled from the spec (section 4.2, 9).     *)
(***************************************************************************)
EXTENDS Naturals, FiniteSets, NativeConfig

CONSTANTS
    Callers,     \* goroutines calling NewShell/Kill/Abort/WaitForResult
    ShellIds,    \* identities of the shells that may be spawned (bounds them)
    NoHolder     \* the value of mShells' holder when it is free

ASSUME ConstAssumption ==
    /\ NoHolder \notin Callers
    /\ IsFiniteSet(ShellIds)

VARIABLES
    pstate,      \* primary process: "running", "killed" (tree killed), "exited"
    procSuccess, \* success flag returned by s.process.Wait()
    wt,          \* waitForTermination: "waitProc", "waitShells", "done"
    sessions,    \* s.sessions counter
    drained,     \* s.sessions has been drained
    shells,      \* shell id -> "none","running","aborting","exited","gone"
    list,        \* s.shells, the set of listed shells
    lock,        \* holder of s.mShells across steps, or NoHolder
    once,        \* s.resolve: "idle", "running", "done"
    winner,      \* history: which path ran the body of s.resolve
    resultSet,   \* s.resultSet: "none", "success", "failure"
    resultErr,   \* s.resultErr: "nil", "aborted"
    abortErr,    \* s.abortErr: "nil", "terminated"
    strays,      \* processes owned by the task's user outside the process tree
    userState,   \* "ambient" (not owned), "present", "removed"
    folder,      \* s.workingFolder: "none", "present", "removed"
    pc,          \* caller -> control point
    op,          \* caller -> operation in progress
    ret          \* caller -> last operation returned and the error it returned

vars == <<pstate, procSuccess, wt, sessions, drained, shells, list, lock, once,
          winner, resultSet, resultErr, abortErr, strays, userState, folder,
          pc, op, ret>>

ShellStates == {"none", "running", "aborting", "exited", "gone"}
CallerPcs == {"idle", "nsSpawn", "tree", "abortShells", "waitShells",
              "finish", "wait"}
Ops == {"none", "newShell", "kill", "abort", "waitResult"}
Errs == {"nil", "terminated", "aborted", "malformed"}

\* Shells that are alive, i.e. counted and not yet Done().
Live == {s \in ShellIds : shells[s] \in {"running", "aborting", "exited"}}

Resolved == once = "done"

-----------------------------------------------------------------------------
(* Operations of the spec-modelled primitives (runtime/atomics).           *)

\* WaitGroup.Add(1): fails once drained.
SessionsAdd == /\ ~drained
               /\ sessions' = sessions + 1

\* WaitGroup.Done()
SessionsDone == sessions' = sessions - 1

-----------------------------------------------------------------------------
(* Callers.                                                                *)

\* Mutant: NewShell ignores the error of s.sessions.Add(1) and spawns a
\* shell although the sandbox is draining.
NewShellAddIgnoreDrain(c) ==
    /\ pc[c] = "idle"
    /\ lock = NoHolder
    /\ \E s \in ShellIds : shells[s] = "none"
    /\ op' = [op EXCEPT ![c] = "newShell"]
    /\ sessions' = sessions + 1
    /\ lock' = c
    /\ pc' = [pc EXCEPT ![c] = "nsSpawn"]
    /\ UNCHANGED <<pstate, procSuccess, wt, drained, shells, list, once, winner,
                   resultSet, resultErr, abortErr, strays, userState, folder,
                   ret>>

\* NewShell, up to the spawn: takes mShells and increments the counter,
\* or returns ErrSandboxTerminated when draining.
NewShellAdd(c) ==
    /\ pc[c] = "idle"
    /\ lock = NoHolder
    /\ \E s \in ShellIds : shells[s] = "none"
    /\ op' = [op EXCEPT ![c] = "newShell"]
    /\ \/ /\ SessionsAdd
          /\ lock' = c
          /\ pc' = [pc EXCEPT ![c] = "nsSpawn"]
          /\ UNCHANGED ret
       \/ /\ drained
          /\ ret' = [ret EXCEPT ![c] = [op |-> "newShell", err |-> "terminated"]]
          /\ UNCHANGED <<sessions, lock, pc>>
    /\ UNCHANGED <<pstate, procSuccess, wt, drained, shells, list, once, winner,
                   resultSet, resultErr, abortErr, strays, userState, folder>>

\* Mutant: a failed spawn calls s.sessions.Done() twice.
NewShellSpawnDoubleDone(c) ==
    /\ pc[c] = "nsSpawn"
    /\ \/ /\ sessions' = sessions - 2
          /\ ret' = [ret EXCEPT ![c] = [op |-> "newShell", err |-> "malformed"]]
          /\ UNCHANGED <<shells, list>>
       \/ \E s \in ShellIds :
          /\ shells[s] = "none"
          /\ shells' = [shells EXCEPT ![s] = "running"]
          /\ list' = list \cup {s}
          /\ ret' = [ret EXCEPT ![c] = [op |-> "newShell", err |-> "nil"]]
          /\ UNCHANGED sessions
    /\ lock' = NoHolder
    /\ pc' = [pc EXCEPT ![c] = "idle"]
    /\ UNCHANGED <<pstate, procSuccess, wt, drained, once, winner, resultSet,
                   resultErr, abortErr, strays, userState, folder, op>>

\* NewShell, the spawn: on failure the count is rolled back; on success the
\* shell is listed and its completion goroutine started; mShells released.
NewShellSpawn(c) ==
    /\ pc[c] = "nsSpawn"
    /\ \/ /\ SessionsDone
          /\ ret' = [ret EXCEPT ![c] = [op |-> "newShell", err |-> "malformed"]]
          /\ UNCHANGED <<shells, list>>
       \/ \E s \in ShellIds :
          /\ shells[s] = "none"
          /\ shells' = [shells EXCEPT ![s] = "running"]
          /\ list' = list \cup {s}
          /\ ret' = [ret EXCEPT ![c] = [op |-> "newShell", err |-> "nil"]]
          /\ UNCHANGED sessions
    /\ lock' = NoHolder
    /\ pc' = [pc EXCEPT ![c] = "idle"]
    /\ UNCHANGED <<pstate, procSuccess, wt, drained, once, winner, resultSet,
                   resultErr, abortErr, strays, userState, folder, op>>

\* Kill() or Abort() enters s.resolve.Do: the first entrant runs the body,
\* every other one waits for it to finish.
ResolveCall(c, o) ==
    /\ pc[c] = "idle"
    /\ op' = [op EXCEPT ![c] = o]
    /\ IF once = "idle"
       THEN /\ once' = "running"
            /\ winner' = o
            /\ pc' = [pc EXCEPT ![c] = "tree"]
       ELSE /\ pc' = [pc EXCEPT ![c] = "wait"]
            /\ UNCHANGED <<once, winner>>
    /\ UNCHANGED <<pstate, procSuccess, wt, sessions, drained, shells, list,
                   lock, resultSet, resultErr, abortErr, strays, userState,
                   folder, ret>>

Kill(c) == ResolveCall(c, "kill")
Abort(c) == ResolveCall(c, "abort")

\* WaitForResult(): waits on s.resolve.
WaitForResult(c) ==
    /\ pc[c] = "idle"
    /\ op' = [op EXCEPT ![c] = "waitResult"]
    /\ pc' = [pc EXCEPT ![c] = "wait"]
    /\ UNCHANGED <<pstate, procSuccess, wt, sessions, drained, shells, list,
                   lock, once, winner, resultSet, resultErr, abortErr, strays,
                   userState, folder, ret>>

\* system.KillProcessTree(s.process)
KillProcessTree(c) ==
    /\ pc[c] = "tree"
    /\ pstate' = IF pstate = "running" THEN "killed" ELSE pstate
    /\ pc' = [pc EXCEPT ![c] = "abortShells"]
    /\ UNCHANGED <<procSuccess, wt, sessions, drained, shells, list, lock, once,
                   winner, resultSet, resultErr, abortErr, strays, userState,
                   folder, op, ret>>

\* Mutant: abortShells clears s.shells without aborting them.
AbortShellsDrainNoAbort(c) ==
    /\ pc[c] = "abortShells"
    /\ lock = NoHolder
    /\ drained' = TRUE
    /\ list' = {}
    /\ pc' = [pc EXCEPT ![c] = "waitShells"]
    /\ UNCHANGED <<pstate, procSuccess, wt, sessions, shells, lock, once,
                   winner, resultSet, resultErr, abortErr, strays, userState,
                   folder, op, ret>>

\* abortShells, under mShells: drain, abort every listed shell, clear list.
AbortShellsDrain(c) ==
    /\ pc[c] = "abortShells"
    /\ lock = NoHolder
    /\ drained' = TRUE
    /\ shells' = [s \in ShellIds |->
                    IF s \in list /\ shells[s] = "running"
                    THEN "aborting" ELSE shells[s]]
    /\ list' = {}
    /\ pc' = [pc EXCEPT ![c] = "waitShells"]
    /\ UNCHANGED <<pstate, procSuccess, wt, sessions, lock, once, winner,
                   resultSet, resultErr, abortErr, strays, userState, folder,
                   op, ret>>

\* Mutant: abortShells does not wait for the aborted shells.
AbortShellsNoWait(c) ==
    /\ pc[c] = "waitShells"
    /\ pc' = [pc EXCEPT ![c] = "finish"]
    /\ UNCHANGED <<pstate, procSuccess, wt, sessions, drained, shells, list,
                   lock, once, winner, resultSet, resultErr, abortErr, strays,
                   userState, folder, op, ret>>

\* abortShells, after unlocking: s.sessions.Wait()
AbortShellsWait(c) ==
    /\ pc[c] = "waitShells"
    /\ sessions = 0
    /\ pc' = [pc EXCEPT ![c] = "finish"]
    /\ UNCHANGED <<pstate, procSuccess, wt, sessions, drained, shells, list,
                   lock, once, winner, resultSet, resultErr, abortErr, strays,
                   userState, folder, op, ret>>

\* system.KillByOwner(s.user), when the sandbox owns its user.
KillByOwner == strays' = IF CreateUser THEN FALSE ELSE strays

\* Rest of Kill's body: KillByOwner, resultSet with success false.
KillFinish(c) ==
    /\ pc[c] = "finish"
    /\ op[c] = "kill"
    /\ KillByOwner
    /\ resultSet' = "failure"
    /\ abortErr' = "terminated"
    /\ once' = "done"
    /\ pc' = [pc EXCEPT ![c] = "wait"]
    /\ UNCHANGED <<pstate, procSuccess, wt, sessions, drained, shells, list,
                   lock, winner, resultErr, userState, folder, op, ret>>

\* Rest of Abort's body: KillByOwner and user.Remove() for an owned user,
\* removal of the working folder, resultErr = ErrSandboxAborted.
AbortFinish(c) ==
    /\ pc[c] = "finish"
    /\ op[c] = "abort"
    /\ KillByOwner
    /\ userState' = IF CreateUser THEN "removed" ELSE userState
    /\ folder' = IF folder = "present" THEN "removed" ELSE folder
    /\ resultErr' = "aborted"
    /\ once' = "done"
    /\ pc' = [pc EXCEPT ![c] = "wait"]
    /\ UNCHANGED <<pstate, procSuccess, wt, sessions, drained, shells, list,
                   lock, winner, resultSet, abortErr, op, ret>>

\* Mutant: Kill returns s.abortErr and Abort s.resultErr.
CallReturnSwapped(c) ==
    /\ pc[c] = "wait"
    /\ Resolved
    /\ ret' = [ret EXCEPT ![c] =
                 [op |-> op[c],
                  err |-> IF op[c] = "kill" THEN abortErr ELSE resultErr]]
    /\ pc' = [pc EXCEPT ![c] = "idle"]
    /\ UNCHANGED <<pstate, procSuccess, wt, sessions, drained, shells, list,
                   lock, once, winner, resultSet, resultErr, abortErr, strays,
                   userState, folder, op>>

\* s.resolve.Wait() returns; Kill returns s.resultErr, Abort s.abortErr,
\* WaitForResult s.resultErr (with s.resultSet).
CallReturn(c) ==
    /\ pc[c] = "wait"
    /\ Resolved
    /\ ret' = [ret EXCEPT ![c] =
                 [op |-> op[c],
                  err |-> IF op[c] = "abort" THEN abortErr ELSE resultErr]]
    /\ pc' = [pc EXCEPT ![c] = "idle"]
    /\ UNCHANGED <<pstate, procSuccess, wt, sessions, drained, shells, list,
                   lock, once, winner, resultSet, resultErr, abortErr, strays,
                   userState, folder, op>>

-----------------------------------------------------------------------------
(* The primary process and waitForTermination.                             *)

\* The task's command exits by itself.
ProcessExit ==
    /\ pstate = "running"
    /\ pstate' = "exited"
    /\ procSuccess' \in BOOLEAN
    /\ UNCHANGED <<wt, sessions, drained, shells, list, lock, once, winner,
                   resultSet, resultErr, abortErr, strays, userState, folder,
                   pc, op, ret>>

\* A killed process tree exits unsuccessfully.
ProcessKilledExit ==
    /\ pstate = "killed"
    /\ pstate' = "exited"
    /\ procSuccess' = FALSE
    /\ UNCHANGED <<wt, sessions, drained, shells, list, lock, once, winner,
                   resultSet, resultErr, abortErr, strays, userState, folder,
                   pc, op, ret>>

\* s.process.Wait() returned; WaitAndDrain stops new shells.
WaitForTerminationDrain ==
    /\ wt = "waitProc"
    /\ pstate = "exited"
    /\ drained' = TRUE
    /\ wt' = "waitShells"
    /\ UNCHANGED <<pstate, procSuccess, sessions, shells, list, lock, once,
                   winner, resultSet, resultErr, abortErr, strays, userState,
                   folder, pc, op, ret>>

\* Mutant: the natural-completion body runs outside s.resolve.Do.
WaitForTerminationUnguarded ==
    /\ wt = "waitShells"
    /\ sessions = 0
    /\ wt' = "done"
    /\ KillByOwner
    /\ resultSet' = IF procSuccess THEN "success" ELSE "failure"
    /\ abortErr' = "terminated"
    /\ once' = "done"
    /\ winner' = "natural"
    /\ UNCHANGED <<pstate, procSuccess, sessions, drained, shells, list, lock,
                   resultErr, userState, folder, pc, op, ret>>

\* WaitAndDrain returns when no shell is counted; s.resolve.Do runs the
\* natural-completion body unless Kill or Abort entered the gate first.
WaitForTerminationResolve ==
    /\ wt = "waitShells"
    /\ sessions = 0
    /\ wt' = "done"
    /\ IF once = "idle"
       THEN /\ KillByOwner
            /\ resultSet' = IF procSuccess THEN "success" ELSE "failure"
            /\ abortErr' = "terminated"
            /\ once' = "done"
            /\ winner' = "natural"
       ELSE UNCHANGED <<strays, resultSet, abortErr, once, winner>>
    /\ UNCHANGED <<pstate, procSuccess, sessions, drained, shells, list, lock,
                   resultErr, userState, folder, pc, op, ret>>

-----------------------------------------------------------------------------
(* Shells and their completion goroutines.                                 *)

\* The shell's command exits by itself.
ShellExit(s) ==
    /\ shells[s] = "running"
    /\ shells' = [shells EXCEPT ![s] = "exited"]
    /\ UNCHANGED <<pstate, procSuccess, wt, sessions, drained, list, lock, once,
                   winner, resultSet, resultErr, abortErr, strays, userState,
                   folder, pc, op, ret>>

\* go S.Abort() runs and the shell exits.
ShellAbortedExit(s) ==
    /\ shells[s] = "aborting"
    /\ shells' = [shells EXCEPT ![s] = "exited"]
    /\ UNCHANGED <<pstate, procSuccess, wt, sessions, drained, list, lock, once,
                   winner, resultSet, resultErr, abortErr, strays, userState,
                   folder, pc, op, ret>>

\* The completion goroutine: S.Wait() returned; under mShells it removes S
\* from s.shells and calls s.sessions.Done().
ShellDone(s) ==
    /\ shells[s] = "exited"
    /\ lock = NoHolder
    /\ list' = list \ {s}
    /\ SessionsDone
    /\ shells' = [shells EXCEPT ![s] = "gone"]
    /\ UNCHANGED <<pstate, procSuccess, wt, drained, lock, once, winner,
                   resultSet, resultErr, abortErr, strays, userState, folder,
                   pc, op, ret>>

\* A process of the task (the command or a live shell) leaves the process
\* tree, e.g. by daemonising; it is still owned by the task's user.
StraySpawn ==
    /\ pstate = "running" \/ \E s \in ShellIds : shells[s] \in {"running", "aborting"}
    /\ strays' = TRUE
    /\ UNCHANGED <<pstate, procSuccess, wt, sessions, drained, shells, list,
                   lock, once, winner, resultSet, resultErr, abortErr,
                   userState, folder, pc, op, ret>>

-----------------------------------------------------------------------------

\* State right after newSandbox returned: process started, watcher launched.
Init ==
    /\ pstate = "running"
    /\ procSuccess = FALSE
    /\ wt = "waitProc"
    /\ sessions = 0
    /\ drained = FALSE
    /\ shells = [s \in ShellIds |-> "none"]
    /\ list = {}
    /\ lock = NoHolder
    /\ once = "idle"
    /\ winner = "none"
    /\ resultSet = "none"
    /\ resultErr = "nil"
    /\ abortErr = "nil"
    /\ strays = FALSE
    /\ userState = IF CreateUser THEN "present" ELSE "ambient"
    /\ folder = IF CreateUser THEN "present" ELSE "none"
    /\ pc = [c \in Callers |-> "idle"]
    /\ op = [c \in Callers |-> "none"]
    /\ ret = [c \in Callers |-> [op |-> "none", err |-> "nil"]]

\* Steps of goroutines already running inside the sandbox.
Internal(c) ==
    \/ NewShellSpawn(c) \/ KillProcessTree(c) \/ AbortShellsDrain(c)
    \/ AbortShellsWait(c) \/ KillFinish(c) \/ AbortFinish(c) \/ CallReturn(c)

Next ==
    \/ \E c \in Callers :
          \/ NewShellAdd(c) \/ Kill(c) \/ Abort(c) \/ WaitForResult(c)
          \/ Internal(c)
    \/ ProcessExit \/ ProcessKilledExit
    \/ WaitForTerminationDrain \/ WaitForTerminationResolve
    \/ \E s \in ShellIds : ShellExit(s) \/ ShellAbortedExit(s) \/ ShellDone(s)
    \/ StraySpawn

(***************************************************************************)
(* Fairness.  Goroutines that are runnable eventually run (weak fairness); *)
(* a killed process or an aborted shell eventually exits.  Steps that take *)
(* mShells are strongly fair: sync.Mutex hands the lock to a waiter that   *)
(* has starved for 1ms.  Callers are not obliged to call anything, and the *)
(* task's command and shells are not obliged to exit by themselves.       *)
(***************************************************************************)
Fairness ==
    /\ \A c \in Callers :
          /\ WF_vars(NewShellSpawn(c)) /\ WF_vars(KillProcessTree(c))
          /\ SF_vars(AbortShellsDrain(c)) /\ WF_vars(AbortShellsWait(c))
          /\ WF_vars(KillFinish(c)) /\ WF_vars(AbortFinish(c))
          /\ WF_vars(CallReturn(c))
    /\ WF_vars(ProcessKilledExit)
    /\ WF_vars(WaitForTerminationDrain) /\ WF_vars(WaitForTerminationResolve)
    /\ \A s \in ShellIds : WF_vars(ShellAbortedExit(s)) /\ SF_vars(ShellDone(s))

Spec == Init /\ [][Next]_vars

FairSpec == Spec /\ Fairness


-----------------------------------------------------------------------------
(* Properties.                                                             *)

\* Every variable stays in its domain.
TypeOK ==
    /\ pstate \in {"running", "killed", "exited"}
    /\ procSuccess \in BOOLEAN
    /\ wt \in {"waitProc", "waitShells", "done"}
    /\ sessions \in Nat
    /\ drained \in BOOLEAN
    /\ shells \in [ShellIds -> ShellStates]
    /\ list \in SUBSET ShellIds
    /\ lock \in Callers \cup {NoHolder}
    /\ once \in {"idle", "running", "done"}
    /\ winner \in {"none", "natural", "kill", "abort"}
    /\ resultSet \in {"none", "success", "failure"}
    /\ resultErr \in {"nil", "aborted"}
    /\ abortErr \in {"nil", "terminated"}
    /\ strays \in BOOLEAN
    /\ userState \in {"ambient", "present", "removed"}
    /\ folder \in {"none", "present", "removed"}
    /\ pc \in [Callers -> CallerPcs]
    /\ op \in [Callers -> Ops]
    /\ ret \in [Callers -> [op : Ops, err : Errs]]

\* Ordering invariant of section 4.1, on every path that resolves the
\* sandbox (waitForTermination, Kill, Abort): when s.resolve is done the
\* primary process no longer runs, no shell is alive or counted, no new
\* shell can be counted, an owned user has no stray process left, and an
\* aborted sandbox has removed its owned user and working folder.
ResolvedQuiescent ==
    Resolved =>
        /\ pstate # "running"
        /\ drained
        /\ sessions = 0
        /\ Live = {}
        /\ CreateUser => ~strays
        /\ (winner = "abort" /\ CreateUser) =>
              userState = "removed" /\ folder = "removed"

\* The stored outcome is the one of the path that won s.resolve, and what
\* Kill, Abort and WaitForResult returned agrees with it: Abort returns
\* nil only when an Abort won, Kill and WaitForResult return
\* ErrSandboxAborted exactly when an Abort won.
OutcomeAgrees ==
    /\ Resolved =>
          /\ (winner = "abort") = (resultErr = "aborted")
          /\ (winner = "abort") = (resultSet = "none")
          /\ (winner # "abort") = (abortErr = "terminated")
          /\ winner = "kill" => resultSet = "failure"
    /\ \A c \in Callers :
          /\ ret[c].op = "abort" =>
                (ret[c].err = "nil") = (winner = "abort")
          /\ ret[c].op \in {"kill", "waitResult"} =>
                (ret[c].err = "aborted") = (winner = "abort")

\* Once the sandbox is resolved its result (s.resultSet, s.resultErr,
\* s.abortErr) is never written again, whatever Kill, Abort or the
\* natural-completion watcher do later.
ResultImmutable ==
    [][Resolved => UNCHANGED <<resultSet, resultErr, abortErr, winner>>]_vars

\* Every call of Kill or Abort returns: the process tree dies, every shell
\* is aborted and drained, and s.resolve completes (section 5: "both block
\* until resolution completes").
KillAbortReturn ==
    \A c \in Callers :
        (pc[c] # "idle" /\ op[c] \in {"kill", "abort"}) ~> (pc[c] = "idle")

-----------------------------------------------------------------------------
(* Refinement of the abstract outcome specification SandboxOutcome.       *)

\* The outcome callers can observe: unresolved until s.resolve is done,
\* then aborted (s.resultErr), or the success flag of s.resultSet.
ObservedOutcome ==
    IF once # "done" THEN "none"
    ELSE IF resultErr = "aborted" THEN "aborted"
    ELSE resultSet

Outcome == INSTANCE SandboxOutcome
    WITH outcome <- ObservedOutcome,
         accepting <- ~drained,
         pending <- [c \in Callers |-> IF pc[c] = "idle" THEN "none" ELSE op[c]],
         answer <- ret

\* The sandbox implements its abstract promise: NewShell is admitted only
\* before s.sessions is drained; s.resolve fixes one outcome, only after
\* the drain, with no NewShell between Add and spawn, and aborted only by
\* an Abort in progress; the outcome is never changed; and every Kill,
\* Abort and WaitForResult returns the error that outcome dictates.
ImplementsOutcome == Outcome!ASpec

=============================================================================
