----------------------------- MODULE SandboxProofs -----------------------------
(***************************************************************************)
(* Proofs about the native sandbox of module Sandbox, for every set of     *)
(* callers and every finite set of shells: type correctness and the       *)
(* ordering invariant ResolvedQuiescent.  Both rest on the inductive       *)
(* invariant IInv below, which counts the sessions (s.sessions equals the  *)
(* live shells plus the one NewShell that may hold mShells between Add and *)
(* the spawn) and records what each stage of the s.resolve body has done.  *)
(***************************************************************************)
EXTENDS Sandbox, FiniteSetTheorems, TLAPS

\* Control points inside the body of s.resolve run by Kill or Abort.
BodyPcs == {"tree", "abortShells", "waitShells", "finish"}

\* s.sessions counts the live shells and a NewShell between Add and spawn,
\* which holds mShells.
CountOK ==
    /\ sessions = Cardinality(Live) + (IF lock = NoHolder THEN 0 ELSE 1)
    /\ lock # NoHolder => pc[lock] = "nsSpawn"
    /\ \A c \in Callers : pc[c] = "nsSpawn" => lock = c

\* s.resolve is running exactly while one Kill or Abort is in its body,
\* and that caller's operation is the recorded winner.
OnceOK ==
    /\ (once = "running") = (\E c \in Callers : pc[c] \in BodyPcs)
    /\ \A c, d \in Callers : pc[c] \in BodyPcs /\ pc[d] \in BodyPcs => c = d
    /\ \A c \in Callers : pc[c] \in BodyPcs =>
          /\ op[c] \in {"kill", "abort"}
          /\ winner = op[c]
    /\ (once = "idle") = (winner = "none")

\* What the stages of the body of Kill and Abort have established.
BodyOK ==
    \A c \in Callers :
        /\ pc[c] \in {"abortShells", "waitShells", "finish"} => pstate # "running"
        /\ pc[c] \in {"waitShells", "finish"} => drained
        /\ pc[c] = "finish" => sessions = 0

\* What waitForTermination has established.
WaitForTerminationOK ==
    wt # "waitProc" => drained /\ pstate = "exited"

\* A sandbox that creates its user always has a working folder to remove.
FolderOK == CreateUser => folder \in {"present", "removed"}

IInv ==
    /\ TypeOK
    /\ FolderOK
    /\ CountOK
    /\ OnceOK
    /\ BodyOK
    /\ WaitForTerminationOK
    /\ ResolvedQuiescent


-----------------------------------------------------------------------------
(* Lemmas about the set of live shells.                                    *)

\* Live is a finite set of shells.
LEMMA LiveFinite ==
    ASSUME TypeOK
    PROVE  /\ IsFiniteSet(Live) /\ IsFiniteSet(Live')
           /\ Cardinality(Live) \in Nat /\ Cardinality(Live') \in Nat
<1>1. Live \in SUBSET ShellIds /\ Live' \in SUBSET ShellIds
    BY DEF Live
<1>2. IsFiniteSet(Live) /\ IsFiniteSet(Live')
    BY <1>1, ConstAssumption, FS_Subset
<1>. QED
    BY <1>2, FS_CardinalityType

\* A step that moves no shell into or out of the live states keeps Live.
LEMMA LiveKept ==
    ASSUME TypeOK,
           \A s \in ShellIds :
              (shells'[s] \in {"running", "aborting", "exited"})
                 = (shells[s] \in {"running", "aborting", "exited"})
    PROVE  Live' = Live
BY DEF Live

\* With no session counted, no shell is alive and mShells is free.
LEMMA QuiescentLive ==
    ASSUME TypeOK, CountOK, sessions = 0
    PROVE  Live = {} /\ lock = NoHolder
<1>1. IsFiniteSet(Live) /\ Cardinality(Live) \in Nat
    BY LiveFinite
<1>2. Cardinality(Live) = 0 /\ lock = NoHolder
    BY <1>1 DEF CountOK
<1>. QED
    BY <1>1, <1>2, FS_EmptySet

-----------------------------------------------------------------------------

\* The initial state satisfies the inductive invariant.
LEMMA InitIInv == Init => IInv
<1> SUFFICES ASSUME Init PROVE IInv
    OBVIOUS
<1>1. Live = {}
    BY DEF Init, Live
<1>2. Cardinality(Live) = 0
    BY <1>1, FS_EmptySet
<1>3. TypeOK
    BY DEF Init, TypeOK, CallerPcs, Ops, Errs, ShellStates
<1>4. CountOK
    BY <1>2 DEF Init, CountOK
<1>5. OnceOK /\ BodyOK /\ WaitForTerminationOK /\ FolderOK
    BY DEF Init, OnceOK, BodyOK, WaitForTerminationOK, BodyPcs, FolderOK
<1>6. ResolvedQuiescent
    BY DEF Init, ResolvedQuiescent, Resolved
<1>. QED
    BY <1>3, <1>4, <1>5, <1>6 DEF IInv


\* Every step of Next preserves the inductive invariant: one step per action
\* of Next, and under it one step per conjunct the action can disturb.
LEMMA NextIInv == IInv /\ [Next]_vars => IInv'
<1> SUFFICES ASSUME IInv, [Next]_vars PROVE IInv'
    OBVIOUS
<1>. USE ConstAssumption, ConfigAssumption DEF IInv
<1>0. /\ IsFiniteSet(Live) /\ IsFiniteSet(Live')
      /\ Cardinality(Live) \in Nat /\ Cardinality(Live') \in Nat
    BY LiveFinite
\* NewShell up to the spawn: Add(1) and take mShells, or fail when drained.
<1>1. ASSUME NEW c \in Callers, NewShellAdd(c) PROVE IInv'
  <2>0. /\ pc[c] = "idle" /\ lock = NoHolder /\ Live' = Live
        /\ op' = [op EXCEPT ![c] = "newShell"]
        /\ UNCHANGED <<pstate, procSuccess, wt, drained, shells, list, once,
                       winner, resultSet, resultErr, abortErr, strays,
                       userState, folder>>
      BY <1>1 DEF NewShellAdd, Live
  <2>1. CASE lock' = c
    <3>0. /\ ~drained /\ sessions' = sessions + 1
          /\ pc' = [pc EXCEPT ![c] = "nsSpawn"] /\ ret' = ret
        BY <1>1, <2>0, <2>1 DEF NewShellAdd, SessionsAdd
    <3>1. ~Resolved /\ \A d \in Callers : pc[d] \notin {"waitShells", "finish"}
        BY <3>0 DEF ResolvedQuiescent, BodyOK
    <3>2. TypeOK'
        BY <2>0, <2>1, <3>0 DEF TypeOK, CallerPcs, Ops
    <3>3. CountOK'
        BY <2>0, <2>1, <3>0, <1>0 DEF CountOK, TypeOK
    <3>4. OnceOK' /\ BodyOK'
        BY <2>0, <3>0, <3>1 DEF OnceOK, BodyOK, BodyPcs, TypeOK
    <3>5. WaitForTerminationOK' /\ ResolvedQuiescent' /\ FolderOK'
        BY <2>0, <3>1 DEF WaitForTerminationOK, ResolvedQuiescent, Resolved,
           FolderOK
    <3>. QED
        BY <3>2, <3>3, <3>4, <3>5
  <2>2. CASE lock' # c
    <3>0. /\ drained /\ UNCHANGED <<sessions, lock, pc>>
          /\ ret' = [ret EXCEPT ![c] = [op |-> "newShell", err |-> "terminated"]]
        BY <1>1, <2>2 DEF NewShellAdd, SessionsAdd
    <3>1. TypeOK'
        BY <2>0, <3>0 DEF TypeOK, Ops, Errs
    <3>2. CountOK' /\ OnceOK' /\ BodyOK'
        BY <2>0, <3>0 DEF CountOK, OnceOK, BodyOK, BodyPcs, TypeOK
    <3>3. WaitForTerminationOK' /\ ResolvedQuiescent' /\ FolderOK'
        BY <2>0, <3>0 DEF WaitForTerminationOK, ResolvedQuiescent, Resolved,
           FolderOK
    <3>. QED
        BY <3>1, <3>2, <3>3
  <2>. QED
      BY <2>1, <2>2
\* NewShell, the spawn: the spawned shell takes the place of mShells' holder
\* in the count, or the count is rolled back.
<1>2. ASSUME NEW c \in Callers, NewShellSpawn(c) PROVE IInv'
  <2>0. /\ pc[c] = "nsSpawn" /\ lock = c
        /\ lock' = NoHolder /\ pc' = [pc EXCEPT ![c] = "idle"]
        /\ UNCHANGED <<pstate, procSuccess, wt, drained, once, winner,
                       resultSet, resultErr, abortErr, strays, userState,
                       folder, op>>
      BY <1>2 DEF NewShellSpawn, CountOK
  <2>1. sessions = Cardinality(Live) + 1
      BY <2>0 DEF CountOK
  <2>2. ~Resolved /\ \A d \in Callers : pc[d] # "finish"
      BY <2>0, <2>1, <1>0 DEF ResolvedQuiescent, Resolved, BodyOK
  <2>3. \A d \in Callers : pc'[d] # "nsSpawn"
      BY <2>0 DEF CountOK, TypeOK
  <2>4. CASE shells' = shells
    <3>0. /\ sessions' = sessions - 1 /\ list' = list /\ Live' = Live
          /\ ret' = [ret EXCEPT ![c] = [op |-> "newShell", err |-> "malformed"]]
        BY <1>2, <2>4, <2>0 DEF NewShellSpawn, SessionsDone, Live, TypeOK
    <3>1. TypeOK'
        BY <2>0, <2>1, <2>4, <3>0, <1>0 DEF TypeOK, CallerPcs, Ops, Errs
    <3>2. sessions' = Cardinality(Live')
        BY <2>1, <3>0, <1>0
    <3>3. CountOK'
        BY <2>0, <2>3, <3>2, <1>0 DEF CountOK
    <3>4. OnceOK' /\ BodyOK'
        BY <2>0, <2>2, <3>0 DEF OnceOK, BodyOK, BodyPcs, TypeOK
    <3>5. WaitForTerminationOK' /\ ResolvedQuiescent' /\ FolderOK'
        BY <2>0, <2>2 DEF WaitForTerminationOK, ResolvedQuiescent, Resolved,
           FolderOK
    <3>. QED
        BY <3>1, <3>3, <3>4, <3>5
  <2>5. CASE shells' # shells
    <3>0. PICK s \in ShellIds :
             /\ shells[s] = "none"
             /\ shells' = [shells EXCEPT ![s] = "running"]
             /\ list' = list \cup {s}
             /\ ret' = [ret EXCEPT ![c] = [op |-> "newShell", err |-> "nil"]]
             /\ sessions' = sessions
        BY <1>2, <2>5 DEF NewShellSpawn, SessionsDone
    <3>1. Live' = Live \cup {s} /\ s \notin Live
        BY <3>0 DEF Live, TypeOK
    <3>2. Cardinality(Live') = Cardinality(Live) + 1
        BY <3>1, <1>0, FS_AddElement
    <3>3. TypeOK' /\ CountOK'
        BY <2>0, <2>1, <2>3, <3>0, <3>2 DEF TypeOK, CountOK, CallerPcs, Ops,
           Errs, ShellStates
    <3>4. OnceOK' /\ BodyOK'
        BY <2>0, <2>2, <3>0 DEF OnceOK, BodyOK, BodyPcs, TypeOK
    <3>5. WaitForTerminationOK' /\ ResolvedQuiescent' /\ FolderOK'
        BY <2>0, <2>2 DEF WaitForTerminationOK, ResolvedQuiescent, Resolved,
           FolderOK
    <3>. QED
        BY <3>3, <3>4, <3>5
  <2>. QED
      BY <2>4, <2>5
\* Kill and Abort enter s.resolve: the first runs the body, the others wait.
<1>3. ASSUME NEW c \in Callers, NEW o \in {"kill", "abort"}, ResolveCall(c, o)
      PROVE IInv'
  <2>0. /\ pc[c] = "idle" /\ op' = [op EXCEPT ![c] = o] /\ Live' = Live
        /\ UNCHANGED <<pstate, procSuccess, wt, sessions, drained, shells,
                       list, lock, resultSet, resultErr, abortErr, strays,
                       userState, folder, ret>>
      BY <1>3 DEF ResolveCall, Live
  <2>1. CASE once = "idle"
    <3>0. /\ once' = "running" /\ winner' = o
          /\ pc' = [pc EXCEPT ![c] = "tree"]
        BY <1>3, <2>1 DEF ResolveCall
    <3>1. \A d \in Callers : pc[d] \notin BodyPcs
        BY <2>1 DEF OnceOK
    <3>2. TypeOK' /\ CountOK'
        BY <2>0, <3>0 DEF TypeOK, CountOK, CallerPcs, Ops
    <3>3. OnceOK'
        BY <2>0, <3>0, <3>1 DEF OnceOK, BodyPcs, TypeOK
    <3>4. BodyOK' /\ WaitForTerminationOK' /\ ResolvedQuiescent' /\ FolderOK'
        BY <2>0, <3>0 DEF BodyOK, WaitForTerminationOK, ResolvedQuiescent,
           Resolved, FolderOK, TypeOK
    <3>. QED
        BY <3>2, <3>3, <3>4
  <2>2. CASE once # "idle"
    <3>0. /\ pc' = [pc EXCEPT ![c] = "wait"] /\ UNCHANGED <<once, winner>>
        BY <1>3, <2>2 DEF ResolveCall
    <3>1. TypeOK' /\ CountOK'
        BY <2>0, <3>0 DEF TypeOK, CountOK, CallerPcs, Ops
    <3>2. OnceOK'
        BY <2>0, <3>0 DEF OnceOK, BodyPcs, TypeOK
    <3>3. BodyOK' /\ WaitForTerminationOK' /\ ResolvedQuiescent' /\ FolderOK'
        BY <2>0, <3>0 DEF BodyOK, WaitForTerminationOK, ResolvedQuiescent,
           Resolved, FolderOK, TypeOK
    <3>. QED
        BY <3>1, <3>2, <3>3
  <2>. QED
      BY <2>1, <2>2
\* WaitForResult waits on s.resolve.
<1>4. ASSUME NEW c \in Callers, WaitForResult(c) PROVE IInv'
  <2>0. /\ pc[c] = "idle" /\ pc' = [pc EXCEPT ![c] = "wait"]
        /\ op' = [op EXCEPT ![c] = "waitResult"] /\ Live' = Live
        /\ UNCHANGED <<pstate, procSuccess, wt, sessions, drained, shells,
                       list, lock, once, winner, resultSet, resultErr,
                       abortErr, strays, userState, folder, ret>>
      BY <1>4 DEF WaitForResult, Live
  <2>1. TypeOK' /\ CountOK'
      BY <2>0 DEF TypeOK, CountOK, CallerPcs, Ops
  <2>2. OnceOK'
      BY <2>0 DEF OnceOK, BodyPcs, TypeOK
  <2>3. BodyOK' /\ WaitForTerminationOK' /\ ResolvedQuiescent' /\ FolderOK'
      BY <2>0 DEF BodyOK, WaitForTerminationOK, ResolvedQuiescent, Resolved,
         FolderOK, TypeOK
  <2>. QED
      BY <2>1, <2>2, <2>3
\* system.KillProcessTree: the primary process no longer runs.
<1>5. ASSUME NEW c \in Callers, KillProcessTree(c) PROVE IInv'
  <2>0. /\ pc[c] = "tree" /\ pc' = [pc EXCEPT ![c] = "abortShells"]
        /\ pstate' = IF pstate = "running" THEN "killed" ELSE pstate
        /\ Live' = Live
        /\ UNCHANGED <<procSuccess, wt, sessions, drained, shells, list, lock,
                       once, winner, resultSet, resultErr, abortErr, strays,
                       userState, folder, op, ret>>
      BY <1>5 DEF KillProcessTree, Live
  <2>1. ~Resolved
      BY <2>0 DEF OnceOK, BodyPcs, Resolved
  <2>2. TypeOK' /\ CountOK'
      BY <2>0 DEF TypeOK, CountOK, CallerPcs
  <2>3. \A d \in Callers : (pc'[d] \in BodyPcs) = (pc[d] \in BodyPcs)
      BY <2>0 DEF BodyPcs, TypeOK
  <2>4. OnceOK'
      BY <2>0, <2>3 DEF OnceOK
  <2>5. BodyOK'
      BY <2>0 DEF BodyOK, TypeOK
  <2>6. WaitForTerminationOK' /\ ResolvedQuiescent' /\ FolderOK'
      BY <2>0, <2>1 DEF WaitForTerminationOK, ResolvedQuiescent, Resolved,
         FolderOK
  <2>. QED
      BY <2>2, <2>4, <2>5, <2>6
\* abortShells under mShells: drain, mark the listed shells aborting.
<1>6. ASSUME NEW c \in Callers, AbortShellsDrain(c) PROVE IInv'
  <2>0. /\ pc[c] = "abortShells" /\ pc' = [pc EXCEPT ![c] = "waitShells"]
        /\ drained' = TRUE /\ list' = {}
        /\ shells' = [s \in ShellIds |->
                        IF s \in list /\ shells[s] = "running"
                        THEN "aborting" ELSE shells[s]]
        /\ UNCHANGED <<pstate, procSuccess, wt, sessions, lock, once, winner,
                       resultSet, resultErr, abortErr, strays, userState,
                       folder, op, ret>>
      BY <1>6 DEF AbortShellsDrain
  <2>1. Live' = Live
      BY <2>0, LiveKept DEF TypeOK
  <2>2. ~Resolved /\ pstate # "running"
      BY <2>0 DEF OnceOK, BodyPcs, Resolved, BodyOK
  <2>3. TypeOK'
      BY <2>0 DEF TypeOK, CallerPcs, ShellStates
  <2>4. CountOK'
      BY <2>0, <2>1 DEF CountOK, TypeOK
  <2>5. OnceOK'
      BY <2>0 DEF OnceOK, BodyPcs, TypeOK
  <2>6. BodyOK'
      BY <2>0, <2>2 DEF BodyOK, TypeOK
  <2>7. WaitForTerminationOK' /\ ResolvedQuiescent' /\ FolderOK'
      BY <2>0, <2>2 DEF WaitForTerminationOK, ResolvedQuiescent, Resolved,
         FolderOK
  <2>. QED
      BY <2>3, <2>4, <2>5, <2>6, <2>7
\* abortShells after unlocking: s.sessions.Wait() has returned.
<1>7. ASSUME NEW c \in Callers, AbortShellsWait(c) PROVE IInv'
  <2>0. /\ pc[c] = "waitShells" /\ sessions = 0
        /\ pc' = [pc EXCEPT ![c] = "finish"] /\ Live' = Live
        /\ UNCHANGED <<pstate, procSuccess, wt, sessions, drained, shells,
                       list, lock, once, winner, resultSet, resultErr,
                       abortErr, strays, userState, folder, op, ret>>
      BY <1>7 DEF AbortShellsWait, Live
  <2>1. ~Resolved /\ pstate # "running" /\ drained
      BY <2>0 DEF OnceOK, BodyPcs, Resolved, BodyOK
  <2>2. TypeOK' /\ CountOK'
      BY <2>0 DEF TypeOK, CountOK, CallerPcs
  <2>3. OnceOK'
      BY <2>0 DEF OnceOK, BodyPcs, TypeOK
  <2>4. BodyOK'
      BY <2>0, <2>1 DEF BodyOK, TypeOK
  <2>5. WaitForTerminationOK' /\ ResolvedQuiescent' /\ FolderOK'
      BY <2>0, <2>1 DEF WaitForTerminationOK, ResolvedQuiescent, Resolved,
         FolderOK
  <2>. QED
      BY <2>2, <2>3, <2>4, <2>5
\* The end of the body of Kill or Abort resolves the sandbox: what the
\* earlier stages established is exactly ResolvedQuiescent.
<1>8. ASSUME NEW c \in Callers, KillFinish(c) \/ AbortFinish(c) PROVE IInv'
  <2>0. /\ pc[c] = "finish" /\ pc' = [pc EXCEPT ![c] = "wait"]
        /\ once' = "done"
        /\ CreateUser => strays' = FALSE
        /\ UNCHANGED <<pstate, procSuccess, wt, sessions, drained, shells,
                       list, lock, winner, op, ret>>
      BY <1>8 DEF KillFinish, AbortFinish, KillByOwner
  <2>1. /\ pstate # "running" /\ drained /\ sessions = 0
        /\ winner = op[c] /\ once = "running"
        /\ \A d \in Callers \ {c} : pc[d] \notin BodyPcs
      BY <2>0 DEF BodyOK, OnceOK, BodyPcs
  <2>2. Live = {} /\ lock = NoHolder /\ Live' = Live
      BY <2>0, <2>1, QuiescentLive DEF Live
  <2>3. TypeOK'
    <3>0. strays' \in BOOLEAN
        BY <1>8 DEF KillFinish, AbortFinish, KillByOwner, TypeOK
    <3>1. CASE KillFinish(c)
        BY <2>0, <3>0, <3>1 DEF KillFinish, TypeOK, CallerPcs
    <3>2. CASE AbortFinish(c)
        BY <2>0, <3>0, <3>2 DEF AbortFinish, TypeOK, CallerPcs
    <3>. QED
        BY <1>8, <3>1, <3>2
  <2>4. CountOK'
      BY <2>0, <2>1, <2>2 DEF CountOK, TypeOK
  <2>5. OnceOK'
      BY <2>0, <2>1 DEF OnceOK, BodyPcs, TypeOK
  <2>6. BodyOK' /\ WaitForTerminationOK'
      BY <2>0, <2>1 DEF BodyOK, WaitForTerminationOK, TypeOK
  <2>7. FolderOK'
      BY <1>8 DEF KillFinish, AbortFinish, FolderOK
  <2>8. ResolvedQuiescent'
    <3>1. CASE KillFinish(c)
        BY <2>0, <2>1, <2>2, <3>1 DEF KillFinish, ResolvedQuiescent, Resolved
    <3>2. CASE AbortFinish(c)
        BY <2>0, <2>1, <2>2, <3>2 DEF AbortFinish, ResolvedQuiescent, Resolved,
           FolderOK
    <3>. QED
        BY <1>8, <3>1, <3>2
  <2>. QED
      BY <2>3, <2>4, <2>5, <2>6, <2>7, <2>8
\* s.resolve.Wait() returned and the call returns its error.
<1>9. ASSUME NEW c \in Callers, CallReturn(c) PROVE IInv'
  <2>0. /\ pc[c] = "wait" /\ pc' = [pc EXCEPT ![c] = "idle"] /\ Live' = Live
        /\ ret' = [ret EXCEPT ![c] =
                     [op |-> op[c],
                      err |-> IF op[c] = "abort" THEN abortErr ELSE resultErr]]
        /\ UNCHANGED <<pstate, procSuccess, wt, sessions, drained, shells,
                       list, lock, once, winner, resultSet, resultErr,
                       abortErr, strays, userState, folder, op>>
      BY <1>9 DEF CallReturn, Live
  <2>1. TypeOK'
      BY <2>0 DEF TypeOK, CallerPcs, Errs
  <2>2. CountOK' /\ OnceOK'
      BY <2>0 DEF CountOK, OnceOK, BodyPcs, TypeOK
  <2>3. BodyOK' /\ WaitForTerminationOK' /\ ResolvedQuiescent' /\ FolderOK'
      BY <2>0 DEF BodyOK, WaitForTerminationOK, ResolvedQuiescent, Resolved,
         FolderOK, TypeOK
  <2>. QED
      BY <2>1, <2>2, <2>3
\* The primary process exits, by itself or after its tree was killed.
<1>10. ASSUME ProcessExit \/ ProcessKilledExit PROVE IInv'
  <2>0. /\ pstate \in {"running", "killed"} /\ pstate' = "exited"
        /\ procSuccess' \in BOOLEAN /\ Live' = Live
        /\ UNCHANGED <<wt, sessions, drained, shells, list, lock, once, winner,
                       resultSet, resultErr, abortErr, strays, userState,
                       folder, pc, op, ret>>
      BY <1>10 DEF ProcessExit, ProcessKilledExit, Live
  <2>1. TypeOK' /\ CountOK' /\ OnceOK' /\ FolderOK'
    <3>1. TypeOK'
        BY <2>0 DEF TypeOK
    <3>2. CountOK' /\ FolderOK'
        BY <2>0 DEF CountOK, FolderOK
    <3>3. OnceOK'
        BY <2>0 DEF OnceOK, BodyPcs
    <3>. QED
        BY <3>1, <3>2, <3>3
  <2>2. BodyOK' /\ WaitForTerminationOK' /\ ResolvedQuiescent'
      BY <2>0 DEF BodyOK, WaitForTerminationOK, ResolvedQuiescent, Resolved
  <2>. QED
      BY <2>1, <2>2
\* waitForTermination: s.process.Wait() returned; WaitAndDrain drains.
<1>11. ASSUME WaitForTerminationDrain PROVE IInv'
  <2>0. /\ wt = "waitProc" /\ wt' = "waitShells" /\ pstate = "exited"
        /\ drained' = TRUE /\ Live' = Live
        /\ UNCHANGED <<pstate, procSuccess, sessions, shells, list, lock, once,
                       winner, resultSet, resultErr, abortErr, strays,
                       userState, folder, pc, op, ret>>
      BY <1>11 DEF WaitForTerminationDrain, Live
  <2>1. TypeOK' /\ CountOK' /\ OnceOK' /\ FolderOK'
    <3>1. TypeOK'
        BY <2>0 DEF TypeOK
    <3>2. CountOK' /\ FolderOK'
        BY <2>0 DEF CountOK, FolderOK
    <3>3. OnceOK'
        BY <2>0 DEF OnceOK, BodyPcs
    <3>. QED
        BY <3>1, <3>2, <3>3
  <2>2. BodyOK' /\ WaitForTerminationOK' /\ ResolvedQuiescent'
      BY <2>0 DEF BodyOK, WaitForTerminationOK, ResolvedQuiescent, Resolved
  <2>. QED
      BY <2>1, <2>2
\* waitForTermination: no session is left; s.resolve.Do runs the natural
\* completion unless Kill or Abort entered it first.
<1>12. ASSUME WaitForTerminationResolve PROVE IInv'
  <2>0. /\ wt = "waitShells" /\ wt' = "done" /\ sessions = 0
        /\ Live' = Live
        /\ UNCHANGED <<pstate, procSuccess, sessions, drained, shells, list,
                       lock, resultErr, userState, folder, pc, op, ret>>
      BY <1>12 DEF WaitForTerminationResolve, Live
  <2>1. /\ drained /\ pstate = "exited"
        /\ Live = {} /\ lock = NoHolder
      BY <2>0, QuiescentLive DEF WaitForTerminationOK
  <2>2. CASE once = "idle"
    <3>0. /\ CreateUser => strays' = FALSE
          /\ strays' \in BOOLEAN
          /\ resultSet' \in {"success", "failure"}
          /\ abortErr' = "terminated" /\ once' = "done" /\ winner' = "natural"
        BY <1>12, <2>2 DEF WaitForTerminationResolve, KillByOwner, TypeOK
    <3>1. \A d \in Callers : pc[d] \notin BodyPcs
        BY <2>2 DEF OnceOK
    <3>2. TypeOK' /\ CountOK' /\ FolderOK'
        BY <2>0, <3>0 DEF TypeOK, CountOK, FolderOK
    <3>3. OnceOK' /\ BodyOK' /\ WaitForTerminationOK'
        BY <2>0, <2>1, <3>0, <3>1 DEF OnceOK, BodyOK, WaitForTerminationOK
    <3>4. ResolvedQuiescent'
        BY <2>0, <2>1, <3>0 DEF ResolvedQuiescent, Resolved
    <3>. QED
        BY <3>2, <3>3, <3>4
  <2>3. CASE once # "idle"
    <3>0. UNCHANGED <<strays, resultSet, abortErr, once, winner>>
        BY <1>12, <2>3 DEF WaitForTerminationResolve
    <3>1. TypeOK' /\ CountOK' /\ OnceOK' /\ FolderOK'
      <4>1. TypeOK'
          BY <2>0, <3>0 DEF TypeOK
      <4>2. CountOK' /\ FolderOK'
          BY <2>0, <3>0 DEF CountOK, FolderOK
      <4>3. OnceOK'
          BY <2>0, <3>0 DEF OnceOK, BodyPcs
      <4>. QED
          BY <4>1, <4>2, <4>3
    <3>2. BodyOK' /\ WaitForTerminationOK' /\ ResolvedQuiescent'
        BY <2>0, <2>1, <3>0 DEF BodyOK, WaitForTerminationOK,
           ResolvedQuiescent, Resolved
    <3>. QED
        BY <3>1, <3>2
  <2>. QED
      BY <2>2, <2>3
\* A shell exits, by itself or after it was aborted; it stays counted.
<1>13. ASSUME NEW s \in ShellIds, ShellExit(s) \/ ShellAbortedExit(s)
       PROVE IInv'
  <2>0. /\ shells[s] \in {"running", "aborting"}
        /\ shells' = [shells EXCEPT ![s] = "exited"]
        /\ UNCHANGED <<pstate, procSuccess, wt, sessions, drained, list, lock,
                       once, winner, resultSet, resultErr, abortErr, strays,
                       userState, folder, pc, op, ret>>
      BY <1>13 DEF ShellExit, ShellAbortedExit
  <2>1. Live' = Live
      BY <2>0, LiveKept DEF TypeOK
  <2>2. TypeOK' /\ CountOK' /\ OnceOK' /\ FolderOK'
    <3>1. TypeOK'
        BY <2>0, <2>1 DEF TypeOK, ShellStates
    <3>2. CountOK' /\ FolderOK'
        BY <2>0, <2>1 DEF CountOK, FolderOK
    <3>3. OnceOK'
        BY <2>0, <2>1 DEF OnceOK, BodyPcs
    <3>. QED
        BY <3>1, <3>2, <3>3
  <2>3. BodyOK' /\ WaitForTerminationOK' /\ ResolvedQuiescent'
      BY <2>0, <2>1 DEF BodyOK, WaitForTerminationOK, ResolvedQuiescent,
         Resolved
  <2>. QED
      BY <2>2, <2>3
\* The completion goroutine removes an exited shell and calls Done().
<1>14. ASSUME NEW s \in ShellIds, ShellDone(s) PROVE IInv'
  <2>0. /\ shells[s] = "exited" /\ lock = NoHolder
        /\ shells' = [shells EXCEPT ![s] = "gone"]
        /\ list' = list \ {s} /\ sessions' = sessions - 1
        /\ UNCHANGED <<pstate, procSuccess, wt, drained, lock, once, winner,
                       resultSet, resultErr, abortErr, strays, userState,
                       folder, pc, op, ret>>
      BY <1>14 DEF ShellDone, SessionsDone
  <2>1. Live' = Live \ {s} /\ s \in Live
      BY <2>0 DEF Live, TypeOK
  <2>2. Cardinality(Live') = Cardinality(Live) - 1 /\ sessions = Cardinality(Live)
      BY <2>0, <2>1, <1>0, FS_RemoveElement DEF CountOK
  <2>3. ~Resolved /\ \A d \in Callers : pc[d] # "finish"
      BY <2>0, <2>1, <2>2, <1>0 DEF ResolvedQuiescent, Resolved, BodyOK
  <2>4. TypeOK'
      BY <2>0, <2>2, <1>0 DEF TypeOK, ShellStates
  <2>5. CountOK'
      BY <2>0, <2>2, <1>0 DEF CountOK
  <2>6. OnceOK' /\ BodyOK' /\ FolderOK'
      BY <2>0, <2>3 DEF OnceOK, BodyOK, BodyPcs, FolderOK
  <2>7. WaitForTerminationOK' /\ ResolvedQuiescent'
      BY <2>0, <2>3 DEF WaitForTerminationOK, ResolvedQuiescent, Resolved
  <2>. QED
      BY <2>4, <2>5, <2>6, <2>7
\* A process of the task escapes the tree: only while something of the task
\* still runs, hence never after resolution.
<1>15. ASSUME StraySpawn PROVE IInv'
  <2>0. /\ strays' = TRUE /\ Live' = Live
        /\ UNCHANGED <<pstate, procSuccess, wt, sessions, drained, shells,
                       list, lock, once, winner, resultSet, resultErr,
                       abortErr, userState, folder, pc, op, ret>>
      BY <1>15 DEF StraySpawn, Live
  <2>1. ~Resolved
      BY <1>15 DEF StraySpawn, ResolvedQuiescent, Live
  <2>2. TypeOK' /\ CountOK' /\ OnceOK' /\ FolderOK'
    <3>1. TypeOK'
        BY <2>0 DEF TypeOK
    <3>2. CountOK' /\ FolderOK'
        BY <2>0 DEF CountOK, FolderOK
    <3>3. OnceOK'
        BY <2>0 DEF OnceOK, BodyPcs
    <3>. QED
        BY <3>1, <3>2, <3>3
  <2>3. BodyOK' /\ WaitForTerminationOK' /\ ResolvedQuiescent'
      BY <2>0, <2>1 DEF BodyOK, WaitForTerminationOK, ResolvedQuiescent,
         Resolved
  <2>. QED
      BY <2>2, <2>3
\* A stuttering step.
<1>16. CASE UNCHANGED vars
  <2>1. Live' = Live
      BY <1>16 DEF vars, Live
  <2>2. TypeOK' /\ CountOK' /\ FolderOK'
      BY <1>16, <2>1 DEF vars, TypeOK, CountOK, FolderOK
  <2>3. OnceOK' /\ BodyOK'
      BY <1>16 DEF vars, OnceOK, BodyOK, BodyPcs
  <2>4. WaitForTerminationOK' /\ ResolvedQuiescent'
      BY <1>16, <2>1 DEF vars, WaitForTerminationOK, ResolvedQuiescent,
         Resolved
  <2>. QED
      BY <2>2, <2>3, <2>4
<1>. QED
    BY <1>1, <1>2, <1>3, <1>4, <1>5, <1>6, <1>7, <1>8, <1>9, <1>10, <1>11,
       <1>12, <1>13, <1>14, <1>15, <1>16 DEF Next, Internal, Kill, Abort

-----------------------------------------------------------------------------
(* Theorems.                                                               *)

\* Every reachable state of the sandbox is well typed; in particular the
\* s.sessions counter never goes below zero whatever the order of NewShell,
\* shell completion, abortShells and waitForTermination.
THEOREM TypeCorrect == Spec => []TypeOK
<1>1. Init => IInv
    BY InitIInv
<1>2. IInv /\ [Next]_vars => IInv'
    BY NextIInv
<1>3. IInv => TypeOK
    BY DEF IInv
<1>. QED
    BY <1>1, <1>2, <1>3, PTL DEF Spec

\* Section 4.1's ordering invariant holds for every set of callers and every
\* finite set of shells: once s.resolve is done, by waitForTermination, Kill
\* or Abort, the process is not running, the counter is drained and zero, no
\* shell is alive, and an owned user's strays, user and folder are gone.
THEOREM ResolvedQuiescentHolds == Spec => []ResolvedQuiescent
<1>1. IInv => ResolvedQuiescent
    BY DEF IInv
<1>. QED
    BY <1>1, InitIInv, NextIInv, PTL DEF Spec

\* No step after resolution writes the result: KillFinish and AbortFinish
\* only run while s.resolve is running, and waitForTermination's body only
\* when it is idle.
LEMMA NextResultImmutable ==
    IInv /\ [Next]_vars => [Resolved => UNCHANGED <<resultSet, resultErr,
                                                     abortErr, winner>>]_vars
<1> SUFFICES ASSUME IInv, [Next]_vars, Resolved
             PROVE  UNCHANGED <<resultSet, resultErr, abortErr, winner>>
    OBVIOUS
<1>. USE DEF IInv, Resolved
<1>1. ASSUME NEW c \in Callers, KillFinish(c) \/ AbortFinish(c) PROVE FALSE
    BY <1>1 DEF KillFinish, AbortFinish, OnceOK, BodyPcs
<1>2. ASSUME NEW c \in Callers, NEW o \in {"kill", "abort"}, ResolveCall(c, o)
      PROVE  UNCHANGED winner
    BY <1>2 DEF ResolveCall
<1>3. ASSUME WaitForTerminationResolve
      PROVE  UNCHANGED <<resultSet, abortErr, winner>>
    BY <1>3 DEF WaitForTerminationResolve
<1>4. ASSUME NEW c \in Callers,
             \/ NewShellAdd(c) \/ NewShellSpawn(c) \/ WaitForResult(c)
             \/ KillProcessTree(c) \/ AbortShellsDrain(c)
             \/ AbortShellsWait(c) \/ CallReturn(c)
      PROVE  UNCHANGED <<resultSet, resultErr, abortErr, winner>>
    BY <1>4 DEF NewShellAdd, NewShellSpawn, WaitForResult, KillProcessTree,
       AbortShellsDrain, AbortShellsWait, CallReturn
<1>5. ASSUME \/ ProcessExit \/ ProcessKilledExit \/ WaitForTerminationDrain
             \/ StraySpawn
             \/ \E s \in ShellIds :
                   ShellExit(s) \/ ShellAbortedExit(s) \/ ShellDone(s)
      PROVE  UNCHANGED <<resultSet, resultErr, abortErr, winner>>
    BY <1>5 DEF ProcessExit, ProcessKilledExit, WaitForTerminationDrain,
       ShellExit, ShellAbortedExit, ShellDone, StraySpawn
<1>6. ASSUME NEW c \in Callers, NEW o \in {"kill", "abort"}, ResolveCall(c, o)
      PROVE  UNCHANGED <<resultSet, resultErr, abortErr, winner>>
    BY <1>2, <1>6 DEF ResolveCall
<1>7. ASSUME WaitForTerminationResolve
      PROVE  UNCHANGED <<resultSet, resultErr, abortErr, winner>>
    BY <1>3, <1>7 DEF WaitForTerminationResolve
<1>8. ASSUME UNCHANGED vars
      PROVE  UNCHANGED <<resultSet, resultErr, abortErr, winner>>
    BY <1>8 DEF vars
<1>. QED
    BY <1>1, <1>4, <1>5, <1>6, <1>7, <1>8 DEF Next, Internal, Kill, Abort

\* The result of s.resolve is written once: whichever of waitForTermination,
\* Kill and Abort won, no later step of any of them changes s.resultSet,
\* s.resultErr, s.abortErr or the winner.
THEOREM ResultImmutableHolds == Spec => ResultImmutable
<1>. QED
    BY InitIInv, NextIInv, NextResultImmutable, PTL DEF Spec, ResultImmutable

=============================================================================
