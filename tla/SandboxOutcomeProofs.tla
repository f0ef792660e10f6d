------------------------- MODULE SandboxOutcomeProofs -------------------------
(***************************************************************************)
(* Proofs that the native sandbox reports one outcome consistently and    *)
(* implements its abstract specification SandboxOutcome, for every set of *)
(* callers and every finite set of shells.  Both rest on IInv of module   *)
(* SandboxProofs and on ResultOK below, which says what the stored result *)
(* (s.resultSet, s.resultErr, s.abortErr) is before and after s.resolve   *)
(* and which call a blocked caller is in.                                  *)
(***************************************************************************)
EXTENDS SandboxProofs

\* Before s.resolve is done the result is untouched; a caller only returns
\* from Kill, Abort or WaitForResult after it is done; a caller between
\* Add and spawn is in NewShell, one blocked on s.resolve in Kill, Abort or
\* WaitForResult; and the result agrees with the winner (OutcomeAgrees).
ResultOK ==
    /\ once # "done" =>
          resultSet = "none" /\ resultErr = "nil" /\ abortErr = "nil"
    /\ \A c \in Callers :
          /\ ret[c].op \in {"kill", "abort", "waitResult"} => once = "done"
          /\ pc[c] = "nsSpawn" => op[c] = "newShell"
          /\ pc[c] = "wait" => op[c] \in {"kill", "abort", "waitResult"}
    /\ OutcomeAgrees

\* The abstract image of a caller's control point.
PendingBar == [c \in Callers |-> IF pc[c] = "idle" THEN "none" ELSE op[c]]

-----------------------------------------------------------------------------

\* The initial state satisfies ResultOK.
LEMMA InitResultOK == Init => ResultOK
BY DEF Init, ResultOK, OutcomeAgrees, Resolved

\* Every step preserves ResultOK, given IInv.
LEMMA NextResultOK == IInv /\ ResultOK /\ [Next]_vars => ResultOK'
<1> SUFFICES ASSUME IInv, ResultOK, [Next]_vars PROVE ResultOK'
    OBVIOUS
<1>. USE DEF IInv
<1>1. ASSUME NEW c \in Callers, NewShellAdd(c) PROVE ResultOK'
    BY <1>1 DEF NewShellAdd, SessionsAdd, ResultOK, OutcomeAgrees, Resolved,
       TypeOK
<1>2. ASSUME NEW c \in Callers, NewShellSpawn(c) PROVE ResultOK'
    BY <1>2 DEF NewShellSpawn, SessionsDone, ResultOK, OutcomeAgrees, Resolved,
       TypeOK
<1>3. ASSUME NEW c \in Callers, NEW o \in {"kill", "abort"}, ResolveCall(c, o)
      PROVE ResultOK'
  <2>1. CASE once = "idle"
    <3>1. \A d \in Callers : ret[d].op \notin {"kill", "abort", "waitResult"}
        BY <2>1 DEF ResultOK
    <3>. QED
        BY <1>3, <2>1, <3>1 DEF ResolveCall, ResultOK, OutcomeAgrees, Resolved,
           TypeOK
  <2>2. CASE once # "idle"
      BY <1>3, <2>2 DEF ResolveCall, ResultOK, OutcomeAgrees, Resolved, TypeOK
  <2>. QED
      BY <2>1, <2>2
<1>4. ASSUME NEW c \in Callers, WaitForResult(c) PROVE ResultOK'
    BY <1>4 DEF WaitForResult, ResultOK, OutcomeAgrees, Resolved, TypeOK
<1>5. ASSUME NEW c \in Callers,
             \/ KillProcessTree(c) \/ AbortShellsDrain(c) \/ AbortShellsWait(c)
      PROVE ResultOK'
    BY <1>5 DEF KillProcessTree, AbortShellsDrain, AbortShellsWait, ResultOK,
       OutcomeAgrees, Resolved, TypeOK
<1>6. ASSUME NEW c \in Callers, KillFinish(c) PROVE ResultOK'
  <2>1. once = "running" /\ winner = "kill"
      BY <1>6 DEF KillFinish, OnceOK, BodyPcs
  <2>2. \A d \in Callers : ret[d].op \notin {"kill", "abort", "waitResult"}
      BY <2>1 DEF ResultOK
  <2>. QED
      BY <1>6, <2>1, <2>2 DEF KillFinish, KillByOwner, ResultOK, OutcomeAgrees,
         Resolved, TypeOK
<1>7. ASSUME NEW c \in Callers, AbortFinish(c) PROVE ResultOK'
  <2>1. once = "running" /\ winner = "abort"
      BY <1>7 DEF AbortFinish, OnceOK, BodyPcs
  <2>2. \A d \in Callers : ret[d].op \notin {"kill", "abort", "waitResult"}
      BY <2>1 DEF ResultOK
  <2>. QED
      BY <1>7, <2>1, <2>2 DEF AbortFinish, KillByOwner, ResultOK, OutcomeAgrees,
         Resolved, TypeOK
\* Kill and WaitForResult return s.resultErr, Abort s.abortErr.
<1>8. ASSUME NEW c \in Callers, CallReturn(c) PROVE ResultOK'
  <2>1. /\ once = "done" /\ pc[c] = "wait"
        /\ ret' = [ret EXCEPT ![c] =
                     [op |-> op[c],
                      err |-> IF op[c] = "abort" THEN abortErr ELSE resultErr]]
        /\ UNCHANGED <<once, winner, resultSet, resultErr, abortErr, op>>
      BY <1>8 DEF CallReturn, Resolved
  <2>2. \A d \in Callers : pc'[d] = "wait" => pc[d] = "wait"
      BY <1>8 DEF CallReturn, TypeOK
  <2>3. \A d \in Callers : pc'[d] = "nsSpawn" => pc[d] = "nsSpawn"
      BY <1>8 DEF CallReturn, TypeOK
  <2>. QED
      BY <2>1, <2>2, <2>3, <1>8 DEF CallReturn, ResultOK, OutcomeAgrees,
         Resolved, TypeOK
<1>9. ASSUME \/ ProcessExit \/ ProcessKilledExit \/ WaitForTerminationDrain
             \/ StraySpawn
      PROVE ResultOK'
    BY <1>9 DEF ProcessExit, ProcessKilledExit, WaitForTerminationDrain,
       StraySpawn, ResultOK, OutcomeAgrees, Resolved
<1>10. ASSUME WaitForTerminationResolve PROVE ResultOK'
  <2>1. CASE once = "idle"
    <3>1. \A d \in Callers : ret[d].op \notin {"kill", "abort", "waitResult"}
        BY <2>1 DEF ResultOK
    <3>. QED
        BY <1>10, <2>1, <3>1 DEF WaitForTerminationResolve, KillByOwner,
           ResultOK, OutcomeAgrees, Resolved, TypeOK
  <2>2. CASE once # "idle"
      BY <1>10, <2>2 DEF WaitForTerminationResolve, ResultOK, OutcomeAgrees,
         Resolved
  <2>. QED
      BY <2>1, <2>2
<1>11. ASSUME NEW s \in ShellIds,
              ShellExit(s) \/ ShellAbortedExit(s) \/ ShellDone(s)
       PROVE ResultOK'
    BY <1>11 DEF ShellExit, ShellAbortedExit, ShellDone, SessionsDone,
       ResultOK, OutcomeAgrees, Resolved
<1>12. CASE UNCHANGED vars
    BY <1>12 DEF vars, ResultOK, OutcomeAgrees, Resolved
<1>. QED
    BY <1>1, <1>2, <1>3, <1>4, <1>5, <1>6, <1>7, <1>8, <1>9, <1>10, <1>11,
       <1>12 DEF Next, Internal, Kill, Abort

-----------------------------------------------------------------------------
(* Theorems.                                                               *)

\* Kill, Abort and WaitForResult report the outcome of the path that won
\* s.resolve (sandbox.go L259-331): Abort returns nil only when an Abort
\* won, Kill and WaitForResult return ErrSandboxAborted exactly when one
\* did, and the stored result is the winner's.
THEOREM OutcomeAgreesHolds == Spec => []OutcomeAgrees
<1>1. Init => IInv /\ ResultOK
    BY InitIInv, InitResultOK
<1>2. IInv /\ ResultOK /\ [Next]_vars => IInv' /\ ResultOK'
    BY NextIInv, NextResultOK
<1>3. IInv /\ ResultOK => OutcomeAgrees
    BY DEF ResultOK
<1>. QED
    BY <1>1, <1>2, <1>3, PTL DEF Spec


-----------------------------------------------------------------------------
(* Refinement of SandboxOutcome.                                           *)

\* Once s.sessions is counted down to zero and mShells is free, no caller
\* is inside NewShell.
LEMMA NoShellPending ==
    ASSUME IInv, ResultOK, lock = NoHolder
    PROVE  \A d \in Callers : PendingBar[d] # "newShell"
<1> SUFFICES ASSUME NEW d \in Callers, pc[d] # "idle" PROVE op[d] # "newShell"
    BY DEF PendingBar
<1>1. pc[d] # "nsSpawn"
    BY ConstAssumption DEF IInv, CountOK
<1>2. CASE pc[d] \in BodyPcs
    BY <1>2 DEF IInv, OnceOK
<1>3. CASE pc[d] = "wait"
    BY <1>3 DEF ResultOK
<1>. QED
    BY <1>1, <1>2, <1>3 DEF IInv, TypeOK, CallerPcs, BodyPcs

\* The initial state of the sandbox is an initial state of SandboxOutcome.
LEMMA InitRefines == Init => Outcome!AInit
BY DEF Init, Outcome!AInit, ObservedOutcome

\* Every step of the sandbox is a step of SandboxOutcome or leaves its
\* variables unchanged.
LEMMA NextRefines ==
    IInv /\ ResultOK /\ [Next]_vars => [Outcome!ANext]_Outcome!avars
<1> SUFFICES ASSUME IInv, ResultOK, [Next]_vars
             PROVE  [Outcome!ANext]_Outcome!avars
    OBVIOUS
<1>. USE DEF IInv
\* A step that leaves the observed outcome, the drain, the callers' calls
\* and their answers alone is a stutter.
<1>0. ASSUME UNCHANGED <<ObservedOutcome, drained, PendingBar, ret>>
      PROVE  UNCHANGED Outcome!avars
    BY <1>0 DEF Outcome!avars, PendingBar
<1>1. ASSUME NEW c \in Callers, NewShellAdd(c) PROVE Outcome!ANext
  <2>1. CASE lock' = c
    <3>1. /\ ~drained /\ pc[c] = "idle"
          /\ pc' = [pc EXCEPT ![c] = "nsSpawn"]
          /\ op' = [op EXCEPT ![c] = "newShell"]
          /\ UNCHANGED <<drained, once, resultSet, resultErr, ret>>
        BY <1>1, <2>1, ConstAssumption DEF NewShellAdd, SessionsAdd
    <3>2. PendingBar[c] = "none"
        BY <3>1 DEF PendingBar
    <3>3. PendingBar' = [PendingBar EXCEPT ![c] = "newShell"]
        BY <3>1 DEF PendingBar, TypeOK
    <3>4. UNCHANGED ObservedOutcome
        BY <3>1 DEF ObservedOutcome
    <3>5. Outcome!StartShell(c)
        BY <3>1, <3>2, <3>3, <3>4 DEF Outcome!StartShell, PendingBar
    <3>. QED
        BY <3>5 DEF Outcome!ANext
  <2>2. CASE lock' # c
    <3>1. Outcome!RejectShell(c)
        BY <1>1, <2>2 DEF NewShellAdd, SessionsAdd, Outcome!RejectShell,
           ObservedOutcome, TypeOK
    <3>. QED
        BY <3>1 DEF Outcome!ANext
  <2>. QED
      BY <2>1, <2>2
<1>2. ASSUME NEW c \in Callers, NewShellSpawn(c) PROVE Outcome!ShellStarted(c)
  <2>1. op[c] = "newShell"
      BY <1>2 DEF NewShellSpawn, ResultOK
  <2>. QED
      BY <1>2, <2>1 DEF NewShellSpawn, SessionsDone, Outcome!ShellStarted,
         ObservedOutcome, TypeOK
<1>3. ASSUME NEW c \in Callers, NEW o \in {"kill", "abort", "waitResult"},
             ResolveCall(c, o) \/ (o = "waitResult" /\ WaitForResult(c))
      PROVE  Outcome!Call(c, o)
    BY <1>3 DEF ResolveCall, WaitForResult, Outcome!Call, ObservedOutcome,
       TypeOK
<1>4. ASSUME NEW c \in Callers,
             \/ KillProcessTree(c) \/ AbortShellsWait(c)
      PROVE  UNCHANGED Outcome!avars
  <2>1. UNCHANGED <<ObservedOutcome, drained, PendingBar, ret>>
      BY <1>4 DEF KillProcessTree, AbortShellsWait, ObservedOutcome,
         PendingBar, TypeOK
  <2>. QED
      BY <2>1, <1>0
<1>5. ASSUME \/ \E c \in Callers : AbortShellsDrain(c)
             \/ WaitForTerminationDrain
      PROVE  Outcome!StopIntake
  <2>1. UNCHANGED <<ObservedOutcome, PendingBar, ret>> /\ drained' = TRUE
      BY <1>5 DEF AbortShellsDrain, WaitForTerminationDrain, ObservedOutcome,
         PendingBar, TypeOK
  <2>. QED
      BY <2>1 DEF Outcome!StopIntake, PendingBar
\* The bodies of Kill and Abort fix the outcome.
<1>6. ASSUME NEW c \in Callers, KillFinish(c) \/ AbortFinish(c)
      PROVE  Outcome!Resolve
  <2>1. /\ pc[c] = "finish" /\ once = "running" /\ drained /\ sessions = 0
        /\ winner = op[c] /\ op[c] \in {"kill", "abort"}
      BY <1>6 DEF KillFinish, AbortFinish, OnceOK, BodyOK, BodyPcs
  <2>2. lock = NoHolder
      BY <2>1, QuiescentLive
  <2>3. \A d \in Callers : PendingBar[d] # "newShell"
      BY <2>2, NoShellPending
  <2>4. resultSet = "none" /\ resultErr = "nil" /\ abortErr = "nil"
      BY <2>1 DEF ResultOK
  <2>5. UNCHANGED <<drained, PendingBar, ret>>
      BY <1>6 DEF KillFinish, AbortFinish, PendingBar, TypeOK
  <2>6. CASE KillFinish(c)
    <3>1. ObservedOutcome' = "failure"
        BY <2>4, <2>6 DEF KillFinish, ObservedOutcome
    <3>. QED
        BY <2>1, <2>3, <2>5, <3>1 DEF Outcome!Resolve, ObservedOutcome, PendingBar
  <2>7. CASE AbortFinish(c)
    <3>1. ObservedOutcome' = "aborted" /\ op[c] = "abort"
        BY <2>7 DEF AbortFinish, ObservedOutcome
    <3>2. PendingBar[c] = "abort"
        BY <2>1, <3>1 DEF PendingBar
    <3>. QED
        BY <2>1, <2>3, <2>5, <3>1, <3>2 DEF Outcome!Resolve, ObservedOutcome,
           PendingBar
  <2>. QED
      BY <1>6, <2>6, <2>7
\* Kill and WaitForResult return s.resultErr, Abort s.abortErr.
<1>7. ASSUME NEW c \in Callers, CallReturn(c) PROVE Outcome!Return(c)
  <2>1. /\ once = "done" /\ pc[c] = "wait"
        /\ op[c] \in {"kill", "abort", "waitResult"}
      BY <1>7 DEF CallReturn, Resolved, ResultOK
  <2>2. ObservedOutcome # "none"
      BY <2>1 DEF ObservedOutcome, ResultOK, OutcomeAgrees, Resolved, TypeOK
  <2>3. (IF op[c] = "abort" THEN abortErr ELSE resultErr)
           = Outcome!Answer(op[c], ObservedOutcome)
      BY <2>1 DEF ObservedOutcome, Outcome!Answer, ResultOK, OutcomeAgrees,
         Resolved, TypeOK
  <2>4. UNCHANGED <<ObservedOutcome, drained>>
      BY <1>7 DEF CallReturn, ObservedOutcome
  <2>5. PendingBar' = [PendingBar EXCEPT ![c] = "none"]
      BY <1>7 DEF CallReturn, PendingBar, TypeOK
  <2>6. PendingBar[c] = op[c]
      BY <2>1 DEF PendingBar
  <2>7. ret' = [ret EXCEPT ![c] =
                  [op |-> PendingBar[c],
                   err |-> Outcome!Answer(PendingBar[c], ObservedOutcome)]]
      BY <1>7, <2>3, <2>6 DEF CallReturn
  <2>. QED
      BY <2>1, <2>2, <2>4, <2>5, <2>6, <2>7 DEF Outcome!Return, PendingBar
\* Natural completion fixes the outcome unless Kill or Abort won.
<1>8. ASSUME WaitForTerminationResolve
      PROVE  Outcome!Resolve \/ UNCHANGED Outcome!avars
  <2>1. sessions = 0 /\ drained
      BY <1>8 DEF WaitForTerminationResolve, WaitForTerminationOK
  <2>2. lock = NoHolder
      BY <2>1, QuiescentLive
  <2>3. UNCHANGED <<drained, PendingBar, ret>>
      BY <1>8 DEF WaitForTerminationResolve, PendingBar
  <2>4. CASE once = "idle"
    <3>1. resultErr = "nil"
        BY <2>4 DEF ResultOK
    <3>2. ObservedOutcome = "none"
        BY <2>4 DEF ObservedOutcome
    <3>3. ObservedOutcome' \in {"success", "failure"}
        BY <1>8, <2>4, <3>1 DEF WaitForTerminationResolve, ObservedOutcome
    <3>4. \A d \in Callers : PendingBar[d] # "newShell"
        BY <2>2, NoShellPending
    <3>. QED
        BY <2>1, <2>3, <3>2, <3>3, <3>4 DEF Outcome!Resolve, PendingBar
  <2>5. CASE once # "idle"
    <3>1. UNCHANGED ObservedOutcome
        BY <1>8, <2>5 DEF WaitForTerminationResolve, ObservedOutcome
    <3>. QED
        BY <2>3, <3>1, <1>0
  <2>. QED
      BY <2>4, <2>5
<1>9. ASSUME \/ ProcessExit \/ ProcessKilledExit \/ StraySpawn
             \/ \E s \in ShellIds :
                   ShellExit(s) \/ ShellAbortedExit(s) \/ ShellDone(s)
      PROVE  UNCHANGED Outcome!avars
  <2>1. UNCHANGED <<ObservedOutcome, drained, PendingBar, ret>>
      BY <1>9 DEF ProcessExit, ProcessKilledExit, StraySpawn, ShellExit,
         ShellAbortedExit, ShellDone, SessionsDone, ObservedOutcome, PendingBar
  <2>. QED
      BY <2>1, <1>0
<1>10. CASE UNCHANGED vars
    <2>1. UNCHANGED <<ObservedOutcome, drained, PendingBar, ret>>
        BY <1>10 DEF vars, ObservedOutcome, PendingBar
    <2>. QED
        BY <2>1, <1>0
<1>. QED
  <2>1. ASSUME NEW c \in Callers, ResolveCall(c, "kill") PROVE Outcome!ANext
      BY <2>1, <1>3 DEF Outcome!ANext, Outcome!Calls
  <2>2. ASSUME NEW c \in Callers, ResolveCall(c, "abort") PROVE Outcome!ANext
      BY <2>2, <1>3 DEF Outcome!ANext, Outcome!Calls
  <2>3. ASSUME NEW c \in Callers, WaitForResult(c) PROVE Outcome!ANext
      BY <2>3, <1>3 DEF Outcome!ANext, Outcome!Calls
  <2>4. ASSUME NEW c \in Callers, NewShellSpawn(c) \/ CallReturn(c)
        PROVE Outcome!ANext
      BY <2>4, <1>2, <1>7 DEF Outcome!ANext
  <2>5. ASSUME NEW c \in Callers, AbortShellsDrain(c) PROVE Outcome!ANext
      BY <2>5, <1>5 DEF Outcome!ANext
  <2>6. ASSUME NEW c \in Callers, KillFinish(c) \/ AbortFinish(c)
        PROVE Outcome!ANext
      BY <2>6, <1>6 DEF Outcome!ANext
  <2>7. WaitForTerminationDrain => Outcome!ANext
      BY <1>5 DEF Outcome!ANext
  <2>8. WaitForTerminationResolve => [Outcome!ANext]_Outcome!avars
      BY <1>8 DEF Outcome!ANext
  <2>. QED
      BY <1>1, <1>4, <1>9, <1>10, <2>1, <2>2, <2>3, <2>4, <2>5, <2>6, <2>7,
         <2>8 DEF Next, Internal, Kill, Abort

\* The native sandbox implements SandboxOutcome: NewShell is admitted only
\* before s.sessions is drained, s.resolve fixes one outcome after the drain
\* and never changes it, and Kill, Abort and WaitForResult return the error
\* that outcome dictates (sandbox.go L165-331).
THEOREM SandboxImplementsOutcome == Spec => ImplementsOutcome
<1>1. Init => IInv /\ ResultOK /\ Outcome!AInit
    BY InitIInv, InitResultOK, InitRefines
<1>2. IInv /\ ResultOK /\ [Next]_vars => IInv' /\ ResultOK'
    BY NextIInv, NextResultOK
<1>3. IInv /\ ResultOK /\ [Next]_vars => [Outcome!ANext]_Outcome!avars
    BY NextRefines
<1>. QED
    BY <1>1, <1>2, <1>3, PTL DEF Spec, ImplementsOutcome, Outcome!ASpec

=============================================================================
