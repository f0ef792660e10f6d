-------------------------- MODULE ConstructionProofs --------------------------
(***************************************************************************)
(* Proof that newSandbox leaks nothing when it fails and returns a sandbox *)
(* holding what it acquired (NoLeakOnFailure), for every set of context    *)
(* kinds and both values of CreateUser, in the lifecycle that runs the     *)
(* constructor and then the sandbox.  The invariant is not inductive as    *)
(* stated: it says nothing about what newSandbox holds at each statement  *)
(* before it returns.  CInv adds that: which user and working folder each *)
(* statement of newSandbox and fetchContext runs with, and that nothing   *)
(* is returned or started before the end.                                  *)
(***************************************************************************)
EXTENDS SandboxLifecycle, SandboxOutcomeProofs, TLAPS

Steps == {"folder", "user", "currentUser", "download", "chmod", "chown",
          "unpack", "untar", "start", "returned"}

\* The statements that run once newSandbox holds its user.
HoldingSteps == {"download", "chmod", "chown", "unpack", "untar", "start"}

\* The user and working folder newSandbox holds from then on.
HeldUser == IF CreateUser THEN "owned" ELSE "ambient"
HeldFolder == IF CreateUser THEN "present" ELSE "none"

CTypeOK ==
    /\ step \in Steps
    /\ context \in ContextKinds
    /\ workingFolder \in {"none", "present", "removed"}
    /\ user \in {"none", "owned", "ambient", "removed"}
    /\ process \in {"none", "started"}
    /\ err \in {"nil", "infra", "malformed"}
    /\ result \in {"pending", "sandbox", "infra", "malformed"}

\* What newSandbox holds at each statement before it returns.
StageHeld ==
    /\ step = "folder" =>
          CreateUser /\ workingFolder = "none" /\ user = "none"
    /\ step = "user" =>
          CreateUser /\ workingFolder = "present" /\ user = "none"
    /\ step = "currentUser" =>
          ~CreateUser /\ workingFolder = "none" /\ user = "none"
    /\ step \in HoldingSteps =>
          user = HeldUser /\ workingFolder = HeldFolder

\* Nothing is returned, and no process started, before newSandbox returns.
NotYetReturned ==
    /\ step # "returned" <=> result = "pending"
    /\ step # "returned" => process = "none"

CInv == CTypeOK /\ StageHeld /\ NotYetReturned /\ NoLeakOnFailure

-----------------------------------------------------------------------------

\* The initial state satisfies CInv.
LEMMA InitCInv == ConstructionInit => CInv
BY ConfigAssumption
   DEF ConstructionInit, CInv, CTypeOK, Steps, StageHeld, HoldingSteps,
       NotYetReturned, NoLeakOnFailure

\* The deferred cleanup, from any statement before the return, keeps CInv.
LEMMA FailCInv ==
    ASSUME CInv, step # "returned", NEW e \in {"infra", "malformed"}, Fail(e)
    PROVE  CInv'
BY ConfigAssumption
   DEF Fail, CInv, CTypeOK, Steps, StageHeld, HoldingSteps, HeldUser,
       HeldFolder, NotYetReturned, NoLeakOnFailure

\* Moving on between two statements that hold the user keeps CInv.
LEMMA GotoCInv ==
    ASSUME CInv, step \in HoldingSteps, NEW s \in HoldingSteps, Goto(s)
    PROVE  CInv'
BY DEF Goto, CInv, CTypeOK, Steps, StageHeld, HoldingSteps,
       NotYetReturned, NoLeakOnFailure

\* Every step of newSandbox keeps CInv.
LEMMA NextCInv == CInv /\ ConstructionNext => CInv'
<1> SUFFICES ASSUME CInv, ConstructionNext PROVE CInv'
    OBVIOUS
<1>. DEFINE Failing == \E e \in {"infra", "malformed"} : Fail(e)
<1>0. Failing /\ step # "returned" => CInv'
    BY FailCInv
<1>1. CASE NewFolder
  <2>1. CASE workingFolder' = "present" /\ step' = "user"
             /\ UNCHANGED <<context, user, process, err, result>>
      BY <1>1, <2>1, ConfigAssumption
      DEF NewFolder, CInv, CTypeOK, Steps, StageHeld, HoldingSteps,
          NotYetReturned, NoLeakOnFailure
  <2>. QED  BY <1>0, <1>1, <2>1 DEF NewFolder
<1>2. CASE CreateSystemUser
  <2>1. CASE user' = "owned" /\ step' = AfterUser
             /\ UNCHANGED <<context, workingFolder, process, err, result>>
      BY <1>2, <2>1
      DEF CreateSystemUser, AfterUser, CInv, CTypeOK, Steps, StageHeld,
          HoldingSteps, HeldUser, HeldFolder, NotYetReturned, NoLeakOnFailure
  <2>. QED  BY <1>0, <1>2, <2>1 DEF CreateSystemUser
<1>3. CASE CurrentUser
  <2>1. CASE user' = "ambient" /\ step' = AfterUser
             /\ UNCHANGED <<context, workingFolder, process, err, result>>
      BY <1>3, <2>1, ConfigAssumption
      DEF CurrentUser, AfterUser, CInv, CTypeOK, Steps, StageHeld,
          HoldingSteps, HeldUser, HeldFolder, NotYetReturned, NoLeakOnFailure
  <2>. QED  BY <1>0, <1>3, <2>1 DEF CurrentUser
<1>4. CASE Download \/ Chmod \/ ChangeOwner \/ Untar
    BY <1>0, <1>4, GotoCInv DEF Download, Chmod, ChangeOwner, Untar,
       HoldingSteps
<1>5. CASE Unpack
    BY <1>0, <1>5, GotoCInv DEF Unpack, HoldingSteps
<1>6. CASE StartProcess
  <2>1. CASE process' = "started" /\ result' = "sandbox" /\ step' = "returned"
             /\ UNCHANGED <<context, workingFolder, user, err>>
      BY <1>6, <2>1
      DEF StartProcess, CInv, CTypeOK, Steps, StageHeld, HoldingSteps,
          HeldUser, HeldFolder, NotYetReturned, NoLeakOnFailure
  <2>. QED  BY <1>0, <1>6, <2>1 DEF StartProcess
<1>. QED
    BY <1>1, <1>2, <1>3, <1>4, <1>5, <1>6 DEF ConstructionNext

\* A step of the lifecycle is a step of newSandbox or leaves its state alone.
LEMMA LifecycleNextCInv == CInv /\ [LifecycleNext]_allvars => CInv'
<1> SUFFICES ASSUME CInv, [LifecycleNext]_allvars PROVE CInv'
    OBVIOUS
<1>1. CASE ConstructionNext
    BY <1>1, NextCInv
<1>2. CASE UNCHANGED cvars
    BY <1>2 DEF cvars, CInv, CTypeOK, StageHeld, NotYetReturned,
       NoLeakOnFailure
<1>. QED
    BY <1>1, <1>2 DEF LifecycleNext, allvars

-----------------------------------------------------------------------------
(* Theorem.                                                                *)

\* A newSandbox that fails leaves no created user, no working folder and
\* no process behind and never removes the current user; one that
\* succeeds returns the user and folder it acquired (sandbox.go L36-163),
\* whatever the context kind and whichever OS call fails.
THEOREM NoLeakOnFailureHolds == LifecycleSpec => []NoLeakOnFailure
<1>1. LifecycleInit => CInv
    BY InitCInv DEF LifecycleInit
<1>2. CInv => NoLeakOnFailure
    BY DEF CInv
<1>. QED
    BY <1>1, <1>2, LifecycleNextCInv, PTL DEF LifecycleSpec
\* A lifecycle step leaves the sandbox alone or is a step of the sandbox.
LEMMA LifecycleStepIsSandboxStep == [LifecycleNext]_allvars => [Next]_vars
BY DEF LifecycleNext, allvars

\* The sandbox part of the lifecycle behaves as the sandbox alone: the
\* constructor's steps leave it unchanged.
LEMMA LifecycleIsSandbox == LifecycleSpec => Spec
BY LifecycleStepIsSandboxStep, PTL DEF LifecycleSpec, LifecycleInit, Spec

\* The sandbox that newSandbox returns keeps the ordering invariant of
\* section 4.1 in the composed lifecycle: once s.resolve is done the
\* process is gone, the session count drained and zero, and an owned
\* user's processes, user and folder removed.
THEOREM LifecycleResolvedQuiescent == LifecycleSpec => []ResolvedQuiescent
BY LifecycleIsSandbox, ResolvedQuiescentHolds

\* The sandbox that newSandbox returns implements SandboxOutcome in the
\* composed lifecycle: one outcome, fixed after the drain, reported alike
\* to every Kill, Abort and WaitForResult.
THEOREM LifecycleImplementsOutcome == LifecycleSpec => ImplementsOutcome
BY LifecycleIsSandbox, SandboxImplementsOutcome

=============================================================================
