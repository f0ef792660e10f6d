--------------------------- MODULE SandboxLifecycle ---------------------------
(***************************************************************************)
(* A native sandbox from newSandbox to its resolution: the construction of *)
(* SandboxConstruction, followed, when newSandbox returns a sandbox, by    *)
(* the goroutines and callers of Sandbox.  The sandbox's state exists from *)
(* the start but nothing acts on it until the constructor has returned.    *)
(***************************************************************************)
EXTENDS Sandbox, SandboxConstruction

allvars == <<vars, cvars>>

LifecycleInit == ConstructionInit /\ Init

\* The constructor runs alone; once it has returned a sandbox, the sandbox
\* runs alone (go s.waitForTermination() is started at its return).
LifecycleNext ==
    \/ ConstructionNext /\ UNCHANGED vars
    \/ result = "sandbox" /\ Next /\ UNCHANGED cvars

LifecycleSpec == LifecycleInit /\ [][LifecycleNext]_allvars

=============================================================================
