\* The sandbox with an owned temporary user: safety, the refinement of
\* SandboxOutcome, and liveness of Kill and Abort under weak fairness.
CONSTANTS
    c1 = c1
    c2 = c2
    s1 = s1
    s2 = s2
    NoHolder = NoHolder
    Callers <- MCCallers
    ShellIds <- MCShellIds
    CreateUser = TRUE
SPECIFICATION FairSpec
INVARIANT TypeOK ResolvedQuiescent OutcomeAgrees
PROPERTY ResultImmutable ImplementsOutcome KillAbortReturn
