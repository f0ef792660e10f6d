\* newSandbox with every context kind and every failing OS call, then the
\* sandbox it returns.  A failed newSandbox returns and nothing follows it.
CONSTANTS
    c1 = c1
    s1 = s1
    s2 = s2
    NoHolder = NoHolder
    Callers <- MCCallers
    ShellIds <- MCShellIds
    CreateUser = TRUE
    ContextKinds = {"none", "zip", "gz", "tar.gz", "other"}
SPECIFICATION LifecycleSpec
INVARIANT NoLeakOnFailure
CHECK_DEADLOCK FALSE
