\* A context download with an unrecognised archive extension.
CONSTANTS
    c1 = c1
    s1 = s1
    s2 = s2
    NoHolder = NoHolder
    Callers <- MCCallers
    ShellIds <- MCShellIds
    CreateUser = TRUE
    ContextKinds = {"none", "zip", "gz", "tar.gz", "other"}
SPECIFICATION LifecycleSpec
INVARIANT UnrecognizedContextRejected
\* newSandbox may return an error, after which nothing happens.
CHECK_DEADLOCK FALSE
