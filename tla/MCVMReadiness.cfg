\* A readiness-monitor error becomes vm.Error.
CONSTANTS
    vnc = vnc
    qmp = qmp
    SocketFiles <- MCSocketFiles
    SocketFolderExists = TRUE
    EventNameBase = FALSE
SPECIFICATION Spec
INVARIANT ReadinessErrorRecorded
\* Start, teardown and the monitor all end: a finished VM has no step left.
CHECK_DEADLOCK FALSE
