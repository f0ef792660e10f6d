\* The done-signal is closed only after every resource is released.
CONSTANTS
    vnc = vnc
    qmp = qmp
    SocketFiles <- MCSocketFiles
    SocketFolderExists = TRUE
    EventNameBase = FALSE
SPECIFICATION Spec
INVARIANT DoneImpliesReleased
\* Start, teardown and the monitor all end: a finished VM has no step left.
CHECK_DEADLOCK FALSE
