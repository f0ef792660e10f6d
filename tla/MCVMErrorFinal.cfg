\* vm.Error after Done, for a VM as vm.go intends it.
CONSTANTS
    vnc = vnc
    qmp = qmp
    SocketFiles <- MCSocketFiles
    SocketFolderExists = TRUE
    EventNameBase = TRUE
SPECIFICATION Spec
PROPERTY ErrorFixedOnceDone
\* Start, teardown and the monitor all end: a finished VM has no step left.
CHECK_DEADLOCK FALSE
