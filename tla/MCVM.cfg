\* Start, monitor, exit watcher and Kill of a VM as vm.go intends it: the
\* socket sub-folder exists and Create events are matched by file name.
CONSTANTS
    vnc = vnc
    qmp = qmp
    SocketFiles <- MCSocketFiles
    SocketFolderExists = TRUE
    EventNameBase = TRUE
SPECIFICATION FairSpec
INVARIANT DoneClosedOnce StartReturnsReadyOrDone DoneMeansStopped
PROPERTY StartTerminates ImplementsLifecycle
\* Start, teardown and the monitor all end: a finished VM has no step left.
CHECK_DEADLOCK FALSE
