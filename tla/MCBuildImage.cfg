\* buildImage around a VM as vm.go intends it (the socket sub-folder exists,
\* Create events are matched by name), with up to two SIGINTs.
CONSTANTS
    vnc = vnc
    qmp = qmp
    SocketFiles <- MCSocketFiles
    SocketFolderExists = TRUE
    EventNameBase = TRUE
    MaxSignals = 2
SPECIFICATION BuildFairSpec
INVARIANT PackageAfterCleanExit
PROPERTY InterruptEndsBuild
\* buildImage returns (or its process dies): a finished build has no step left.
CHECK_DEADLOCK FALSE
