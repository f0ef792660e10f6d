\* The readiness monitor stops once QEMU is done, on the common path where
\* QEMU is spawned.
CONSTANTS
    vnc = vnc
    qmp = qmp
    SocketFiles <- MCSocketFiles
    SocketFolderExists = TRUE
    EventNameBase = FALSE
SPECIFICATION FairSpec
PROPERTY MonitorStops
ACTION_CONSTRAINT SpawnSucceeds
\* Start, teardown and the monitor all end: a finished VM has no step left.
CHECK_DEADLOCK FALSE
