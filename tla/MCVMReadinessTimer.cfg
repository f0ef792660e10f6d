\* The code as it is: Create events carry the path, not the bare name.
CONSTANTS
    SocketFiles <- MCSocketFiles
    Timeout <- MCTimeout
    EventNameBase = FALSE
SPECIFICATION TimerSpec
INVARIANT WorstCaseWatch
\* The monitor goroutine returns once it decided; time stops at Horizon.
CHECK_DEADLOCK FALSE
