\* The process table on two CPUs, failing forks included.
SPECIFICATION Spec
CONSTANTS
    NPROC = 3
    NCPU = 2
    MaxPid = 3
    KillPid <- ForkedPids
    MaxSleep = 1
    FullTable = TRUE
INVARIANTS ProcSound NoLostWakeup
PROPERTIES KilledExits SleepEnds OrphansReaped
