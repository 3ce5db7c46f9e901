\* kill of a pid that no process has.
SPECIFICATION Spec
CONSTANTS
    NPROC = 3
    NCPU = 2
    MaxPid = 4
    KillPid = {0}
    MaxSleep = 1
    FullTable = FALSE
INVARIANTS KilledWasTarget
