\* A fork that failed on a full table of shared regions, then wait.
SPECIFICATION Spec
CONSTANTS
    NPROC = 3
    NCPU = 2
    MaxPid = 4
    KillPid <- ForkedPids
    MaxSleep = 1
    FullTable = TRUE
INVARIANTS WaitHasChild
