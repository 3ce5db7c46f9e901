\* Boot with two CPUs, then two processes that share what is left of the pages.
SPECIFICATION Spec
CONSTANTS
    NCPU = 2
    NPROC = 2
    Early = {1, 2}
    Late = {3, 4, 5, 6}
    MaxHeld = 1
    Workloads <- TwoMemories
INVARIANTS LocksSound InterruptsRight PagesSound
