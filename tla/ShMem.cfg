\* Programs that follow primestart's protocol, any programs, and any sizes.
SPECIFICATION Spec
CONSTANTS
    NPROC = 3
    Page = {g1, g2, g3, g4, g5}
    NoPage = NoPage
    PGSIZE = 4
    INT = 2
    NPTE = 4
    SHAREBASE = 16
    KERNBASE = 48
    MAXSHARED = 3
    NSTACK = 1
    Name = {"index", "niz", "x"}
    NoName = "none"
    ExecSize = {4}
    Workloads <- ThreeWorkloads
SYMMETRY PagePerms
INVARIANTS TableSound SharedSound PagesSound
CHECK_DEADLOCK FALSE
