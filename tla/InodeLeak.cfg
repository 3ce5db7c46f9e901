\* Two last references are put at once.
SPECIFICATION Spec
CONSTANTS
    Proc = {p1, p2}
    NoProc = NoProc
    Name = {"a", "b"}
    NINODES = 3
    NINODE = 3
    NFILE = 2
    NOFILE = 2
    Workloads <- OneName
SYMMETRY Perms
CHECK_DEADLOCK FALSE
INVARIANT NoOrphan
