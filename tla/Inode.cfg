\* Two processes, three inodes and cache entries.  A process that panics stops.
SPECIFICATION Spec
CONSTANTS
    Proc = {p1, p2}
    NoProc = NoProc
    Name = {"a", "b"}
    NINODES = 3
    NINODE = 3
    NFILE = 2
    NOFILE = 2
    Workloads <- TreeAndFiles
SYMMETRY Perms
CHECK_DEADLOCK FALSE
INVARIANTS RefsSound FreedUnreachable NoPanicDown
