\* ".." of a removed directory names an inode that was freed.
SPECIFICATION Spec
CONSTANTS
    Proc = {p1, p2}
    NoProc = NoProc
    Name = {"a", "b"}
    NINODES = 3
    NINODE = 3
    NFILE = 2
    NOFILE = 2
    Workloads <- GoingUp
SYMMETRY Perms
CHECK_DEADLOCK FALSE
INVARIANT NoPanic
