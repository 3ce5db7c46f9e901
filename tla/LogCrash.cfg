\* Two operations of up to two blocks at once, and crashes at every step.  The
\* log on disk has room for fewer blocks than begin_op admits, as mkfs makes it.
SPECIFICATION Spec
CONSTANTS
    Proc = {p1, p2}
    Block = {b1, b2}
    Val = {0, 1}
    MAXOPBLOCKS = 2
    LOGSIZE = 4
    NLOG = 3
INVARIANTS LogSound NoLostWakeup
PROPERTIES IsAtomic BeginProgress
