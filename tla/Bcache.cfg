\* Two processes, two buffers and three blocks.  After the panic in bget, with
\* bcache.lock held, the kernel stops.
SPECIFICATION Spec
CONSTANTS
    Proc = {p1, p2}
    NoProc = NoProc
    NBUF = 2
    Block = {k1, k2, k3}
    NoBlock = NoBlock
    Val = {0, 1}
CHECK_DEADLOCK FALSE
INVARIANTS CacheSound
PROPERTIES IsStore Served
