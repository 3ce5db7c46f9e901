\* Two processes that read, write, close and are killed, on a ring of two
\* bytes whose counters wrap.
SPECIFICATION Spec
CONSTANTS
    Proc = {p1, p2}
    NoProc = NoProc
    Byte = {0, 1}
    PIPESIZE = 2
    Wrap = 4
    MaxCount = 1
INVARIANTS RingSound NoLostWakeup FreedUnused
PROPERTIES IsFIFO CloseUnblocks
CHECK_DEADLOCK FALSE
