\* Two processes, two open files, files of up to three blocks on a disk with
\* four blocks for them.  The kernel stops when balloc finds no block.
SPECIFICATION Spec
CONSTANTS
    Proc = {p1, p2}
    NoProc = NoProc
    NINODES = 6
    Unlinked = {5}
    File = {f1, f2}
    Mode = {"rw"}
    NBLOCKS = 15
    BSIZE = 2
    NDIRECT = 1
    NINDIRECT = 2
    BPB = 1
    MAXOPBLOCKS = 6
    Images <- ProgramAndText
    Writes <- Strings
    Reads = {3}
SYMMETRY Perms
CHECK_DEADLOCK FALSE
INVARIANTS BlocksSound FitsLog
PROPERTIES IsStore
