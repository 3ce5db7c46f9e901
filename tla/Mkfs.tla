-------------------------------- MODULE Mkfs --------------------------------
(***************************************************************************)
(* The image that tools/mkfs.c builds: the directories /, /dev, /bin and   *)
(* /home, and the files it is given, with their inodes, direct and         *)
(* indirect blocks and the free map.                                       *)
(*                                                                         *)
(* Only data blocks are numbered, from 1; boot block, super block, log,    *)
(* inode blocks and free map come before them.  A cell of a block is a     *)
(* byte, a directory entry <<inum, name>>, or an address.  mkfs asserts    *)
(* that no file outgrows MAXFILE and does not check that everything fits   *)
(* on the disk; here both are asked of its arguments (Fits).               *)
(***************************************************************************)
EXTENDS Integers, Sequences, FiniteSets, SequencesExt

CONSTANTS NINODES,      \* inodes on the disk
          NBLOCKS,      \* data blocks
          BSIZE,        \* cells of a block
          NDIRECT,      \* addresses in an inode
          NINDIRECT     \* addresses in its indirect block

None == 0
ROOTINO == 1
Inum == 1 .. NINODES
Block == 1 .. NBLOCKS
Cell == 0 .. BSIZE - 1
MAXFILE == NDIRECT + NINDIRECT
Zeroed == [c \in Cell |-> 0]

\* A disk of zeroes.
Blank ==
    [block |-> [b \in Block |-> Zeroed], bitmap |-> {},
     dinode |-> [i \in Inum |->
                   [type |-> "none", size |-> 0, addrs |-> [k \in 0 .. NDIRECT |-> None]]],
     freeinode |-> 1, freeblock |-> 1]

ialloc(s, type) == [s EXCEPT !.dinode[s.freeinode].type = type, !.freeinode = @ + 1]

\* The next free block goes to address k of inode i, or to cell k of block a,
\* if there is none yet.
AllocDirect(s, i, k) ==
    IF s.dinode[i].addrs[k] # None THEN s
    ELSE [s EXCEPT !.dinode[i].addrs[k] = s.freeblock, !.freeblock = @ + 1]
AllocIndirect(s, a, k) ==
    IF s.block[a][k] # None THEN s
    ELSE [s EXCEPT !.block[a][k] = s.freeblock, !.freeblock = @ + 1]

\* iappend, one cell at a time.
AppendCell(s, i, x) ==
    LET size == s.dinode[i].size
        fbn == size \div BSIZE
        direct == fbn < NDIRECT
        s1 == AllocDirect(s, i, IF direct THEN fbn ELSE NDIRECT)
        a == s1.dinode[i].addrs[IF direct THEN fbn ELSE NDIRECT]
        s2 == IF direct THEN s1 ELSE AllocIndirect(s1, a, fbn - NDIRECT)
        b == IF direct THEN a ELSE s2.block[a][fbn - NDIRECT]
    IN  [s2 EXCEPT !.block[b][size % BSIZE] = x, !.dinode[i].size = @ + 1]

iappend(s, i, cells) == FoldLeft(LAMBDA t, x : AppendCell(t, i, x), s, cells)

\* A directory with . and .., entered in the root.
MakeDir(s, name) ==
    LET i == s.freeinode
        t == iappend(ialloc(s, "T_DIR"), i, <<<<i, ".">>, <<ROOTINO, "..">>>>)
    IN  IF i = ROOTINO THEN t ELSE iappend(t, ROOTINO, <<<<i, name>>>>)

makedirs(s) == FoldLeft(MakeDir, s, <<"/", "dev", "bin", "home">>)
binino == 3
homeino == 4

\* Names with a leading _ go to /bin, the others to /home.
AddFile(s, arg) ==
    LET i == s.freeinode
        t == iappend(ialloc(s, "T_FILE"), IF arg.under THEN binino ELSE homeino,
                     <<<<i, arg.name>>>>)
    IN  iappend(t, i, arg.bytes)

balloc(s) == [s EXCEPT !.bitmap = 1 .. s.freeblock - 1]

main(args) == balloc(FoldLeft(AddFile, makedirs(Blank), args))

\* The inodes and blocks are enough.
Fits(args) ==
    LET s == main(args)
    IN  /\ s.freeinode <= NINODES + 1 /\ s.freeblock <= NBLOCKS + 1
        /\ \A i \in Inum : s.dinode[i].size <= MAXFILE * BSIZE

(***************************************************************************)
(* What the image should hold: the n-th argument is file 4 + n, and the    *)
(* directories list what is in them, in the order of the arguments.        *)
(***************************************************************************)
Entries(args, under) ==
    LET named == [n \in 1 .. Len(args) |-> <<4 + n, args[n].name>>]
    IN  SelectSeq(named, LAMBDA e : args[e[1] - 4].under = under)
Wanted(args) ==
    [i \in Inum |->
        IF i > 4 THEN IF i - 4 <= Len(args) THEN args[i - 4].bytes ELSE <<>>
        ELSE <<<<i, ".">>, <<ROOTINO, "..">>>>
             \o CASE i = 1 -> <<<<2, "dev">>, <<3, "bin">>, <<4, "home">>>>
                  [] i = 2 -> <<>>
                  [] i = 3 -> Entries(args, TRUE)
                  [] i = 4 -> Entries(args, FALSE)]
=============================================================================
