------------------------------ MODULE FileData ------------------------------
(***************************************************************************)
(* The contents of files: fileread and filewrite (kernel/file.c) on readi, *)
(* writei, bmap, itrunc, balloc and bfree (kernel/fs.c).  Processes share  *)
(* open files, open files share inodes, and inodes share the free map.     *)
(*                                                                         *)
(* A call holds the inode's sleep lock while it copies; one step is what   *)
(* it does to one block.  filewrite cuts a write into transactions and     *)
(* lets the lock go between them.  A block is a row of cells, each one a   *)
(* byte of a file or, in an indirect block, an address.  The disk is the   *)
(* one that module Mkfs makes, directories included.                       *)
(***************************************************************************)
EXTENDS Mkfs

CONSTANTS Proc,         \* processes, who inherit each other's open files
          NoProc,
          Unlinked,     \* those that have no name left
          File,         \* open files
          Mode,         \* how files are opened: "r", "w", "rw"
          Images,       \* the files that mkfs may be given
          BPB,          \* blocks for which one block of the free map speaks
          MAXOPBLOCKS,  \* blocks that one transaction may write
          Writes,       \* what programs write
          Reads         \* how many bytes they ask for

ASSUME FileAssumption ==
    /\ NBLOCKS \in Nat /\ BSIZE \in Nat \ {0} /\ NDIRECT \in Nat
    /\ NINDIRECT \in 0 .. BSIZE
    /\ BPB \in Nat \ {0} /\ MAXOPBLOCKS \in Nat
    /\ NINODES \in Nat /\ Unlinked \subseteq 1 .. NINODES
    /\ Writes \subseteq Seq(Nat) \ {<<>>} /\ Reads \subseteq Nat
    /\ \A args \in Images : Fits(args)

VARIABLES bitmap,    \* the blocks marked in use
          block,     \* what is in each block
          dinode,    \* the inodes on disk, once the log is installed
          inode,     \* their copies in the cache, with the sleep locks
          file,      \* the open files
          call,      \* what each process is doing
          logged,    \* the blocks its transaction has written, but the inode's
          panicked   \* balloc found no block, or bfree a free one

vars == <<bitmap, block, dinode, inode, file, call, logged, panicked>>

\* pc; the open file or, in itrunc, the inode; the offset of the next byte
\* or, in itrunc, the next address; the bytes to copy before the lock is let
\* go; the bytes still to be written, and read so far.
Idle == [pc |-> "idle", f |-> None, i |-> None, at |-> 0, left |-> 0,
         src |-> <<>>, got |-> <<>>]
PC == {"idle", "wnext", "write", "read", "trunc"}

TypeOK ==
    /\ bitmap \subseteq Block
    /\ \A b \in Block : DOMAIN block[b] = Cell
    /\ \A i \in Inum : /\ inode[i].size \in 0 .. MAXFILE * BSIZE
                       /\ inode[i].addrs \in [0 .. NDIRECT -> Block \cup {None}]
                       /\ inode[i].holder \in Proc \cup {NoProc}
    /\ \A f \in File : /\ file[f].ip \in Inum \cup {None}
                       /\ file[f].off \in 0 .. MAXFILE * BSIZE
    /\ \A p \in Proc : call[p].pc \in PC
    /\ panicked \in BOOLEAN

(***************************************************************************)
(* The free map, and the map from a file's blocks to the disk's            *)
(***************************************************************************)
\* What bmap works on and returns: a copy of the map, of the blocks and of the
\* inode's addresses, the address it found, and the blocks it wrote.
State(i) == [bitmap |-> bitmap, block |-> block, addrs |-> inode[i].addrs,
             addr |-> None, log |-> {}, full |-> FALSE]

Disk(n) == [type |-> n.type, size |-> n.size, addrs |-> n.addrs]
MapBlock(b) == <<"map", (b - 1) \div BPB>>
DataBlock(b) == <<"data", b>>

\* Mutant: the block is not zeroed.
BallocDirty(s) ==
    LET Free == Block \ s.bitmap
        b == Min(Free)
    IN  IF Free = {} THEN [s EXCEPT !.full = TRUE]
        ELSE [s EXCEPT !.bitmap = @ \cup {b}, !.addr = b,
                       !.log = @ \cup {MapBlock(b), DataBlock(b)}]

\* The first free block, marked and zeroed.
Balloc(s) ==
    LET Free == Block \ s.bitmap
        b == Min(Free)
    IN  IF Free = {} THEN [s EXCEPT !.full = TRUE]
        ELSE [s EXCEPT !.bitmap = @ \cup {b}, !.block[b] = Zeroed, !.addr = b,
                       !.log = @ \cup {MapBlock(b), DataBlock(b)}]

\* An address in the inode, allocated if it is not there.
Direct(s, k) ==
    LET a == Balloc(s)
    IN  IF s.addrs[k] # None THEN [s EXCEPT !.addr = s.addrs[k]]
        ELSE IF a.full THEN a
        ELSE [a EXCEPT !.addrs[k] = a.addr]

\* One in the indirect block that Direct has just found.
Indirect(s, k) ==
    LET ind == s.addr
        a == Balloc(s)
    IN  IF s.full THEN s
        ELSE IF s.block[ind][k] # None THEN [s EXCEPT !.addr = s.block[ind][k]]
        ELSE IF a.full THEN a
        ELSE [a EXCEPT !.block[ind][k] = a.addr, !.log = @ \cup {DataBlock(ind)}]

Bmap(i, bn) ==
    IF bn < NDIRECT THEN Direct(State(i), bn)
    ELSE Indirect(Direct(State(i), NDIRECT), bn - NDIRECT)

(***************************************************************************)
(* Open files                                                              *)
(***************************************************************************)
Ip(p) == file[call[p].f].ip
InCall(f) == \E p \in Proc : call[p].f = f
Lock(i, p) == inode[i].holder = NoProc /\ inode' = [inode EXCEPT ![i].holder = p]
Set(p, c) == call' = [call EXCEPT ![p] = c]

\* Mutant: only at the start of the file.
AdvanceOnce(f, at) == file' = [file EXCEPT ![f].off = IF @ = 0 THEN at ELSE @]

\* f->off += r, under the inode's lock.
Advance(f, at) == file' = [file EXCEPT ![f].off = at]

\* A file opened by its name; directories only to be read.
Open(f, i, m) ==
    /\ ~panicked /\ file[f].ip = None
    /\ inode[i].type = "T_DIR" => m = "r"
    /\ inode[i].holder = NoProc
    /\ file' = [file EXCEPT ![f] = [ip |-> i, off |-> 0, mode |-> m]]
    /\ UNCHANGED <<bitmap, block, dinode, inode, call, logged, panicked>>

\* The last descriptor goes; a call on the file has one of its own.
Close(f) ==
    /\ ~panicked /\ file[f].ip # None /\ ~InCall(f)
    /\ file' = [file EXCEPT ![f] = [@ EXCEPT !.ip = None, !.off = 0]]
    /\ UNCHANGED <<bitmap, block, dinode, inode, call, logged, panicked>>

(***************************************************************************)
(* filewrite                                                               *)
(***************************************************************************)
\* Mutant: no slop.
MaxChunkTight == ((MAXOPBLOCKS - 1 - 1) \div 2) * BSIZE

\* "i-node, indirect block, allocation blocks, and 2 blocks of slop for
\* non-aligned writes"
MaxChunk == ((MAXOPBLOCKS - 1 - 1 - 2) \div 2) * BSIZE

Chunk(src) == Min({Len(src), MaxChunk})

\* writei's two tests.
Refused(f, n) == \/ file[f].off > inode[file[f].ip].size
                 \/ file[f].off + n > MAXFILE * BSIZE

\* A transaction starts: begin_op, ilock, and the tests.
Transaction(p, f, src) ==
    /\ ~Refused(f, Chunk(src))
    /\ Lock(file[f].ip, p)
    /\ Set(p, [Idle EXCEPT !.pc = "write", !.f = f, !.at = file[f].off,
                           !.left = Chunk(src), !.src = src])
    /\ UNCHANGED <<bitmap, block, dinode, file, logged, panicked>>

\* A call that waits for the lock, or is refused, has done nothing yet.
FileWrite(p, f, bytes) ==
    /\ ~panicked /\ call[p] = Idle
    /\ file[f].ip # None /\ file[f].mode \in {"w", "rw"}
    /\ Transaction(p, f, bytes)

WriteNext(p) ==
    /\ ~panicked /\ call[p].pc = "wnext"
    /\ Transaction(p, call[p].f, call[p].src)

\* writei returns -1, and filewrite gives up what is left.
WriteFails(p) ==
    /\ ~panicked /\ call[p].pc = "wnext"
    /\ inode[Ip(p)].holder = NoProc
    /\ Refused(call[p].f, Chunk(call[p].src))
    /\ Set(p, Idle)
    /\ UNCHANGED <<bitmap, block, dinode, inode, file, logged, panicked>>

\* How much of the transaction goes into the block at the offset.
Piece(c) == Min({c.left, BSIZE - (c.at % BSIZE)})

WriteBlock(p) ==
    LET c == call[p]
        i == Ip(p)
        s == Bmap(i, c.at \div BSIZE)
        m == Piece(c)
        o == c.at % BSIZE
    IN  /\ ~panicked /\ c.pc = "write" /\ c.left > 0
        /\ ~s.full
        /\ bitmap' = s.bitmap
        /\ block' = [s.block EXCEPT ![s.addr] =
                        [k \in Cell |-> IF k \in o .. o + m - 1
                                       THEN c.src[k - o + 1] ELSE @[k]]]
        /\ inode' = [inode EXCEPT ![i].addrs = s.addrs]
        /\ Set(p, [c EXCEPT !.at = @ + m, !.left = @ - m,
                            !.src = SubSeq(@, m + 1, Len(@))])
        /\ logged' = [logged EXCEPT ![p] = @ \cup s.log \cup {DataBlock(s.addr)}]
        /\ UNCHANGED <<dinode, file, panicked>>

\* panic("balloc: out of blocks")
OutOfBlocks(p) ==
    LET c == call[p]
    IN  /\ ~panicked /\ c.pc \in {"write", "read"} /\ c.left > 0
        /\ Bmap(Ip(p), c.at \div BSIZE).full
        /\ panicked' = TRUE
        /\ UNCHANGED <<bitmap, block, dinode, inode, file, call, logged>>

\* writei's n > 0 && off > ip->size
Grows(i, off) == off > inode[i].size

\* The size and the inode on disk, the offset, iunlock and end_op.
WriteEnd(p) ==
    LET c == call[p]
        i == Ip(p)
        n == IF Grows(i, c.at) THEN [inode[i] EXCEPT !.size = c.at] ELSE inode[i]
    IN  /\ ~panicked /\ c.pc = "write" /\ c.left = 0
        /\ inode' = [inode EXCEPT ![i] = [n EXCEPT !.holder = NoProc]]
        /\ dinode' = IF Grows(i, c.at) THEN [dinode EXCEPT ![i] = Disk(n)]
                     ELSE dinode
        /\ Advance(c.f, c.at)
        /\ Set(p, IF c.src = <<>> THEN Idle ELSE [c EXCEPT !.pc = "wnext", !.at = 0])
        /\ logged' = [logged EXCEPT ![p] = {}]
        /\ UNCHANGED <<bitmap, block, panicked>>

(***************************************************************************)
(* fileread                                                                *)
(***************************************************************************)
\* ilock, and readi's test and cut.
FileRead(p, f, n) ==
    LET i == file[f].ip
        off == file[f].off
    IN  /\ ~panicked /\ call[p] = Idle
        /\ i # None /\ file[f].mode \in {"r", "rw"}
        /\ off <= inode[i].size
        /\ Lock(i, p)
        /\ Set(p, [Idle EXCEPT !.pc = "read", !.f = f, !.at = off,
                               !.left = Min({n, inode[i].size - off})])
        /\ UNCHANGED <<bitmap, block, dinode, file, logged, panicked>>

\* readi asks bmap, which would allocate a block that is not there, in a call
\* that has no transaction.
ReadBlock(p) ==
    LET c == call[p]
        i == Ip(p)
        s == Bmap(i, c.at \div BSIZE)
        m == Piece(c)
        o == c.at % BSIZE
    IN  /\ ~panicked /\ c.pc = "read" /\ c.left > 0
        /\ ~s.full
        /\ bitmap' = s.bitmap /\ block' = s.block
        /\ inode' = [inode EXCEPT ![i].addrs = s.addrs]
        /\ logged' = [logged EXCEPT ![p] = @ \cup s.log]
        /\ Set(p, [c EXCEPT !.at = @ + m, !.left = @ - m,
                            !.got = @ \o [k \in 1 .. m |-> s.block[s.addr][o + k - 1]]])
        /\ UNCHANGED <<dinode, file, panicked>>

ReadEnd(p) ==
    LET c == call[p]
    IN  /\ ~panicked /\ c.pc = "read" /\ c.left = 0
        /\ inode' = [inode EXCEPT ![Ip(p)].holder = NoProc]
        /\ Advance(c.f, c.at)
        /\ Set(p, Idle)
        /\ UNCHANGED <<bitmap, block, dinode, logged, panicked>>

(***************************************************************************)
(* itrunc, from the iput of a file without a name that nobody has open.    *)
(* Its number is given out again by ialloc, for an empty file.             *)
(***************************************************************************)
Unopened(i) == \A f \in File : file[f].ip # i

Trunc(p, i) ==
    /\ ~panicked /\ call[p] = Idle
    /\ Unopened(i) /\ Lock(i, p)
    /\ Set(p, [Idle EXCEPT !.pc = "trunc", !.i = i])
    /\ UNCHANGED <<bitmap, block, dinode, file, logged, panicked>>

\* The k-th address of inode i, the ones in the indirect block after the
\* ones in the inode.
AddrAt(i, k) ==
    LET a == inode[i].addrs
    IN  IF k < NDIRECT THEN a[k]
        ELSE IF a[NDIRECT] = None THEN None ELSE block[a[NDIRECT]][k - NDIRECT]

\* bfree, which panics on a block that is free; nothing for no address.
Bfree(b) ==
    /\ bitmap' = bitmap \ {b}
    /\ panicked' = (b # None /\ b \notin bitmap)

\* One turn of its loops.
TruncBlock(p) ==
    LET c == call[p]
        b == AddrAt(c.i, c.at)
    IN  /\ ~panicked /\ c.pc = "trunc" /\ c.at < MAXFILE
        /\ Bfree(b)
        /\ inode' = IF c.at < NDIRECT
                    THEN [inode EXCEPT ![c.i].addrs[c.at] = None] ELSE inode
        /\ Set(p, [c EXCEPT !.at = @ + 1])
        /\ UNCHANGED <<block, dinode, file, logged>>

\* The indirect block itself, the size, iupdate, and iput's unlock.
TruncEnd(p) ==
    LET c == call[p]
        b == inode[c.i].addrs[NDIRECT]
        n == [inode[c.i] EXCEPT !.size = 0, !.addrs[NDIRECT] = None,
                                !.holder = NoProc]
    IN  /\ ~panicked /\ c.pc = "trunc" /\ c.at = MAXFILE
        /\ Bfree(b)
        /\ inode' = [inode EXCEPT ![c.i] = n]
        /\ dinode' = [dinode EXCEPT ![c.i] = Disk(n)]
        /\ Set(p, Idle)
        /\ UNCHANGED <<block, file, logged>>

(***************************************************************************)
(* The specification                                                       *)
(***************************************************************************)
\* The kernel starts on what mkfs has made.
Init ==
    /\ \E args \in Images :
          LET image == main(args)
          IN  /\ bitmap = image.bitmap /\ block = image.block
              /\ dinode = image.dinode
    /\ inode = [i \in Inum |-> [type |-> dinode[i].type, size |-> dinode[i].size,
                                addrs |-> dinode[i].addrs, holder |-> NoProc]]
    /\ file = [f \in File |-> [ip |-> None, off |-> 0, mode |-> "rw"]]
    /\ call = [p \in Proc |-> Idle]
    /\ logged = [p \in Proc |-> {}]
    /\ panicked = FALSE

Next ==
    \/ \E f \in File : \/ \E i \in Inum, m \in Mode : Open(f, i, m)
                       \/ Close(f)
    \/ \E p \in Proc :
          \/ \E f \in File : \/ \E bytes \in Writes : FileWrite(p, f, bytes)
                             \/ \E n \in Reads : FileRead(p, f, n)
          \/ WriteNext(p) \/ WriteFails(p) \/ WriteBlock(p) \/ OutOfBlocks(p)
          \/ WriteEnd(p)
          \/ ReadBlock(p) \/ ReadEnd(p)
          \/ \E i \in Unlinked : Trunc(p, i)
          \/ TruncBlock(p) \/ TruncEnd(p)

Spec == Init /\ [][Next]_vars

(***************************************************************************)
(* Properties                                                              *)
(***************************************************************************)

\* The addresses that inode i owns; itrunc gives them up one by one and
\* leaves those in the indirect block as they are.
Freed(i) == IF \E p \in Proc : call[p].i = i
            THEN call[CHOOSE p \in Proc : call[p].i = i].at ELSE 0
Owned(i) ==
    {k \in Freed(i) .. MAXFILE - 1 : AddrAt(i, k) # None}
        \cup {k \in {MAXFILE} : inode[i].addrs[NDIRECT] # None}
Owner == {<<i, k>> \in Inum \X (0 .. MAXFILE) : k \in Owned(i)}
BlockOf(x) == IF x[2] = MAXFILE THEN inode[x[1]].addrs[NDIRECT]
              ELSE AddrAt(x[1], x[2])

\* Every block has one place in one file, or is free: balloc and bfree of
\* several files at once neither share a block nor lose one.
OneOwner ==
    /\ bitmap = {BlockOf(x) : x \in Owner}
    /\ Cardinality(bitmap) = Cardinality(Owner)

\* A file has no holes, so that bmap never allocates a block for readi, which
\* is not in a transaction; and what a file needs to be found after a reboot
\* is in the inode on disk whenever nobody has it locked.
NoHoles ==
    \A i \in Inum :
        inode[i].holder = NoProc =>
            /\ dinode[i] = Disk(inode[i])
            /\ \A k \in 0 .. MAXFILE - 1 :
                  k * BSIZE < inode[i].size <=> AddrAt(i, k) # None

\* The free map, the files' addresses and the inodes on disk agree.
BlocksSound == TypeOK /\ OneOwner /\ NoHoles

\* "write a few blocks at a time to avoid exceeding the maximum log
\* transaction size": a transaction of filewrite logs no more than the blocks
\* that begin_op reserves, wherever it starts and whatever it allocates; the
\* last one is the inode's, which iupdate writes.
FitsLog == \A p \in Proc : Cardinality(logged[p]) <= MAXOPBLOCKS - 1

\* A file is its bytes: what is read at an offset is what was last written
\* there, across direct and indirect blocks, blocks used before by other
\* files, and open files shared by processes.
Writer(i) == {p \in Proc : call[p].pc = "write" /\ Ip(p) = i}
Size(i) == Max({inode[i].size} \cup {call[p].at : p \in Writer(i)})
Byte(i, o) ==
    LET a == AddrAt(i, o \div BSIZE)
    IN  IF a = None THEN None ELSE block[a][o % BSIZE]
Contents(i) ==
    IF \E p \in Proc : call[p].i = i THEN <<>>
    ELSE [j \in 1 .. Size(i) |-> Byte(i, j - 1)]
Copier(f) == {p \in Proc : call[p].f = f /\ call[p].pc \in {"read", "write"}}
Store == INSTANCE FileStore WITH
    Given <- {Wanted(args) : args \in Images},
    content <- [i \in Inum |-> Contents(i)],
    open <- [f \in File |-> file[f].ip],
    off <- [f \in File |-> IF Copier(f) = {} THEN file[f].off
                           ELSE call[CHOOSE p \in Copier(f) : TRUE].at],
    has <- [i \in Inum |-> inode[i].holder],
    using <- [p \in Proc |-> call[p].f],
    todo <- [p \in Proc |-> call[p].src],
    got <- [p \in Proc |-> call[p].got]
IsStore == Store!StoreSpec
=============================================================================
