-------------------------------- MODULE Log --------------------------------
(***************************************************************************)
(* The write-ahead log of log.c: begin_op, log_write, end_op, the commit   *)
(* of a group of operations, and recovery.  A crash may come between any   *)
(* two writes of a disk block, during recovery as well.                    *)
(*                                                                         *)
(* A section under log.lock is one step, the test that log_write makes     *)
(* before it takes the lock is another, and so is every write of a block   *)
(* to the disk (a block is one sector, and bwrite waits for the driver).   *)
(* The buffer cache is the contents of each block, and whether B_DIRTY     *)
(* pins it; a buffer that is not pinned may be recycled at any time, and   *)
(* is then read from the disk again.                                       *)
(***************************************************************************)
EXTENDS Integers, Sequences, FiniteSets

CONSTANTS
    Proc,         \* processes that use the file system
    Block,        \* blocks outside the log
    Val,          \* contents of a block
    MAXOPBLOCKS,  \* blocks an operation may write
    LOGSIZE,      \* entries of the log header
    NLOG          \* blocks of the log on disk, the header's included

ASSUME LogAssumption ==
    /\ MAXOPBLOCKS \in Nat \ {0} /\ LOGSIZE \in Nat /\ NLOG \in Nat
    /\ MAXOPBLOCKS <= LOGSIZE
    /\ IsFiniteSet(Proc)           \* NPROC entries of the process table

VARIABLES
    home,        \* disk: the blocks at their own place
    logged,      \* disk: the blocks after the header, log.start + i
    head,        \* disk: the block numbers in the header, up to n
    cache,       \* contents of the block's buffer
    dirty,       \* blocks whose buffer has B_DIRTY
    lh,          \* log.lh
    outstanding, committing,   \* log.outstanding, log.committing
    pc,          \* idle, begin (in begin_op), sleep, op, log (in
                 \* log_write, before the lock), commit
    wrote,       \* blocks that a process's operation has written
    phase,       \* what the commit or the recovery does next
    tail,        \* its loop variable
    booting      \* recovery runs, in the first process

disk == <<home, logged, head>>
ops == <<outstanding, committing, pc, wrote>>
vars == <<disk, cache, dirty, lh, ops, phase, tail, booting>>

\* Data blocks that the header can name.  The log on disk has NLOG - 1 of
\* them, and the blocks behind are inode blocks: what is said of the disk is
\* about behaviours in which InLog holds.
Slot == 1 .. LOGSIZE

Distinct(s) == \A i, j \in 1 .. Len(s) : s[i] = s[j] => i = j

TypeOK ==
    /\ home \in [Block -> Val] /\ cache \in [Block -> Val]
    /\ logged \in [Slot -> Val]
    /\ head \in Seq(Block) /\ lh \in Seq(Block)
    /\ Len(head) <= LOGSIZE /\ Len(lh) <= LOGSIZE
    /\ Distinct(head) /\ Distinct(lh)
    /\ dirty \subseteq Block
    /\ outstanding \in Nat
    /\ committing \in BOOLEAN /\ booting \in BOOLEAN
    /\ pc \in [Proc -> {"idle", "begin", "sleep", "op", "log", "panic",
                       "commit"}]
    /\ wrote \in [Proc -> SUBSET Block]
    /\ phase \in {"none", "log", "head", "install", "clear", "done"}
    /\ tail \in 1 .. LOGSIZE + 1

(***************************************************************************)
(* begin_op, log_write, end_op                                             *)
(***************************************************************************)
BeginCall(p) ==
    /\ ~booting /\ pc[p] = "idle"
    /\ pc' = [pc EXCEPT ![p] = "begin"]
    /\ UNCHANGED <<disk, cache, dirty, lh, outstanding, committing, wrote,
                   phase, tail, booting>>

\* Mutant: an operation starts while the last ones are committed.
MustWaitSpace == Len(lh) + (outstanding + 1) * MAXOPBLOCKS > LOGSIZE

MustWait == committing \/ Len(lh) + (outstanding + 1) * MAXOPBLOCKS > LOGSIZE

\* sleep(&log, &log.lock)
BeginWait(p) ==
    /\ ~booting /\ pc[p] = "begin" /\ MustWait
    /\ pc' = [pc EXCEPT ![p] = "sleep"]
    /\ UNCHANGED <<disk, cache, dirty, lh, outstanding, committing, wrote,
                   phase, tail, booting>>

BeginGo(p) ==
    /\ ~booting /\ pc[p] = "begin" /\ ~MustWait
    /\ outstanding' = outstanding + 1
    /\ pc' = [pc EXCEPT ![p] = "op"]
    /\ UNCHANGED <<disk, cache, dirty, lh, committing, wrote, phase, tail,
                   booting>>

TooBig == Len(lh) >= LOGSIZE \/ Len(lh) >= NLOG - 1

\* log_write's test of log.lh.n, outside of log.lock.
LogCheck(p) ==
    /\ ~booting /\ pc[p] = "op" /\ ~TooBig
    /\ pc' = [pc EXCEPT ![p] = "log"]
    /\ UNCHANGED <<disk, cache, dirty, lh, outstanding, committing, wrote,
                   phase, tail, booting>>

\* panic("too big a transaction"): its CPU stops, the others may go on.
LogPanic(p) ==
    /\ ~booting /\ pc[p] = "op" /\ TooBig
    /\ pc' = [pc EXCEPT ![p] = "panic"]
    /\ UNCHANGED <<disk, cache, dirty, lh, outstanding, committing, wrote,
                   phase, tail, booting>>

\* Mutant: B_DIRTY is not set.
PinNot(b) == dirty

Pin(b) == dirty \cup {b}

\* Log absorption.
Absorb(b) == IF \E i \in 1 .. Len(lh) : lh[i] = b THEN lh ELSE Append(lh, b)

\* The rest of log_write, with the change of the buffer that came before it
\* and that the buffer's lock hides until now.  An operation writes at most
\* MAXOPBLOCKS different blocks.
LogWrite(p, b, v) ==
    /\ ~booting /\ pc[p] = "log"
    /\ b \in wrote[p] \/ Cardinality(wrote[p]) < MAXOPBLOCKS
    /\ cache' = [cache EXCEPT ![b] = v]
    /\ lh' = Absorb(b)
    /\ dirty' = Pin(b)
    /\ wrote' = [wrote EXCEPT ![p] = @ \cup {b}]
    /\ pc' = [pc EXCEPT ![p] = "op"]
    /\ UNCHANGED <<disk, outstanding, committing, phase, tail, booting>>

\* Mutant: nobody is woken.
WakeNobody(f) == f

\* wakeup(&log)
Wake(f) == [p \in Proc |-> IF f[p] = "sleep" THEN "begin" ELSE f[p]]

\* What commit() does first.
CommitStart == IF lh = <<>> THEN "done" ELSE "log"

\* The last operation commits, the others wake who waits for space.
EndOp(p) ==
    /\ ~booting /\ pc[p] = "op"
    /\ outstanding' = outstanding - 1
    /\ wrote' = [wrote EXCEPT ![p] = {}]
    /\ IF outstanding' = 0
       THEN /\ committing' = TRUE
            /\ pc' = [pc EXCEPT ![p] = "commit"]
            /\ phase' = CommitStart /\ tail' = 1
       ELSE /\ pc' = Wake([pc EXCEPT ![p] = "idle"])
            /\ UNCHANGED <<committing, phase, tail>>
    /\ UNCHANGED <<disk, cache, dirty, lh, booting>>

(***************************************************************************)
(* commit and recover_from_log                                             *)
(***************************************************************************)
NextTail == tail + 1

\* write_log: one block; the loop ends with the last one.
WriteLog ==
    /\ phase = "log" /\ tail <= Len(lh)
    /\ logged' = [logged EXCEPT ![tail] = cache[lh[tail]]]
    /\ tail' = NextTail
    /\ phase' = IF tail' <= Len(lh) THEN "log" ELSE "head"
    /\ UNCHANGED <<home, head, cache, dirty, lh, ops, booting>>

\* write_head: the commit.
WriteHead ==
    /\ phase = "head"
    /\ head' = lh
    /\ phase' = "install" /\ tail' = 1
    /\ UNCHANGED <<home, logged, cache, dirty, lh, ops, booting>>

\* install_trans: one block.  bwrite takes B_DIRTY away.
Install ==
    /\ phase = "install" /\ tail <= Len(lh)
    /\ home' = [home EXCEPT ![lh[tail]] = logged[tail]]
    /\ cache' = [cache EXCEPT ![lh[tail]] = logged[tail]]
    /\ dirty' = dirty \ {lh[tail]}
    /\ tail' = NextTail
    /\ UNCHANGED <<logged, head, lh, ops, phase, booting>>

InstallEnd ==
    /\ phase = "install" /\ tail > Len(lh)
    /\ phase' = "clear"
    /\ UNCHANGED <<disk, cache, dirty, lh, ops, tail, booting>>

\* log.lh.n = 0; write_head(): the end of commit, or of recovery.
ClearHead ==
    /\ phase = "clear"
    /\ lh' = <<>> /\ head' = <<>>
    /\ phase' = IF booting THEN "none" ELSE "done"
    /\ booting' = FALSE
    /\ tail' = 1
    /\ UNCHANGED <<home, logged, cache, dirty, ops>>

\* Mutant: log.committing = 0 is forgotten.
EndCommitKeeps(p) ==
    /\ ~booting /\ pc[p] = "commit" /\ phase = "done"
    /\ phase' = "none"
    /\ pc' = Wake([pc EXCEPT ![p] = "idle"])
    /\ UNCHANGED <<disk, cache, dirty, lh, outstanding, committing, wrote, tail,
                   booting>>

\* The rest of end_op.
EndCommit(p) ==
    /\ ~booting /\ pc[p] = "commit" /\ phase = "done"
    /\ committing' = FALSE
    /\ phase' = "none"
    /\ pc' = Wake([pc EXCEPT ![p] = "idle"])
    /\ UNCHANGED <<disk, cache, dirty, lh, outstanding, wrote, tail, booting>>

(***************************************************************************)
(* The buffer cache and crashes                                            *)
(***************************************************************************)
\* bget recycles a buffer that nobody holds and that is not B_DIRTY.
Evict(b) ==
    /\ b \notin dirty
    /\ cache' = [cache EXCEPT ![b] = home[b]]
    /\ UNCHANGED <<disk, dirty, lh, ops, phase, tail, booting>>

\* Power fails, or somebody resets the machine; it boots
\* and the first process calls initlog, which reads the header.
Crash ==
    /\ cache' = home /\ dirty' = {}
    /\ lh' = head
    /\ outstanding' = 0 /\ committing' = FALSE
    /\ pc' = [p \in Proc |-> "idle"]
    /\ wrote' = [p \in Proc |-> {}]
    /\ phase' = "install" /\ tail' = 1
    /\ booting' = TRUE
    /\ UNCHANGED disk

(***************************************************************************)
(* The specification                                                       *)
(***************************************************************************)
\* The image that mkfs made, after initlog.
Init ==
    /\ home \in [Block -> Val]
    /\ \E v \in Val : logged = [i \in Slot |-> v]
    /\ head = <<>> /\ lh = <<>>
    /\ cache = home /\ dirty = {}
    /\ outstanding = 0 /\ committing = FALSE
    /\ pc = [p \in Proc |-> "idle"]
    /\ wrote = [p \in Proc |-> {}]
    /\ phase = "none" /\ tail = 1
    /\ booting = FALSE

\* The disk writes of the process that commits, or of recovery.
Commit == WriteLog \/ WriteHead \/ Install \/ InstallEnd \/ ClearHead

Begin(p) == BeginWait(p) \/ BeginGo(p)

Next ==
    \/ \E p \in Proc : \/ BeginCall(p) \/ Begin(p) \/ EndOp(p) \/ EndCommit(p)
                       \/ \E b \in Block, v \in Val : LogWrite(p, b, v)
                       \/ LogCheck(p) \/ LogPanic(p)
    \/ Commit
    \/ \E b \in Block : Evict(b)
    \/ Crash

\* A commit goes on, operations end (they make finitely many writes), and a
\* process in begin_op that is awake gets to make its test.  Nothing says that
\* it makes it while there is space: begin_op has no queue.
Fairness ==
    /\ WF_vars(Commit)
    /\ \A p \in Proc : /\ SF_vars(EndOp(p)) /\ WF_vars(EndCommit(p))
                       /\ WF_vars(\E b \in Block, v \in Val : LogWrite(p, b, v))
                       /\ WF_vars(Begin(p))

Spec == Init /\ [][Next]_vars /\ Fairness

(***************************************************************************)
(* Properties                                                              *)
(***************************************************************************)

Active == {p \in Proc : pc[p] \in {"op", "log", "panic"}}

\* What recovery makes of the disk.
Recovered ==
    [b \in Block |->
        IF \E i \in 1 .. Len(head) : head[i] = b
        THEN logged[CHOOSE i \in 1 .. Len(head) : head[i] = b]
        ELSE home[b]]

\* Crash safety: whatever the moment of a crash, and of a second one during
\* recovery, the disk shows groups of whole operations, and no operation sees
\* a block go back while the system is up.
Atomic == INSTANCE AtomicOps WITH
              stable <- Recovered,
              cur <- IF booting THEN Recovered ELSE cache,
              active <- Active
IsAtomic == Atomic!AtomicSpec

\* The writes that the operations of A have made, each with its operation: a
\* block that two of them wrote counts twice, as in begin_op's reservation.
Charged(A, w) == {e \in A \X Block : e[2] \in w[e[1]]}

\* begin_op's reservation: behind its entries, those of operations that have
\* ended included, the header has room for all that the operations in progress
\* may still write.
Reserved ==
    /\ Len(lh) <= LOGSIZE
    /\ Len(lh) + Cardinality(Active) * MAXOPBLOCKS
         <= LOGSIZE + Cardinality(Charged(Active, wrote))

\* The log "only commits when there are no FS system calls active" (log.c),
\* which end_op asserts with panic("log.committing").
CommitAlone == committing => outstanding = 0 /\ Active = {}

\* No lost wakeup: begin_op sleeps only while it must wait.
NoLostWakeup == \A p \in Proc : pc[p] = "sleep" => MustWait

\* At rest everything that operations wrote is on the disk, so that the last
\* end_op has made it safe when it returns.
AtRest ==
    ~booting /\ outstanding = 0 /\ ~committing
    => Recovered = cache /\ head = <<>> /\ dirty = {}

\* The header in memory never outgrows what was reserved in it, no operation
\* is open while a group is committed, and nothing is pending when none is
\* and no commit runs, after recovery from a crash included.
LogSound == TypeOK /\ Reserved /\ CommitAlone /\ AtRest

\* LOGSIZE is the "max data blocks in on-disk log" (param.h): operations that
\* begin_op let in never make log_write panic.
NoTooBig == \A p \in Proc : pc[p] # "panic"

\* Progress of begin_op, unless a CPU has panicked: every sleep in it ends, and
\* a process stays in it for ever only if others begin operations in its place
\* again and again.
InBegin(p) == pc[p] \in {"begin", "sleep"}
OthersBegin(p) == \E q \in Proc \ {p} : BeginGo(q)
BeginProgress ==
    \A p \in Proc :
        /\ pc[p] = "sleep" ~> pc[p] # "sleep" \/ ~NoTooBig
        /\ []<>~InBegin(p) \/ []<><<OthersBegin(p)>>_vars \/ <>~NoTooBig

\* log_write's assertion, panic("too big a transaction") unless there is room
\* in the log: the entries of the header never outgrow the log on disk, whose
\* end is the start of the inode blocks.
InLog == Len(lh) <= NLOG - 1
=============================================================================
