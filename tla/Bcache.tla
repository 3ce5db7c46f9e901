------------------------------- MODULE Bcache -------------------------------
(***************************************************************************)
(* The buffer cache of bio.c, with the sleep locks of its buffers and the  *)
(* request queue of the disk driver under it.                              *)
(*                                                                         *)
(* A section under bcache.lock, under a sleep lock's spin lock or under    *)
(* idelock is one step.  The disk does the request at the head of the      *)
(* queue, and its interrupt may come at any time after that.  A process    *)
(* uses one buffer at a time.                                              *)
(***************************************************************************)
EXTENDS Integers, Sequences, FiniteSets, SequencesExt

CONSTANTS
    Proc, NoProc,
    NBUF,
    Block, NoBlock,   \* blocks of the disk; the block of a new buffer
    Val               \* contents of a block

ASSUME BcacheAssumption ==
    /\ NoProc \notin Proc /\ NoBlock \notin Block /\ NBUF \in Nat \ {0}
    /\ IsFiniteSet(Proc)           \* NPROC entries of the process table

VARIABLES
    disk,
    blockno, refcnt, valid, dirty, data,   \* fields of struct buf
    lru,        \* the list from bcache.head.next on, most recent first
    holder,     \* who has the buffer's sleep lock
    idequeue,
    pc,         \* idle, lock (in acquiresleep), asleep, rw (calls iderw), io
                \* (asleep in iderw), woken, held, rel (in brelse)
    mine,       \* the buffer that the process has from bget
    panicked    \* in bget, with bcache.lock held

fields == <<blockno, refcnt, valid, dirty, data>>
vars == <<disk, fields, lru, holder, idequeue, pc, mine, panicked>>

Buf == 1 .. NBUF
NoBuf == 0

TypeOK ==
    /\ disk \in [Block -> Val]
    /\ blockno \in [Buf -> Block \cup {NoBlock}] /\ refcnt \in [Buf -> Nat]
    /\ valid \in [Buf -> BOOLEAN] /\ dirty \in [Buf -> BOOLEAN]
    /\ data \in [Buf -> Val]
    /\ lru \in [1 .. NBUF -> Buf] /\ Range(lru) = Buf
    /\ holder \in [Buf -> Proc \cup {NoProc}]
    /\ idequeue \in Seq(Buf)
    /\ pc \in [Proc -> {"idle", "lock", "asleep", "rw", "io", "woken", "held",
                        "rel"}]
    /\ mine \in [Proc -> Buf \cup {NoBuf}]
    /\ panicked \in BOOLEAN

(***************************************************************************)
(* bget                                                                    *)
(***************************************************************************)
Cached(k) == {b \in Buf : blockno[b] = k}

\* Mutant: a buffer that is dirty is recycled.
UnusedDirty(b) == refcnt[b] = 0

Unused(b) == refcnt[b] = 0 /\ ~dirty[b]

Calls(p) == pc[p] = "idle" /\ ~panicked

Enter(p, b) ==
    /\ mine' = [mine EXCEPT ![p] = b]
    /\ pc' = [pc EXCEPT ![p] = "lock"]
    /\ UNCHANGED <<disk, data, lru, holder, idequeue, panicked>>

BgetHit(p, k) ==
    /\ Calls(p)
    /\ \E b \in Cached(k) :
          /\ refcnt' = [refcnt EXCEPT ![b] = @ + 1]
          /\ Enter(p, b)
    /\ UNCHANGED <<blockno, valid, dirty>>

\* The least recently used buffer that is not in use.
BgetMiss(p, k) ==
    /\ Calls(p) /\ Cached(k) = {}
    /\ \E i \in 1 .. NBUF :
          LET b == lru[i] IN
          /\ Unused(b) /\ \A j \in i + 1 .. NBUF : ~Unused(lru[j])
          /\ blockno' = [blockno EXCEPT ![b] = k]
          /\ refcnt' = [refcnt EXCEPT ![b] = 1]
          /\ valid' = [valid EXCEPT ![b] = FALSE]
          /\ dirty' = [dirty EXCEPT ![b] = FALSE]
          /\ Enter(p, b)

\* panic("bget: no buffers")
BgetPanic(p, k) ==
    /\ Calls(p) /\ Cached(k) = {}
    /\ \A b \in Buf : ~Unused(b)
    /\ panicked' = TRUE
    /\ UNCHANGED <<disk, fields, lru, holder, idequeue, pc, mine>>

(***************************************************************************)
(* Sleep locks, bread, bwrite, log_write's part, brelse                    *)
(***************************************************************************)
LockFree(b) == holder[b] = NoProc

AcquireWait(p) ==
    /\ pc[p] = "lock" /\ ~LockFree(mine[p])
    /\ pc' = [pc EXCEPT ![p] = "asleep"]
    /\ UNCHANGED <<disk, fields, lru, holder, idequeue, mine, panicked>>

\* bget returns, and bread looks at B_VALID.
Acquire(p) ==
    /\ pc[p] = "lock" /\ LockFree(mine[p])
    /\ holder' = [holder EXCEPT ![mine[p]] = p]
    /\ pc' = [pc EXCEPT ![p] = IF valid[mine[p]] THEN "held" ELSE "rw"]
    /\ UNCHANGED <<disk, fields, lru, idequeue, mine, panicked>>

\* The contents are changed and written through ...
Bwrite(p, v) ==
    /\ pc[p] = "held"
    /\ data' = [data EXCEPT ![mine[p]] = v]
    /\ dirty' = [dirty EXCEPT ![mine[p]] = TRUE]
    /\ pc' = [pc EXCEPT ![p] = "rw"]
    /\ UNCHANGED <<disk, blockno, refcnt, valid, lru, holder, idequeue, mine,
                   panicked>>

\* ... or left in the cache, where log_write pins them.
LogWrite(p, v) ==
    /\ pc[p] = "held"
    /\ data' = [data EXCEPT ![mine[p]] = v]
    /\ dirty' = [dirty EXCEPT ![mine[p]] = TRUE]
    /\ UNCHANGED <<disk, blockno, refcnt, valid, lru, holder, idequeue, pc,
                   mine, panicked>>

\* Mutant: nobody is woken.
WakeNone(f, from, b, to) == f

\* wakeup of the processes that sleep for this buffer.
Wake(f, from, b, to) ==
    [q \in Proc |-> IF f[q] = from /\ mine[q] = b THEN to ELSE f[q]]

\* brelse: releasesleep, then the rest under bcache.lock.
ReleaseSleep(p) ==
    /\ pc[p] = "held"
    /\ holder' = [holder EXCEPT ![mine[p]] = NoProc]
    /\ pc' = Wake([pc EXCEPT ![p] = "rel"], "asleep", mine[p], "lock")
    /\ UNCHANGED <<disk, fields, lru, idequeue, mine, panicked>>

DropRef(b) == refcnt[b] - 1

\* The list with b taken out and put first.
ToFront(b) ==
    LET at == CHOOSE i \in 1 .. NBUF : lru[i] = b
    IN  [i \in 1 .. NBUF |-> IF i = 1 THEN b
                            ELSE IF i <= at THEN lru[i - 1] ELSE lru[i]]

Brelse(p) ==
    /\ pc[p] = "rel" /\ ~panicked
    /\ refcnt' = [refcnt EXCEPT ![mine[p]] = DropRef(mine[p])]
    /\ lru' = IF refcnt'[mine[p]] = 0
              THEN ToFront(mine[p]) ELSE lru
    /\ mine' = [mine EXCEPT ![p] = NoBuf]
    /\ pc' = [pc EXCEPT ![p] = "idle"]
    /\ UNCHANGED <<disk, blockno, valid, dirty, data, holder, idequeue, panicked>>

(***************************************************************************)
(* The disk driver                                                         *)
(***************************************************************************)
\* iderw: the request goes to the end of the queue, and the process sleeps.
Iderw(p) ==
    /\ pc[p] = "rw"
    /\ idequeue' = Append(idequeue, mine[p])
    /\ pc' = [pc EXCEPT ![p] = "io"]
    /\ UNCHANGED <<disk, fields, lru, holder, mine, panicked>>

\* Mutant: the request that came last is taken for the active one.
ActiveLast == Last(idequeue)

Active == Head(idequeue)

\* ideintr: the disk has done the request at the head.
Ideintr ==
    /\ idequeue # <<>>
    /\ LET b == Active IN
       /\ IF dirty[b]
          THEN disk' = [disk EXCEPT ![blockno[b]] = data[b]] /\ data' = data
          ELSE data' = [data EXCEPT ![b] = disk[blockno[b]]] /\ disk' = disk
       /\ valid' = [valid EXCEPT ![b] = TRUE]
       /\ dirty' = [dirty EXCEPT ![b] = FALSE]
       /\ pc' = Wake(pc, "io", b, "woken")
    /\ idequeue' = Tail(idequeue)
    /\ UNCHANGED <<blockno, refcnt, lru, holder, mine, panicked>>

\* The end of iderw's loop.
IderwEnd(p) ==
    /\ pc[p] = "woken"
    /\ pc' = [pc EXCEPT ![p] = IF valid[mine[p]] /\ ~dirty[mine[p]]
                               THEN "held" ELSE "io"]
    /\ UNCHANGED <<disk, fields, lru, holder, idequeue, mine, panicked>>

(***************************************************************************)
(* The specification                                                       *)
(***************************************************************************)
\* binit
Init ==
    /\ disk \in [Block -> Val]
    /\ blockno = [b \in Buf |-> NoBlock] /\ refcnt = [b \in Buf |-> 0]
    /\ valid = [b \in Buf |-> FALSE] /\ dirty = [b \in Buf |-> FALSE]
    /\ \E v \in Val : data = [b \in Buf |-> v]
    /\ lru = [i \in 1 .. NBUF |-> NBUF + 1 - i]
    /\ holder = [b \in Buf |-> NoProc]
    /\ idequeue = <<>>
    /\ pc = [p \in Proc |-> "idle"] /\ mine = [p \in Proc |-> NoBuf]
    /\ panicked = FALSE

Kernel(p) == AcquireWait(p) \/ Acquire(p) \/ Iderw(p) \/ IderwEnd(p)

Next ==
    \/ \E p \in Proc :
          \/ Kernel(p) \/ ReleaseSleep(p) \/ Brelse(p)
          \/ \E k \in Block : BgetHit(p, k) \/ BgetMiss(p, k) \/ BgetPanic(p, k)
          \/ \E v \in Val : Bwrite(p, v) \/ LogWrite(p, v)
    \/ Ideintr

\* The disk answers, and kernel code goes on.  A sleep lock has no queue: a
\* process that wants one may be overtaken for ever.
Fairness == WF_vars(Ideintr) /\ \A p \in Proc : WF_vars(Kernel(p))

Spec == Init /\ [][Next]_vars /\ Fairness

(***************************************************************************)
(* Properties                                                              *)
(***************************************************************************)

\* Two lookups of one block at once, recycling, and disk reads and writes in
\* any order: every block has one value, and one process at a time has it.
Value ==
    [k \in Block |-> IF \E b \in Cached(k) : valid[b]
                     THEN data[CHOOSE b \in Cached(k) : valid[b]]
                     ELSE disk[k]]
Has ==
    [p \in Proc |-> IF pc[p] \in {"rw", "io", "woken", "held"}
                    THEN blockno[mine[p]] ELSE NoBlock]
Store == INSTANCE BlockStore WITH value <- Value, has <- Has
IsStore == Store!StoreSpec

\* A reference count is the number of processes between bget and the end of
\* brelse; a count that is too low lets bget recycle a buffer under its user,
\* one that is too high loses it.
RefCounted ==
    TypeOK /\ \A b \in Buf : refcnt[b] = Cardinality({p \in Proc : mine[p] = b})

\* The driver's queue: no buffer is in it twice, which would make the list a
\* loop, and each belongs to a process that waits for it with its lock held.
QueueSound ==
    /\ IsInjective(idequeue)
    /\ \A i \in 1 .. Len(idequeue) :
          LET b == idequeue[i]
          IN  /\ ~valid[b] \/ dirty[b]
              /\ holder[b] # NoProc /\ mine[holder[b]] = b
              /\ pc[holder[b]] = "io"

\* No wakeup is lost: who sleeps in acquiresleep sleeps while someone has the
\* lock, who sleeps in iderw has a request in the queue.
Awaited ==
    \A p \in Proc :
        /\ pc[p] = "asleep" => ~LockFree(mine[p])
        /\ pc[p] = "io" => Contains(idequeue, mine[p])

\* References are counted, nobody waits for a request that is not there, and
\* no request is there that nobody waits for.
CacheSound == RefCounted /\ QueueSound /\ Awaited

\* A request to the disk is answered, whatever the others ask of it.
Served == \A p \in Proc : pc[p] = "rw" ~> pc[p] = "held"
=============================================================================
