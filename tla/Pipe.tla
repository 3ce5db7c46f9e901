-------------------------------- MODULE Pipe --------------------------------
(***************************************************************************)
(* One pipe of pipe.c and the processes that have it open: pipewrite,      *)
(* piperead and pipeclose under the pipe's lock, sleeping and waking up,   *)
(* kill.                                                                   *)
(*                                                                         *)
(* A step is one turn of a loop.  The test of killed and the call of sleep *)
(* are two steps: kill takes ptable.lock and not the pipe's.  nread and    *)
(* nwrite are uints that wrap; Wrap stands for 2^32.                       *)
(***************************************************************************)
EXTENDS Integers, Sequences, FiniteSets

CONSTANTS
    Proc,      \* processes that have an end open
    NoProc,    \* nobody
    Byte,      \* values of a byte
    PIPESIZE,
    Wrap,      \* where nread and nwrite wrap
    MaxCount   \* bound: bytes of one read or write

ASSUME PipeAssumption ==
    /\ NoProc \notin Proc
    /\ PIPESIZE \in Nat \ {0} /\ MaxCount \in Nat
    /\ Wrap \in Nat /\ Wrap >= 2 * PIPESIZE /\ Wrap % PIPESIZE = 0
    /\ Byte # {}

VARIABLES
    data, nread, nwrite, readopen, writeopen,  \* struct pipe
    lock,      \* holder of p->lock
    freed,     \* the pipe's page went back to kfree
    rfd, wfd,  \* processes that have the read end, the write end, open
    pc, todo,  \* of a process: where it is, the bytes it still has to write
    want,      \* of a process: the count of its read
    killed,
    out        \* what the last piperead returned

vars == <<data, nread, nwrite, readopen, writeopen, lock, freed, rfd, wfd, pc,
          todo, want, killed, out>>

\* wlock, rlock: wants the lock.  write, read: in the loop with the lock.
\* wtested, rtested: has tested killed, about to sleep.  wsleep, rsleep:
\* SLEEPING on &p->nwrite, &p->nread.
PC == {"idle", "wlock", "write", "wtested", "wsleep",
       "rlock", "read", "rtested", "rsleep"}

Holding == {"write", "wtested", "read", "rtested"}

Slots == 0 .. PIPESIZE - 1
Counter == 0 .. Wrap - 1
Writes == UNION {[1 .. n -> Byte] : n \in 0 .. MaxCount}

TypeOK ==
    /\ data \in [Slots -> Byte]
    /\ nread \in Counter /\ nwrite \in Counter
    /\ readopen \in BOOLEAN /\ writeopen \in BOOLEAN
    /\ lock \in Proc \cup {NoProc}
    /\ freed \in BOOLEAN
    /\ rfd \subseteq Proc /\ wfd \subseteq Proc
    /\ pc \in [Proc -> PC]
    /\ todo \in [Proc -> Seq(Byte)]
    /\ want \in [Proc -> 0 .. MaxCount]
    /\ killed \in [Proc -> BOOLEAN]
    /\ out \in Seq(Byte)

Incr(n, k) == (n + k) % Wrap

Used == (nwrite - nread) % Wrap

\* Mutant: one byte too many.
FullLate == nwrite = Incr(nread, PIPESIZE + 1)

Full == nwrite = Incr(nread, PIPESIZE)
Empty == nread = nwrite

\* Mutant: the wrong channel.
WakeReadersWrong(f) ==
    [p \in Proc |-> IF f[p] = "wsleep" THEN "wlock" ELSE f[p]]

\* wakeup(&p->nread) and wakeup(&p->nwrite) on the program counters f.
WakeReaders(f) ==
    [p \in Proc |-> IF f[p] = "rsleep" THEN "rlock" ELSE f[p]]
WakeWriters(f) ==
    [p \in Proc |-> IF f[p] = "wsleep" THEN "wlock" ELSE f[p]]

At(p, at) == [pc EXCEPT ![p] = at]

(***************************************************************************)
(* pipewrite                                                               *)
(***************************************************************************)
WriteCall(p, bytes) ==
    /\ pc[p] = "idle" /\ p \in wfd /\ ~killed[p]
    /\ pc' = At(p, "wlock")
    /\ todo' = [todo EXCEPT ![p] = bytes]
    /\ UNCHANGED <<data, nread, nwrite, readopen, writeopen, lock, freed, rfd,
                   wfd, want, killed, out>>

WriteLock(p) ==
    /\ pc[p] = "wlock" /\ lock = NoProc
    /\ lock' = p
    /\ pc' = At(p, "write")
    /\ UNCHANGED <<data, nread, nwrite, readopen, writeopen, freed, rfd, wfd,
                   todo, want, killed, out>>

\* Mutant: nwrite is incremented before the byte is stored.
WriteSlotNext == Incr(nwrite, 1) % PIPESIZE

WriteSlot == nwrite % PIPESIZE

WriteByte(p) ==
    /\ pc[p] = "write" /\ todo[p] # <<>> /\ ~Full
    /\ data' = [data EXCEPT ![WriteSlot] = Head(todo[p])]
    /\ nwrite' = Incr(nwrite, 1)
    /\ todo' = [todo EXCEPT ![p] = Tail(@)]
    /\ UNCHANGED <<nread, readopen, writeopen, lock, freed, rfd, wfd, pc, want,
                   killed, out>>

\* Full, and nobody will read or the writer was killed: return -1.
WriteFail(p) ==
    /\ pc[p] = "write" /\ todo[p] # <<>> /\ Full
    /\ ~readopen \/ killed[p]
    /\ lock' = NoProc
    /\ pc' = At(p, "idle")
    /\ todo' = [todo EXCEPT ![p] = <<>>]
    /\ UNCHANGED <<data, nread, nwrite, readopen, writeopen, freed, rfd, wfd,
                   want, killed, out>>

\* Full: wake the readers, then sleep.
WriteFull(p) ==
    /\ pc[p] = "write" /\ todo[p] # <<>> /\ Full
    /\ readopen /\ ~killed[p]
    /\ pc' = WakeReaders(At(p, "wtested"))
    /\ UNCHANGED <<data, nread, nwrite, readopen, writeopen, lock, freed, rfd,
                   wfd, todo, want, killed, out>>

WriteSleep(p) ==
    /\ pc[p] = "wtested"
    /\ pc' = At(p, "wsleep")
    /\ lock' = NoProc
    /\ UNCHANGED <<data, nread, nwrite, readopen, writeopen, freed, rfd, wfd,
                   todo, want, killed, out>>

WriteDone(p) ==
    /\ pc[p] = "write" /\ todo[p] = <<>>
    /\ pc' = WakeReaders(At(p, "idle"))
    /\ lock' = NoProc
    /\ UNCHANGED <<data, nread, nwrite, readopen, writeopen, freed, rfd, wfd,
                   todo, want, killed, out>>

(***************************************************************************)
(* piperead                                                                *)
(***************************************************************************)
ReadCall(p, n) ==
    /\ pc[p] = "idle" /\ p \in rfd /\ ~killed[p]
    /\ pc' = At(p, "rlock")
    /\ want' = [want EXCEPT ![p] = n]
    /\ UNCHANGED <<data, nread, nwrite, readopen, writeopen, lock, freed, rfd,
                   wfd, todo, killed, out>>

ReadLock(p) ==
    /\ pc[p] = "rlock" /\ lock = NoProc
    /\ lock' = p
    /\ pc' = At(p, "read")
    /\ UNCHANGED <<data, nread, nwrite, readopen, writeopen, freed, rfd, wfd,
                   todo, want, killed, out>>

ReadFail(p) ==
    /\ pc[p] = "read" /\ Empty /\ writeopen /\ killed[p]
    /\ lock' = NoProc
    /\ pc' = At(p, "idle")
    /\ want' = [want EXCEPT ![p] = 0]
    /\ UNCHANGED <<data, nread, nwrite, readopen, writeopen, freed, rfd, wfd,
                   todo, killed, out>>

ReadEmpty(p) ==
    /\ pc[p] = "read" /\ Empty /\ writeopen /\ ~killed[p]
    /\ pc' = At(p, "rtested")
    /\ UNCHANGED <<data, nread, nwrite, readopen, writeopen, lock, freed, rfd,
                   wfd, todo, want, killed, out>>

ReadSleep(p) ==
    /\ pc[p] = "rtested"
    /\ pc' = At(p, "rsleep")
    /\ lock' = NoProc
    /\ UNCHANGED <<data, nread, nwrite, readopen, writeopen, freed, rfd, wfd,
                   todo, want, killed, out>>

\* The copy loop stops at n bytes or when the pipe is empty.
Taken(p) == IF want[p] <= Used THEN want[p] ELSE Used

ReadDone(p) ==
    /\ pc[p] = "read" /\ ~(Empty /\ writeopen)
    /\ out' = [i \in 1 .. Taken(p) |-> data[Incr(nread, i - 1) % PIPESIZE]]
    /\ nread' = Incr(nread, Taken(p))
    /\ pc' = WakeWriters(At(p, "idle"))
    /\ lock' = NoProc
    /\ want' = [want EXCEPT ![p] = 0]
    /\ UNCHANGED <<data, nwrite, readopen, writeopen, freed, rfd, wfd, todo,
                   killed>>

(***************************************************************************)
(* fileclose drops a reference; the last one of an end calls pipeclose,    *)
(* which wakes the other side and frees the pipe when both ends are shut.  *)
(***************************************************************************)
\* Mutant: the last writer frees the pipe, readers or not.
CloseWriteFrees(p) ==
    /\ pc[p] = "idle" /\ p \in wfd
    /\ wfd' = wfd \ {p}
    /\ IF wfd' # {} THEN UNCHANGED <<writeopen, pc, freed>>
       ELSE /\ lock = NoProc
            /\ writeopen' = FALSE
            /\ pc' = WakeReaders(pc)
            /\ freed' = TRUE
    /\ UNCHANGED <<data, nread, nwrite, readopen, lock, rfd, todo, want,
                   killed, out>>

CloseWrite(p) ==
    /\ pc[p] = "idle" /\ p \in wfd
    /\ wfd' = wfd \ {p}
    /\ IF wfd' # {} THEN UNCHANGED <<writeopen, pc, freed>>
       ELSE /\ lock = NoProc
            /\ writeopen' = FALSE
            /\ pc' = WakeReaders(pc)
            /\ freed' = ~readopen
    /\ UNCHANGED <<data, nread, nwrite, readopen, lock, rfd, todo, want,
                   killed, out>>

CloseRead(p) ==
    /\ pc[p] = "idle" /\ p \in rfd
    /\ rfd' = rfd \ {p}
    /\ IF rfd' # {} THEN UNCHANGED <<readopen, pc, freed>>
       ELSE /\ lock = NoProc
            /\ readopen' = FALSE
            /\ pc' = WakeWriters(pc)
            /\ freed' = ~writeopen
    /\ UNCHANGED <<data, nread, nwrite, writeopen, lock, wfd, todo, want,
                   killed, out>>

\* kill: a process that sleeps is made RUNNABLE.
Kill(p) ==
    /\ ~killed[p]
    /\ killed' = [killed EXCEPT ![p] = TRUE]
    /\ pc' = [pc EXCEPT ![p] = CASE @ = "rsleep" -> "rlock"
                                 [] @ = "wsleep" -> "wlock"
                                 [] OTHER -> @]
    /\ UNCHANGED <<data, nread, nwrite, readopen, writeopen, lock, freed, rfd,
                   wfd, todo, want, out>>

(***************************************************************************)
(* The specification                                                       *)
(***************************************************************************)
\* pipealloc, then forks that left each end open in some processes.  The
\* page is not cleared: data holds anything.
Init ==
    /\ data \in [Slots -> Byte]
    /\ nread = 0 /\ nwrite = 0
    /\ readopen = TRUE /\ writeopen = TRUE
    /\ lock = NoProc /\ freed = FALSE
    /\ rfd \in (SUBSET Proc) \ {{}} /\ wfd \in (SUBSET Proc) \ {{}}
    /\ pc = [p \in Proc |-> "idle"]
    /\ todo = [p \in Proc |-> <<>>]
    /\ want = [p \in Proc |-> 0]
    /\ killed = [p \in Proc |-> FALSE]
    /\ out = <<>>

\* Steps the kernel takes for a process that is in a call.
Kernel(p) ==
    \/ WriteLock(p) \/ WriteByte(p) \/ WriteFail(p) \/ WriteFull(p)
    \/ WriteSleep(p) \/ WriteDone(p)
    \/ ReadLock(p) \/ ReadFail(p) \/ ReadEmpty(p) \/ ReadSleep(p)
    \/ ReadDone(p)

Next ==
    \E p \in Proc :
        \/ \E bytes \in Writes : WriteCall(p, bytes)
        \/ \E n \in 0 .. MaxCount : ReadCall(p, n)
        \/ Kernel(p)
        \/ CloseWrite(p) \/ CloseRead(p) \/ Kill(p)

\* Whoever waits for the lock gets it, whoever has it goes on.
Fairness == \A p \in Proc : SF_vars(Kernel(p))

Spec == Init /\ [][Next]_vars /\ Fairness

(***************************************************************************)
(* Properties                                                              *)
(***************************************************************************)

\* The counters wrap, but their distance is the number of bytes in the pipe:
\* never more than PIPESIZE, so no byte is overwritten before it is read.
Bounded == Used <= PIPESIZE

\* The process in the critical section is the one that holds the lock.
LockOwner == \A p \in Proc : pc[p] \in Holding <=> lock = p

\* The ring is used under its lock and within its bounds.
RingSound == TypeOK /\ Bounded /\ LockOwner

\* No lost wakeup: when nobody is in the critical section, a reader sleeps
\* only at an empty pipe that can still be written, and a writer only at a
\* full one that can still be read.
SleepersRight ==
    lock = NoProc =>
        \A p \in Proc :
            /\ pc[p] = "rsleep" => Empty /\ writeopen
            /\ pc[p] = "wsleep" => Full /\ readopen

\* It holds as long as no process is killed, however many readers and
\* writers share the two channels.
NoLostWakeup == (\A p \in Proc : ~killed[p]) => SleepersRight

\* The pipe is freed once, when no process can be in a call on it any more.
FreedUnused ==
    freed => \A p \in Proc : pc[p] = "idle" /\ p \notin rfd \cup wfd

\* Every behaviour of the pipe is one of a bounded FIFO queue: what readers
\* get is what the writers put, in order, once, at every wrap of the ring.
Contents == [i \in 1 .. Used |-> data[Incr(nread, i - 1) % PIPESIZE]]
FIFO == INSTANCE PipeFIFO WITH Size <- PIPESIZE, pending <- todo,
                               queue <- Contents, readable <- readopen,
                               writable <- writeopen
IsFIFO == FIFO!FIFOSpec

\* Closing an end lets the other side go: a writer does not wait for ever
\* once no reader is left, nor a reader once no writer is left.
CloseUnblocks ==
    \A p \in Proc :
        /\ (pc[p] \in {"wlock", "write", "wtested", "wsleep"} /\ ~readopen)
              ~> pc[p] = "idle"
        /\ (pc[p] \in {"rlock", "read", "rtested", "rsleep"} /\ ~writeopen)
              ~> pc[p] = "idle"

\* kill: "Wake process from sleep if necessary" (proc.c): a killed process
\* is not left asleep.
KilledAwake == \A p \in Proc : killed[p] => pc[p] \notin {"rsleep", "wsleep"}
=============================================================================
