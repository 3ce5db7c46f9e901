----------------------------- MODULE PipeProofs -----------------------------
(***************************************************************************)
(* Proofs about Pipe, for any number of processes and any size of the      *)
(* ring: the pipe's counters, its lock, its two ends, its wakeups, and     *)
(* that it is a bounded FIFO queue.                                        *)
(***************************************************************************)
EXTENDS Pipe, SequenceTheorems, TLAPS

(***************************************************************************)
(* The counters                                                            *)
(***************************************************************************)

\* What % gives near its first argument's range: the only facts about it that
\* the proofs use.
LEMMA ModFacts ==
    ASSUME NEW W \in Nat \ {0}, NEW a \in Int
    PROVE  /\ a % W \in 0 .. W - 1
           /\ 0 <= a /\ a < W => a % W = a
           /\ W <= a /\ a < 2 * W => a % W = a - W
           /\ -W <= a /\ a < 0 => a % W = a + W
  OBVIOUS

\* More about %: quotients, neighbours, and what a multiple changes.
LEMMA ModQuotient ==
    ASSUME NEW W \in Nat \ {0}, NEW a \in Int
    PROVE  \E q \in Int : a = W * q + (a % W)
  <1>1. a \div W \in Int /\ a = W * (a \div W) + (a % W)
    OBVIOUS
  <1> QED  BY <1>1

\* A number has one quotient and one remainder.
LEMMA ModUnique ==
    ASSUME NEW W \in Nat \ {0}, NEW a \in Int, NEW q \in Int,
           NEW r \in 0 .. W - 1, a = W * q + r
    PROVE  a % W = r
  OBVIOUS

\* Numbers less than a multiple apart have different remainders.
LEMMA ModDiffer ==
    ASSUME NEW W \in Nat \ {0}, NEW a \in Int, NEW b \in Int,
           0 < b - a, b - a < W
    PROVE  a % W # b % W
  <1> SUFFICES ASSUME a % W = b % W PROVE FALSE
    OBVIOUS
  <1>1. PICK q \in Int : a = W * q + (a % W)
    BY ModQuotient
  <1>2. PICK s \in Int : b = W * s + (b % W)
    BY ModQuotient
  <1>3. a % W \in Int
    OBVIOUS
  <1>4. b - a = W * (s - q)
    BY <1>1, <1>2, <1>3
  <1>5. s - q \in Int /\ (s - q <= 0 \/ s - q >= 1)
    OBVIOUS
  <1>6. CASE s - q <= 0
    BY <1>4, <1>6
  <1>7. CASE s - q >= 1
    BY <1>4, <1>7
  <1> QED  BY <1>5, <1>6, <1>7

\* Taking a multiple away leaves the remainder as it is.
LEMMA ModShift ==
    ASSUME NEW W \in Nat \ {0}, NEW a \in Int, NEW b \in Int, b % W = 0
    PROVE  (a - b) % W = a % W
  <1>1. PICK r \in 0 .. W - 1 : r = a % W
    OBVIOUS
  <1>2. PICK q \in Int : a = W * q + r
    BY <1>1, ModQuotient
  <1>3. PICK m \in Int : b = W * m
    BY ModQuotient
  <1>4. W * (q - m) = W * q - W * m
    OBVIOUS
  <1>5. PICK c \in Int : c = a - b
    OBVIOUS
  <1>6. q - m \in Int /\ c = W * (q - m) + r
    BY <1>2, <1>3, <1>4, <1>5
  <1>7. c % W = r
    BY <1>6, ModUnique
  <1> QED  BY <1>1, <1>5, <1>7

\* What the assumptions on the constants give.
LEMMA SizeFacts ==
    /\ PIPESIZE \in Nat \ {0} /\ Wrap \in Nat \ {0} /\ 2 * PIPESIZE <= Wrap
    /\ NoProc \notin Proc /\ MaxCount \in Nat
  BY PipeAssumption

\* A counter that grows by at most Wrap wraps at most once.
LEMMA IncrFacts ==
    ASSUME NEW n \in Counter, NEW k \in 0 .. Wrap
    PROVE  /\ Incr(n, k) \in Counter
           /\ Incr(n, k) = IF n + k < Wrap THEN n + k ELSE n + k - Wrap
  <1>1. /\ Wrap \in Nat \ {0} /\ n \in Int /\ k \in Int
        /\ n + k \in Int /\ 0 <= n + k /\ n + k < 2 * Wrap
    BY SizeFacts DEF Counter
  <1>2. /\ (n + k) % Wrap \in 0 .. Wrap - 1
        /\ n + k < Wrap => (n + k) % Wrap = n + k
        /\ Wrap <= n + k => (n + k) % Wrap = n + k - Wrap
    <2>1. PICK a \in Int : a = n + k
      BY <1>1
    <2>2. /\ a % Wrap \in 0 .. Wrap - 1
          /\ 0 <= a /\ a < Wrap => a % Wrap = a
          /\ Wrap <= a /\ a < 2 * Wrap => a % Wrap = a - Wrap
      BY <1>1, ModFacts
    <2> QED  BY <1>1, <2>1, <2>2
  <1> QED  BY <1>1, <1>2 DEF Incr, Counter

\* The distance between the counters, which is the number of bytes.
Dist(r, w) == (w - r) % Wrap

\* The distance of the counters is a number below the range they wrap at.
LEMMA DistFacts ==
    ASSUME NEW r \in Counter, NEW w \in Counter
    PROVE  /\ Dist(r, w) \in Counter
           /\ Dist(r, w) = IF r <= w THEN w - r ELSE w - r + Wrap
  <1>1. Wrap \in Nat \ {0} /\ w - r \in Int /\ -Wrap <= w - r /\ w - r < Wrap
    BY SizeFacts DEF Counter
  <1>2. /\ (w - r) % Wrap \in 0 .. Wrap - 1
        /\ 0 <= w - r => (w - r) % Wrap = w - r
        /\ w - r < 0 => (w - r) % Wrap = w - r + Wrap
    BY <1>1, ModFacts
  <1> QED  BY <1>1, <1>2 DEF Dist, Counter

\* The test of a full pipe, and the end of the bytes in the ring.
LEMMA DistTests ==
    ASSUME NEW r \in Counter, NEW w \in Counter
    PROVE  /\ w = Incr(r, PIPESIZE) <=> Dist(r, w) = PIPESIZE
           /\ r = w <=> Dist(r, w) = 0
           /\ Incr(r, Dist(r, w)) = w
  <1>1. /\ Dist(r, w) \in 0 .. Wrap /\ PIPESIZE \in 0 .. Wrap
        /\ Dist(r, w) = IF r <= w THEN w - r ELSE w - r + Wrap
    BY SizeFacts, DistFacts DEF Counter
  <1>2. Incr(r, PIPESIZE) = IF r + PIPESIZE < Wrap THEN r + PIPESIZE
                            ELSE r + PIPESIZE - Wrap
    BY <1>1, IncrFacts
  <1>3. Incr(r, Dist(r, w)) = IF r + Dist(r, w) < Wrap THEN r + Dist(r, w)
                              ELSE r + Dist(r, w) - Wrap
    BY <1>1, IncrFacts
  <1> QED  BY <1>1, <1>2, <1>3, SizeFacts DEF Counter

\* A byte more, and k bytes less.
LEMMA DistPut ==
    ASSUME NEW r \in Counter, NEW w \in Counter, Dist(r, w) < PIPESIZE
    PROVE  Dist(r, Incr(w, 1)) = Dist(r, w) + 1
  <1>1. Incr(w, 1) \in Counter /\ Incr(w, 1) = IF w + 1 < Wrap THEN w + 1 ELSE 0
    <2>1. 1 \in 0 .. Wrap /\ w + 1 <= Wrap
      BY SizeFacts DEF Counter
    <2>2. /\ Incr(w, 1) \in Counter
          /\ Incr(w, 1) = IF w + 1 < Wrap THEN w + 1 ELSE w + 1 - Wrap
      BY <2>1, IncrFacts
    <2> QED  BY <2>1, <2>2, SizeFacts DEF Counter
  <1>2. Dist(r, w) = IF r <= w THEN w - r ELSE w - r + Wrap
    BY DistFacts
  <1>3. Dist(r, Incr(w, 1)) = IF r <= Incr(w, 1) THEN Incr(w, 1) - r
                              ELSE Incr(w, 1) - r + Wrap
    BY <1>1, DistFacts
  <1> QED  BY <1>1, <1>2, <1>3, SizeFacts DEF Counter

\* piperead's copy of k bytes takes k from the distance.
LEMMA DistGet ==
    ASSUME NEW r \in Counter, NEW w \in Counter, NEW k \in 0 .. Dist(r, w)
    PROVE  Dist(Incr(r, k), w) = Dist(r, w) - k
  <1>1. Dist(r, w) \in Counter
        /\ Dist(r, w) = IF r <= w THEN w - r ELSE w - r + Wrap
    BY DistFacts
  <1>2. k \in 0 .. Wrap
    BY <1>1, SizeFacts DEF Counter
  <1>3. /\ Incr(r, k) \in Counter
        /\ Incr(r, k) = IF r + k < Wrap THEN r + k ELSE r + k - Wrap
    BY <1>2, IncrFacts
  <1>4. Dist(Incr(r, k), w) = IF Incr(r, k) <= w THEN w - Incr(r, k)
                              ELSE w - Incr(r, k) + Wrap
    BY <1>3, DistFacts
  <1> QED  BY <1>1, <1>2, <1>3, <1>4, SizeFacts DEF Counter

(***************************************************************************)
(* The inductive invariant                                                 *)
(***************************************************************************)
Writing == {"wlock", "write", "wtested", "wsleep"}
Reading == {"rlock", "read", "rtested", "rsleep"}

\* Who is in a call has its end open, and an end is open as long as somebody
\* has it.
Ends ==
    /\ readopen <=> rfd # {}
    /\ writeopen <=> wfd # {}
    /\ freed <=> ~readopen /\ ~writeopen
    /\ \A p \in Proc : /\ pc[p] \in Writing => p \in wfd
                       /\ pc[p] \in Reading => p \in rfd
                       /\ pc[p] \notin Writing => todo[p] = <<>>

\* NoLostWakeup is not inductive: while a writer is in its loop, readers
\* sleep at a pipe that has bytes; the writer wakes them before it leaves.
Sleepers ==
    (\A p \in Proc : ~killed[p]) =>
        \A p \in Proc :
            /\ pc[p] = "rsleep" => /\ writeopen
                                   /\ Empty \/ \E q \in Proc : pc[q] = "write"
            /\ pc[p] \in {"wsleep", "wtested"} => Full /\ readopen
            /\ pc[p] = "rtested" => Empty /\ writeopen

IInv == TypeOK /\ LockOwner /\ Bounded /\ Ends /\ Sleepers

\* A program's bytes are a sequence of bytes.
LEMMA WritesSeq == Writes \subseteq Seq(Byte)
  <1> SUFFICES ASSUME NEW n \in 0 .. MaxCount, NEW s \in [1 .. n -> Byte]
               PROVE  s \in Seq(Byte)
    BY DEF Writes
  <1>1. n \in Nat
    BY SizeFacts
  <1> QED  BY <1>1, SeqDef

\* wakeup leaves every process at a known place.
LEMMA WakeTypes ==
    ASSUME NEW f \in [Proc -> PC]
    PROVE  WakeReaders(f) \in [Proc -> PC] /\ WakeWriters(f) \in [Proc -> PC]
  BY DEF WakeReaders, WakeWriters, PC

\* Moving a process to a known place keeps pc well typed.
LEMMA AtType ==
    ASSUME pc \in [Proc -> PC], NEW p \in Proc, NEW at \in PC
    PROVE  At(p, at) \in [Proc -> PC]
  BY DEF At

\* The number of bytes piperead copies is a number of bytes in the ring.
LEMMA TakenType ==
    ASSUME TypeOK, NEW p \in Proc
    PROVE  Taken(p) \in 0 .. Used /\ Taken(p) \in 0 .. want[p]
  <1>1. Used \in Nat
    BY DistFacts DEF TypeOK, Used, Dist, Counter
  <1>2. want[p] \in Nat
    BY SizeFacts DEF TypeOK
  <1> QED  BY <1>1, <1>2 DEF Taken

\* What piperead copies is a sequence of bytes.
LEMMA CopyType ==
    ASSUME TypeOK, NEW k \in 0 .. Used
    PROVE  [i \in 1 .. k |-> data[Incr(nread, i - 1) % PIPESIZE]] \in Seq(Byte)
  <1>1. Used \in 0 .. Wrap - 1
    BY DistFacts DEF TypeOK, Used, Dist, Counter
  <1>2. ASSUME NEW i \in 1 .. k
        PROVE  data[Incr(nread, i - 1) % PIPESIZE] \in Byte
    <2>1. i - 1 \in 0 .. Wrap
      BY <1>1, SizeFacts
    <2>2. Incr(nread, i - 1) \in Int
      BY <2>1, SizeFacts, IncrFacts DEF TypeOK, Counter
    <2>3. Incr(nread, i - 1) % PIPESIZE \in Slots
      BY <2>2, SizeFacts, ModFacts DEF Slots
    <2> QED  BY <2>3 DEF TypeOK
  <1>3. k \in Nat
    BY <1>1, SizeFacts
  <1> QED  BY <1>2, <1>3, SeqDef

\* pipealloc establishes the invariant.
LEMMA InitIInv == Init => IInv
  <1> SUFFICES ASSUME Init PROVE IInv
    OBVIOUS
  <1>1. TypeOK
    <2>1. 0 \in Counter /\ 0 \in 0 .. MaxCount /\ "idle" \in PC
      BY SizeFacts DEF Counter, PC
    <2>2. <<>> \in Seq(Byte)
      OBVIOUS
    <2> QED  BY <2>1, <2>2 DEF Init, TypeOK
  <1>2. LockOwner
    BY SizeFacts DEF Init, LockOwner, Holding
  <1>3. Ends
    <2>1. /\ readopen = TRUE /\ writeopen = TRUE /\ freed = FALSE
          /\ rfd # {} /\ wfd # {}
      BY DEF Init
    <2>2. \A p \in Proc : /\ pc[p] \notin Writing /\ pc[p] \notin Reading
                          /\ todo[p] = <<>>
      BY DEF Init, Writing, Reading
    <2> QED  BY <2>1, <2>2, Zenon DEF Ends
  <1>4. Bounded
    <2>1. 0 \in Counter /\ Dist(0, 0) = 0
      BY SizeFacts, DistFacts DEF Counter
    <2> QED  BY <2>1, SizeFacts DEF Init, Bounded, Used, Dist
  <1>5. Sleepers
    BY DEF Init, Sleepers
  <1> QED  BY <1>1, <1>2, <1>3, <1>4, <1>5 DEF IInv

\* Every step of a pipe call keeps the types.
LEMMA TypeStep == TypeOK /\ [Next]_vars => TypeOK'
  <1> SUFFICES ASSUME TypeOK, [Next]_vars PROVE TypeOK'
    OBVIOUS
  <1>0. /\ \A p \in Proc, at \in PC : At(p, at) \in [Proc -> PC]
        /\ \A f \in [Proc -> PC] : WakeReaders(f) \in [Proc -> PC]
        /\ \A f \in [Proc -> PC] : WakeWriters(f) \in [Proc -> PC]
    BY AtType, WakeTypes DEF TypeOK
  <1>1. ASSUME NEW p \in Proc, NEW bytes \in Writes, WriteCall(p, bytes)
        PROVE  TypeOK'
    BY <1>0, <1>1, WritesSeq DEF WriteCall, TypeOK, PC
  <1>2. ASSUME NEW p \in Proc, WriteLock(p) PROVE TypeOK'
    BY <1>0, <1>2 DEF WriteLock, TypeOK, PC
  <1>3. ASSUME NEW p \in Proc, WriteByte(p) PROVE TypeOK'
    <2>1. nwrite' \in Counter
      BY <1>3, SizeFacts, IncrFacts DEF WriteByte, TypeOK
    <2>2. Head(todo[p]) \in Byte /\ Tail(todo[p]) \in Seq(Byte)
      BY <1>3 DEF WriteByte, TypeOK
    <2>3. data' \in [Slots -> Byte] /\ todo' \in [Proc -> Seq(Byte)]
      BY <1>3, <2>2 DEF WriteByte, TypeOK
    <2> QED  BY <1>3, <2>1, <2>3 DEF WriteByte, TypeOK
  <1>4. ASSUME NEW p \in Proc, WriteFail(p) PROVE TypeOK'
    BY <1>0, <1>4 DEF WriteFail, TypeOK, PC
  <1>5. ASSUME NEW p \in Proc, WriteFull(p) PROVE TypeOK'
    BY <1>0, <1>5 DEF WriteFull, TypeOK, PC
  <1>6. ASSUME NEW p \in Proc, WriteSleep(p) PROVE TypeOK'
    BY <1>0, <1>6 DEF WriteSleep, TypeOK, PC
  <1>7. ASSUME NEW p \in Proc, WriteDone(p) PROVE TypeOK'
    BY <1>0, <1>7 DEF WriteDone, TypeOK, PC
  <1>8. ASSUME NEW p \in Proc, NEW n \in 0 .. MaxCount, ReadCall(p, n)
        PROVE  TypeOK'
    BY <1>0, <1>8 DEF ReadCall, TypeOK, PC
  <1>9. ASSUME NEW p \in Proc, ReadLock(p) PROVE TypeOK'
    BY <1>0, <1>9 DEF ReadLock, TypeOK, PC
  <1>10. ASSUME NEW p \in Proc, ReadFail(p) PROVE TypeOK'
    BY <1>0, <1>10, SizeFacts DEF ReadFail, TypeOK, PC
  <1>11. ASSUME NEW p \in Proc, ReadEmpty(p) PROVE TypeOK'
    BY <1>0, <1>11 DEF ReadEmpty, TypeOK, PC
  <1>12. ASSUME NEW p \in Proc, ReadSleep(p) PROVE TypeOK'
    BY <1>0, <1>12 DEF ReadSleep, TypeOK, PC
  <1>13. ASSUME NEW p \in Proc, ReadDone(p) PROVE TypeOK'
    <2>1. Taken(p) \in 0 .. Used /\ Used \in Counter
      BY TakenType, DistFacts DEF TypeOK, Used, Dist
    <2>2. Taken(p) \in 0 .. Wrap
      BY <2>1, SizeFacts DEF Counter
    <2>3. nread' \in Counter
      BY <1>13, <2>2, IncrFacts DEF ReadDone, TypeOK
    <2>4. out' \in Seq(Byte)
      BY <1>13, <2>1, CopyType DEF ReadDone
    <2>5. pc' \in [Proc -> PC]
      BY <1>0, <1>13 DEF ReadDone, PC
    <2>6. want' \in [Proc -> 0 .. MaxCount]
      BY <1>13, SizeFacts DEF ReadDone, TypeOK
    <2> QED  BY <1>13, <2>3, <2>4, <2>5, <2>6 DEF ReadDone, TypeOK
  <1>14. ASSUME NEW p \in Proc, CloseWrite(p) PROVE TypeOK'
    BY <1>0, <1>14 DEF CloseWrite, TypeOK
  <1>15. ASSUME NEW p \in Proc, CloseRead(p) PROVE TypeOK'
    BY <1>0, <1>15 DEF CloseRead, TypeOK
  <1>16. ASSUME NEW p \in Proc, Kill(p) PROVE TypeOK'
    BY <1>16 DEF Kill, TypeOK, PC
  <1>17. CASE UNCHANGED vars
    BY <1>17 DEF vars, TypeOK
  <1> QED
    BY <1>1, <1>2, <1>3, <1>4, <1>5, <1>6, <1>7, <1>8, <1>9, <1>10, <1>11,
       <1>12, <1>13, <1>14, <1>15, <1>16, <1>17 DEF Next, Kernel

\* The lock: only the step of its owner changes who is in the section.
LEMMA LockStep == TypeOK /\ LockOwner /\ [Next]_vars => LockOwner'
  <1> SUFFICES ASSUME TypeOK, LockOwner, [Next]_vars PROVE LockOwner'
    OBVIOUS
  <1> USE DEF Holding, At, WakeReaders, WakeWriters
  <1>0. NoProc \notin Proc /\ pc \in [Proc -> PC]
    BY SizeFacts DEF TypeOK
  <1>1. ASSUME NEW p \in Proc, NEW bytes \in Writes, WriteCall(p, bytes)
        PROVE  LockOwner'
    BY <1>0, <1>1 DEF WriteCall, LockOwner
  <1>2. ASSUME NEW p \in Proc, WriteLock(p) PROVE LockOwner'
    BY <1>0, <1>2 DEF WriteLock, LockOwner
  <1>3. ASSUME NEW p \in Proc, WriteByte(p) PROVE LockOwner'
    BY <1>0, <1>3 DEF WriteByte, LockOwner
  <1>4. ASSUME NEW p \in Proc, WriteFail(p) PROVE LockOwner'
    BY <1>0, <1>4 DEF WriteFail, LockOwner
  <1>5. ASSUME NEW p \in Proc, WriteFull(p) PROVE LockOwner'
    BY <1>0, <1>5 DEF WriteFull, LockOwner
  <1>6. ASSUME NEW p \in Proc, WriteSleep(p) PROVE LockOwner'
    BY <1>0, <1>6 DEF WriteSleep, LockOwner
  <1>7. ASSUME NEW p \in Proc, WriteDone(p) PROVE LockOwner'
    BY <1>0, <1>7 DEF WriteDone, LockOwner
  <1>8. ASSUME NEW p \in Proc, NEW n \in 0 .. MaxCount, ReadCall(p, n)
        PROVE  LockOwner'
    BY <1>0, <1>8 DEF ReadCall, LockOwner
  <1>9. ASSUME NEW p \in Proc, ReadLock(p) PROVE LockOwner'
    BY <1>0, <1>9 DEF ReadLock, LockOwner
  <1>10. ASSUME NEW p \in Proc, ReadFail(p) PROVE LockOwner'
    BY <1>0, <1>10 DEF ReadFail, LockOwner
  <1>11. ASSUME NEW p \in Proc, ReadEmpty(p) PROVE LockOwner'
    BY <1>0, <1>11 DEF ReadEmpty, LockOwner
  <1>12. ASSUME NEW p \in Proc, ReadSleep(p) PROVE LockOwner'
    BY <1>0, <1>12 DEF ReadSleep, LockOwner
  <1>13. ASSUME NEW p \in Proc, ReadDone(p) PROVE LockOwner'
    BY <1>0, <1>13 DEF ReadDone, LockOwner
  <1>14. ASSUME NEW p \in Proc, CloseWrite(p) PROVE LockOwner'
    BY <1>0, <1>14 DEF CloseWrite, LockOwner
  <1>15. ASSUME NEW p \in Proc, CloseRead(p) PROVE LockOwner'
    BY <1>0, <1>15 DEF CloseRead, LockOwner
  <1>16. ASSUME NEW p \in Proc, Kill(p) PROVE LockOwner'
    BY <1>0, <1>16 DEF Kill, LockOwner
  <1>17. CASE UNCHANGED vars
    BY <1>17 DEF vars, LockOwner
  <1> QED
    BY <1>1, <1>2, <1>3, <1>4, <1>5, <1>6, <1>7, <1>8, <1>9, <1>10, <1>11,
       <1>12, <1>13, <1>14, <1>15, <1>16, <1>17 DEF Next, Kernel

\* The counters: only WriteByte and ReadDone move them.
LEMMA BoundedStep == TypeOK /\ Bounded /\ [Next]_vars => Bounded'
  <1> SUFFICES ASSUME TypeOK, Bounded, [Next]_vars PROVE Bounded'
    OBVIOUS
  <1>0. nread \in Counter /\ nwrite \in Counter /\ Used = Dist(nread, nwrite)
    BY DEF TypeOK, Used, Dist
  <1>1. ASSUME NEW p \in Proc, WriteByte(p) PROVE Bounded'
    <2>1. Used # PIPESIZE
      BY <1>0, <1>1, DistTests DEF WriteByte, Full
    <2>2. Used < PIPESIZE
      BY <1>0, <2>1, SizeFacts, DistFacts DEF Bounded, Counter
    <2>3. Used' = Used + 1
      BY <1>0, <1>1, <2>2, DistPut DEF WriteByte, Used, Dist
    <2> QED  BY <1>0, <2>2, <2>3, SizeFacts, DistFacts DEF Bounded, Counter
  <1>2. ASSUME NEW p \in Proc, ReadDone(p) PROVE Bounded'
    <2>1. Taken(p) \in 0 .. Dist(nread, nwrite)
      BY <1>0, TakenType
    <2>2. Used' = Used - Taken(p)
      BY <1>0, <1>2, <2>1, DistGet DEF ReadDone, Used, Dist
    <2> QED  BY <1>0, <2>1, <2>2, SizeFacts, DistFacts DEF Bounded, Counter
  <1>3. CASE UNCHANGED <<nread, nwrite>>
    BY <1>3 DEF Bounded, Used
  <1>4. \/ \E p \in Proc : WriteByte(p) \/ ReadDone(p)
        \/ UNCHANGED <<nread, nwrite>>
    BY DEF Next, Kernel, vars, WriteCall, WriteLock, WriteFail, WriteFull,
           WriteSleep, WriteDone, ReadCall, ReadLock, ReadFail, ReadEmpty,
           ReadSleep, CloseWrite, CloseRead, Kill
  <1> QED  BY <1>1, <1>2, <1>3, <1>4

\* The ends: a process leaves its call before it closes its end.
LEMMA EndsStep == TypeOK /\ Ends /\ [Next]_vars => Ends'
  <1> SUFFICES ASSUME TypeOK, Ends, [Next]_vars PROVE Ends'
    OBVIOUS
  <1> USE DEF Writing, Reading, At, WakeReaders, WakeWriters
  <1>0. pc \in [Proc -> PC] /\ todo \in [Proc -> Seq(Byte)]
    BY DEF TypeOK
  <1>1. ASSUME NEW p \in Proc, NEW bytes \in Writes, WriteCall(p, bytes)
        PROVE  Ends'
    BY <1>0, <1>1 DEF WriteCall, Ends
  <1>2. ASSUME NEW p \in Proc, WriteLock(p) PROVE Ends'
    BY <1>0, <1>2 DEF WriteLock, Ends
  <1>3. ASSUME NEW p \in Proc, WriteByte(p) PROVE Ends'
    BY <1>0, <1>3 DEF WriteByte, Ends
  <1>4. ASSUME NEW p \in Proc, WriteFail(p) PROVE Ends'
    BY <1>0, <1>4 DEF WriteFail, Ends
  <1>5. ASSUME NEW p \in Proc, WriteFull(p) PROVE Ends'
    BY <1>0, <1>5 DEF WriteFull, Ends
  <1>6. ASSUME NEW p \in Proc, WriteSleep(p) PROVE Ends'
    BY <1>0, <1>6 DEF WriteSleep, Ends
  <1>7. ASSUME NEW p \in Proc, WriteDone(p) PROVE Ends'
    BY <1>0, <1>7 DEF WriteDone, Ends
  <1>8. ASSUME NEW p \in Proc, NEW n \in 0 .. MaxCount, ReadCall(p, n)
        PROVE  Ends'
    BY <1>0, <1>8 DEF ReadCall, Ends
  <1>9. ASSUME NEW p \in Proc, ReadLock(p) PROVE Ends'
    BY <1>0, <1>9 DEF ReadLock, Ends
  <1>10. ASSUME NEW p \in Proc, ReadFail(p) PROVE Ends'
    BY <1>0, <1>10 DEF ReadFail, Ends
  <1>11. ASSUME NEW p \in Proc, ReadEmpty(p) PROVE Ends'
    BY <1>0, <1>11 DEF ReadEmpty, Ends
  <1>12. ASSUME NEW p \in Proc, ReadSleep(p) PROVE Ends'
    BY <1>0, <1>12 DEF ReadSleep, Ends
  <1>13. ASSUME NEW p \in Proc, ReadDone(p) PROVE Ends'
    BY <1>0, <1>13 DEF ReadDone, Ends
  <1>14. ASSUME NEW p \in Proc, CloseWrite(p) PROVE Ends'
    BY <1>0, <1>14 DEF CloseWrite, Ends
  <1>15. ASSUME NEW p \in Proc, CloseRead(p) PROVE Ends'
    BY <1>0, <1>15 DEF CloseRead, Ends
  <1>16. ASSUME NEW p \in Proc, Kill(p) PROVE Ends'
    BY <1>0, <1>16 DEF Kill, Ends
  <1>17. CASE UNCHANGED vars
    BY <1>17 DEF vars, Ends
  <1> QED
    BY <1>1, <1>2, <1>3, <1>4, <1>5, <1>6, <1>7, <1>8, <1>9, <1>10, <1>11,
       <1>12, <1>13, <1>14, <1>15, <1>16, <1>17 DEF Next, Kernel

\* The sleepers: whoever makes the pipe non-empty, or non-full, or shuts an
\* end, wakes the other side before it lets go of the lock.
LEMMA SleepersStep == IInv /\ [Next]_vars => Sleepers'
  <1> SUFFICES ASSUME IInv, [Next]_vars, \A q \in Proc : ~killed'[q]
               PROVE  Sleepers'
    BY DEF Sleepers
  <1> USE DEF At, WakeReaders, WakeWriters, Empty, Full, Holding
  <1>0. pc \in [Proc -> PC] /\ NoProc \notin Proc
    BY SizeFacts DEF IInv, TypeOK
  <1>1. ASSUME NEW p \in Proc, NEW bytes \in Writes, WriteCall(p, bytes)
        PROVE  Sleepers'
    BY <1>0, <1>1 DEF WriteCall, IInv, LockOwner, Ends, Sleepers
  <1>2. ASSUME NEW p \in Proc, WriteLock(p) PROVE Sleepers'
    BY <1>0, <1>2 DEF WriteLock, IInv, LockOwner, Ends, Sleepers
  <1>3. ASSUME NEW p \in Proc, WriteByte(p) PROVE Sleepers'
    BY <1>0, <1>3 DEF WriteByte, IInv, LockOwner, Ends, Sleepers
  <1>4. ASSUME NEW p \in Proc, WriteFail(p) PROVE Sleepers'
    <2>1. ~readopen
      BY <1>4 DEF WriteFail
    <2>2. \A q \in Proc : pc[q] \notin Reading
      BY <2>1 DEF IInv, Ends
    <2> QED  BY <1>0, <1>4, <2>1, <2>2
             DEF WriteFail, IInv, LockOwner, Sleepers, Reading
  <1>5. ASSUME NEW p \in Proc, WriteFull(p) PROVE Sleepers'
    BY <1>0, <1>5 DEF WriteFull, IInv, LockOwner, Ends, Sleepers
  <1>6. ASSUME NEW p \in Proc, WriteSleep(p) PROVE Sleepers'
    BY <1>0, <1>6 DEF WriteSleep, IInv, LockOwner, Ends, Sleepers
  <1>7. ASSUME NEW p \in Proc, WriteDone(p) PROVE Sleepers'
    BY <1>0, <1>7 DEF WriteDone, IInv, LockOwner, Ends, Sleepers
  <1>8. ASSUME NEW p \in Proc, NEW n \in 0 .. MaxCount, ReadCall(p, n)
        PROVE  Sleepers'
    BY <1>0, <1>8 DEF ReadCall, IInv, LockOwner, Ends, Sleepers
  <1>9. ASSUME NEW p \in Proc, ReadLock(p) PROVE Sleepers'
    BY <1>0, <1>9 DEF ReadLock, IInv, LockOwner, Ends, Sleepers
  <1>10. ASSUME NEW p \in Proc, ReadFail(p) PROVE Sleepers'
    BY <1>0, <1>10 DEF ReadFail, IInv, LockOwner, Ends, Sleepers
  <1>11. ASSUME NEW p \in Proc, ReadEmpty(p) PROVE Sleepers'
    BY <1>0, <1>11 DEF ReadEmpty, IInv, LockOwner, Ends, Sleepers
  <1>12. ASSUME NEW p \in Proc, ReadSleep(p) PROVE Sleepers'
    BY <1>0, <1>12 DEF ReadSleep, IInv, LockOwner, Ends, Sleepers
  <1>13. ASSUME NEW p \in Proc, ReadDone(p) PROVE Sleepers'
    BY <1>0, <1>13 DEF ReadDone, IInv, LockOwner, Ends, Sleepers
  <1>14. ASSUME NEW p \in Proc, CloseWrite(p) PROVE Sleepers'
    BY <1>0, <1>14 DEF CloseWrite, IInv, LockOwner, Ends, Sleepers
  <1>15. ASSUME NEW p \in Proc, CloseRead(p) PROVE Sleepers'
    BY <1>0, <1>15 DEF CloseRead, IInv, LockOwner, Ends, Sleepers
  <1>16. ASSUME NEW p \in Proc, Kill(p) PROVE Sleepers'
    BY <1>0, <1>16 DEF Kill, IInv, LockOwner, Ends, Sleepers
  <1>17. CASE UNCHANGED vars
    BY <1>17 DEF vars, IInv, LockOwner, Ends, Sleepers
  <1> QED
    BY <1>1, <1>2, <1>3, <1>4, <1>5, <1>6, <1>7, <1>8, <1>9, <1>10, <1>11,
       <1>12, <1>13, <1>14, <1>15, <1>16, <1>17 DEF Next, Kernel

\* Every step of a pipe call keeps the invariant.
LEMMA IInvStep == IInv /\ [Next]_vars => IInv'
  BY TypeStep, LockStep, BoundedStep, EndsStep, SleepersStep DEF IInv

(***************************************************************************)
(* The theorems                                                            *)
(***************************************************************************)

\* The invariant holds in every state of every pipe.
THEOREM Invariance == Spec => []IInv
  BY InitIInv, IInvStep, PTL DEF Spec

\* The wrapping counters stay in their range and at most PIPESIZE apart, so
\* that pipewrite never overwrites a byte that piperead has still to return,
\* and only the holder of p->lock is in the critical section.
THEOREM RingSoundHolds == Spec => []RingSound
  <1>1. IInv => RingSound
    BY DEF IInv, RingSound
  <1> QED  BY <1>1, Invariance, PTL

\* pipeclose frees the pipe only when no process can be in a call on it.
THEOREM FreedUnusedHolds == Spec => []FreedUnused
  <1>1. IInv => FreedUnused
    <2> SUFFICES ASSUME IInv, freed, NEW p \in Proc
                 PROVE  pc[p] = "idle" /\ p \notin rfd \cup wfd
      BY DEF FreedUnused
    <2>1. rfd = {} /\ wfd = {}
      BY DEF IInv, Ends
    <2>2. pc[p] \notin Writing /\ pc[p] \notin Reading
      BY <2>1 DEF IInv, Ends
    <2> QED  BY <2>1, <2>2 DEF IInv, TypeOK, PC, Writing, Reading
  <1> QED  BY <1>1, Invariance, PTL

\* No reader or writer sleeps through the wakeup it waits for, as long as no
\* process is killed.
THEOREM NoLostWakeupHolds == Spec => []NoLostWakeup
  <1>1. IInv => NoLostWakeup
    <2> SUFFICES ASSUME IInv, \A q \in Proc : ~killed[q], lock = NoProc,
                        NEW p \in Proc
                 PROVE  /\ pc[p] = "rsleep" => Empty /\ writeopen
                        /\ pc[p] = "wsleep" => Full /\ readopen
      BY DEF NoLostWakeup, SleepersRight
    <2>1. \A q \in Proc : pc[q] # "write"
      BY SizeFacts DEF IInv, LockOwner, Holding
    <2> QED  BY <2>1 DEF IInv, Sleepers
  <1> QED  BY <1>1, Invariance, PTL

(***************************************************************************)
(* The pipe is a bounded FIFO queue                                        *)
(***************************************************************************)

\* PIPESIZE divides the range of the counters, so that wrapping does not
\* change the slot a counter stands for.
LEMMA SlotOf ==
    ASSUME NEW r \in Counter, NEW k \in 0 .. Wrap
    PROVE  Incr(r, k) % PIPESIZE = (r + k) % PIPESIZE
  <1>1. Wrap % PIPESIZE = 0 /\ PIPESIZE \in Nat \ {0} /\ Wrap \in Int
    BY PipeAssumption
  <1>2. PICK a \in Int : a = r + k
    BY SizeFacts DEF Counter
  <1>3. (a - Wrap) % PIPESIZE = a % PIPESIZE
    BY <1>1, ModShift
  <1>4. Incr(r, k) = a \/ Incr(r, k) = a - Wrap
    <2>1. Incr(r, k) = IF r + k < Wrap THEN r + k ELSE r + k - Wrap
      BY IncrFacts
    <2> QED  BY <1>1, <1>2, <2>1 DEF Counter
  <1> QED  BY <1>2, <1>3, <1>4

\* Two bytes of the ring are in different slots.
LEMMA SlotsDiffer ==
    ASSUME NEW r \in Counter, NEW i \in Nat, NEW j \in Nat,
           i < j, j < PIPESIZE
    PROVE  Incr(r, i) % PIPESIZE # Incr(r, j) % PIPESIZE
  <1>1. i \in 0 .. Wrap /\ j \in 0 .. Wrap
    BY SizeFacts
  <1>2. PICK a \in Int, b \in Int : a = r + i /\ b = r + j
    BY SizeFacts DEF Counter
  <1>3. 0 < b - a /\ b - a < PIPESIZE
    BY <1>2, SizeFacts DEF Counter
  <1>4. a % PIPESIZE # b % PIPESIZE
    BY <1>3, SizeFacts, ModDiffer
  <1> QED  BY <1>1, <1>2, <1>4, SlotOf

\* The abstract queue is a sequence of bytes as long as the counters say.
LEMMA ContentsType ==
    TypeOK => Contents \in Seq(Byte) /\ Len(Contents) = Used /\ Used \in Counter
  <1> SUFFICES ASSUME TypeOK
               PROVE  Contents \in Seq(Byte) /\ Len(Contents) = Used
                      /\ Used \in Counter
    OBVIOUS
  <1>1. Used \in Counter
    BY DistFacts DEF TypeOK, Used, Dist
  <1>2. Used \in 0 .. Used /\ Used \in Nat
    BY <1>1, SizeFacts DEF Counter
  <1>3. Contents \in Seq(Byte)
    BY <1>2, CopyType DEF Contents
  <1>4. Len(Contents) = Used
    BY <1>2, <1>3 DEF Contents
  <1> QED  BY <1>1, <1>3, <1>4

\* WriteByte appends its byte.
LEMMA PutRefines ==
    ASSUME IInv, NEW p \in Proc, WriteByte(p)
    PROVE  FIFO!Put(p)
  <1>0. /\ nread \in Counter /\ nwrite \in Counter /\ Used = Dist(nread, nwrite)
        /\ TypeOK /\ Bounded /\ Used \in Nat
    BY DistFacts, SizeFacts DEF IInv, TypeOK, Used, Dist, Counter
  <1>1. Used < PIPESIZE
    <2>1. Used # PIPESIZE
      BY <1>0, DistTests DEF WriteByte, Full
    <2> QED  BY <1>0, <2>1, SizeFacts DEF Bounded
  <1>2. Used' = Used + 1
    BY <1>0, <1>1, DistPut DEF WriteByte, Used, Dist
  <1>3. WriteSlot = Incr(nread, Used) % PIPESIZE
    BY <1>0, DistTests DEF WriteSlot
  <1>4. WriteSlot \in Slots
    BY <1>0, SizeFacts, ModFacts DEF WriteSlot, Slots, Counter
  <1>5. ASSUME NEW i \in 1 .. Used
        PROVE  Contents'[i] = Contents[i]
    <2>1. i \in 1 .. Used' /\ i - 1 \in Nat /\ i - 1 < Used
      BY <1>0, <1>2
    <2>2. Incr(nread, i - 1) % PIPESIZE # WriteSlot
      BY <1>0, <1>1, <1>3, <2>1, SlotsDiffer
    <2>3. data'[Incr(nread, i - 1) % PIPESIZE]
            = data[Incr(nread, i - 1) % PIPESIZE]
      BY <1>0, <2>2 DEF WriteByte, TypeOK
    <2>4. Contents'[i] = data'[Incr(nread', i - 1) % PIPESIZE]
      BY <2>1 DEF Contents, Incr
    <2>5. Contents[i] = data[Incr(nread, i - 1) % PIPESIZE]
      BY DEF Contents
    <2> QED  BY <2>3, <2>4, <2>5 DEF WriteByte
  <1>6. Contents'[Used + 1] = Head(todo[p])
    <2>1. Contents'[Used + 1] = data'[Incr(nread', Used) % PIPESIZE]
      BY <1>0, <1>2 DEF Contents, Incr
    <2> QED  BY <1>0, <1>3, <1>4, <2>1 DEF WriteByte, TypeOK
  <1>7. Contents' = Append(Contents, Head(todo[p]))
    <2>1. Contents \in Seq(Byte) /\ Len(Contents) = Used
      BY <1>0, ContentsType
    <2>2. TypeOK'
      BY <1>0, TypeStep DEF Next, Kernel
    <2>3. (Contents \in Seq(Byte) /\ Len(Contents) = Used /\ Used \in Counter)'
      BY <2>2, ContentsType, PTL
    <2> QED  BY <1>0, <1>2, <1>5, <1>6, <2>1, <2>3
  <1>8. Len(Contents) < PIPESIZE
    BY <1>0, <1>1, ContentsType
  <1>9. pc[p] \in Writing /\ writeopen
    BY DEF WriteByte, IInv, Ends, Writing
  <1> QED  BY <1>7, <1>8, <1>9 DEF FIFO!Put, WriteByte

\* ReadDone takes the first bytes.
LEMMA GetRefines ==
    ASSUME IInv, NEW p \in Proc, ReadDone(p)
    PROVE  Taken(p) \in 0 .. PIPESIZE /\ FIFO!Get(Taken(p))
  <1> DEFINE k == Taken(p)
  <1>0. /\ nread \in Counter /\ nwrite \in Counter /\ Used = Dist(nread, nwrite)
        /\ TypeOK /\ Bounded /\ Used \in 0 .. Wrap - 1
    BY DistFacts, SizeFacts DEF IInv, TypeOK, Used, Dist, Counter
  <1>1. k \in 0 .. Used /\ k \in 0 .. Wrap /\ k \in 0 .. PIPESIZE /\ k \in Nat
    BY <1>0, TakenType, SizeFacts DEF Bounded
  <1>2. Used' = Used - k
    BY <1>0, <1>1, DistGet DEF ReadDone, Used, Dist
  <1>3. Contents \in Seq(Byte) /\ Len(Contents) = Used
    BY <1>0, ContentsType
  <1>4. TypeOK'
    BY <1>0, TypeStep DEF Next, Kernel
  <1>5. (Contents \in Seq(Byte) /\ Len(Contents) = Used /\ Used \in Counter)'
    BY <1>4, ContentsType, PTL
  <1>6. out' = SubSeq(Contents, 1, k)
    <2>1. out' \in Seq(Byte) /\ Len(out') = k
      BY <1>0, <1>1, CopyType DEF ReadDone
    <2>2. ASSUME NEW i \in 1 .. k PROVE out'[i] = Contents[i]
      BY <1>0, <1>1 DEF ReadDone, Contents
    <2>3. SubSeq(Contents, 1, k) \in Seq(Byte) /\ Len(SubSeq(Contents, 1, k)) = k
      BY <1>0, <1>1, <1>3
    <2>4. ASSUME NEW i \in 1 .. k PROVE SubSeq(Contents, 1, k)[i] = Contents[i]
      BY <1>0, <1>1, <1>3
    <2> QED  BY <2>1, <2>2, <2>3, <2>4, SeqEqual
  <1>7. Contents' = SubSeq(Contents, k + 1, Len(Contents))
    <2> DEFINE rest == SubSeq(Contents, k + 1, Len(Contents))
    <2>1. rest \in Seq(Byte) /\ Len(rest) = Used - k
      BY <1>0, <1>1, <1>3
    <2>2. ASSUME NEW i \in 1 .. Used - k PROVE Contents'[i] = rest[i]
      <3>1. rest[i] = Contents[i + k]
        BY <1>0, <1>1, <1>3
      <3>2. Contents[i + k] = data[Incr(nread, i + k - 1) % PIPESIZE]
        BY <1>0, <1>1 DEF Contents
      <3>3. Contents'[i] = data[Incr(Incr(nread, k), i - 1) % PIPESIZE]
        BY <1>0, <1>1, <1>2 DEF ReadDone, Contents, Incr
      <3>4. Incr(Incr(nread, k), i - 1) = Incr(nread, i + k - 1)
        <4>1. i - 1 \in 0 .. Wrap /\ i + k - 1 \in 0 .. Wrap
          BY <1>0, <1>1, SizeFacts
        <4>2. /\ Incr(nread, k) \in Counter
              /\ Incr(nread, k) = IF nread + k < Wrap THEN nread + k
                                  ELSE nread + k - Wrap
          BY <1>0, <1>1, IncrFacts
        <4>3. Incr(Incr(nread, k), i - 1)
                = IF Incr(nread, k) + (i - 1) < Wrap
                  THEN Incr(nread, k) + (i - 1)
                  ELSE Incr(nread, k) + (i - 1) - Wrap
          BY <4>1, <4>2, IncrFacts
        <4>4. Incr(nread, i + k - 1) = IF nread + (i + k - 1) < Wrap
                                       THEN nread + (i + k - 1)
                                       ELSE nread + (i + k - 1) - Wrap
          BY <1>0, <4>1, IncrFacts
        <4> HIDE DEF k
        <4> QED  BY <1>0, <1>1, <4>1, <4>2, <4>3, <4>4, SizeFacts DEF Counter
      <3> QED  BY <3>1, <3>2, <3>3, <3>4
    <2>3. Contents' = rest
      <3> HIDE DEF rest, k
      <3> QED  BY <1>2, <1>5, <2>1, <2>2, SeqEqual
    <2> QED  BY <2>3
  <1>8. readopen
    BY DEF ReadDone, IInv, Ends, Reading
  <1> QED  BY <1>1, <1>3, <1>6, <1>7, <1>8 DEF FIFO!Get, ReadDone

\* Refinement: every behaviour of the pipe, however its calls interleave and
\* its counters wrap, is one of a bounded FIFO queue.
THEOREM PipeIsFIFO == Spec => IsFIFO
  <1>1. Init => FIFO!FIFOInit
    <2> SUFFICES ASSUME Init PROVE FIFO!FIFOInit
      OBVIOUS
    <2>1. Used = 0
      BY SizeFacts, DistFacts DEF Init, Used, Dist, Counter
    <2>2. Contents = <<>>
      BY <2>1 DEF Contents
    <2> QED  BY <2>2 DEF Init, FIFO!FIFOInit
  <1>2. IInv /\ [Next]_vars => [FIFO!FIFONext]_(FIFO!fifoVars)
    <2> SUFFICES ASSUME IInv, [Next]_vars
                 PROVE  [FIFO!FIFONext]_(FIFO!fifoVars)
      OBVIOUS
    <2>0. TypeOK /\ Ends /\ todo \in [Proc -> Seq(Byte)]
      BY DEF IInv, TypeOK
    <2>1. ASSUME NEW p \in Proc, NEW bytes \in Writes, WriteCall(p, bytes)
          PROVE  FIFO!Begin(p)
      <3>1. writeopen /\ todo[p] = <<>>
        BY <2>0, <2>1 DEF WriteCall, Ends, Writing
      <3>2. todo'[p] \in Seq(Byte) /\ todo' = [todo EXCEPT ![p] = todo'[p]]
        BY <2>0, <2>1, WritesSeq DEF WriteCall
      <3>3. Contents' = Contents
        BY <2>1 DEF WriteCall, Contents, Used, Incr
      <3> QED  BY <2>1, <3>1, <3>2, <3>3 DEF WriteCall, FIFO!Begin
    <2>2. ASSUME NEW p \in Proc, WriteFail(p) PROVE FIFO!GiveUp(p)
      <3>1. Used = PIPESIZE
        BY <2>0, <2>2, DistTests DEF TypeOK, WriteFail, Full, Used, Dist
      <3>2. Len(Contents) = PIPESIZE
        BY <2>0, <3>1, ContentsType
      <3>3. Contents' = Contents
        BY <2>2 DEF WriteFail, Contents, Used, Incr
      <3> QED  BY <2>2, <3>2, <3>3 DEF WriteFail, FIFO!GiveUp
    <2>3. ASSUME NEW p \in Proc, CloseWrite(p) \/ CloseRead(p)
          PROVE  FIFO!CloseEnds
      <3>1. Contents' = Contents
        BY <2>3 DEF CloseWrite, CloseRead, Contents, Used, Incr
      <3>2. /\ readopen' \in BOOLEAN /\ writeopen' \in BOOLEAN
            /\ readopen' => readopen
            /\ writeopen' => writeopen
        <4>1. /\ readopen' = FALSE \/ readopen' = readopen
              /\ writeopen' = FALSE \/ writeopen' = writeopen
          BY <2>3 DEF CloseWrite, CloseRead
        <4>2. readopen' \in BOOLEAN /\ writeopen' \in BOOLEAN
          BY <2>0, TypeStep DEF TypeOK
        <4>3. readopen' => readopen
          BY <4>1, Zenon
        <4>4. writeopen' => writeopen
          BY <4>1, Zenon
        <4> QED  BY <4>2, <4>3, <4>4
      <3> QED  BY <2>3, <3>1, <3>2 DEF CloseWrite, CloseRead, FIFO!CloseEnds
    <2>4. ASSUME UNCHANGED <<data, nread, nwrite, todo, out, readopen, writeopen>>
          PROVE  UNCHANGED FIFO!fifoVars
      BY <2>4 DEF FIFO!fifoVars, Contents, Used, Incr
    <2>5. \/ \E p \in Proc, bytes \in Writes : WriteCall(p, bytes)
          \/ \E p \in Proc : WriteByte(p) \/ WriteFail(p) \/ ReadDone(p)
                              \/ CloseWrite(p) \/ CloseRead(p)
          \/ UNCHANGED <<data, nread, nwrite, todo, out, readopen, writeopen>>
      BY DEF Next, Kernel, vars, WriteLock, WriteFull, WriteSleep, WriteDone,
             ReadCall, ReadLock, ReadFail, ReadEmpty, ReadSleep, Kill
    <2> QED  BY <2>1, <2>2, <2>3, <2>4, <2>5, PutRefines, GetRefines
             DEF FIFO!FIFONext
  <1> QED  BY <1>1, <1>2, Invariance, PTL DEF Spec, IsFIFO, FIFO!FIFOSpec
=============================================================================
