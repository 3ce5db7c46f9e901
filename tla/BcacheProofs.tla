--------------------------- MODULE BcacheProofs ---------------------------
(***************************************************************************)
(* Proofs about Bcache, for any number of processes, buffers and blocks:   *)
(* references are counted, the driver's queue and its sleepers match, and  *)
(* the cache is a store in which every block has one value and one user.   *)
(***************************************************************************)
EXTENDS Bcache, FiniteSetTheorems, SequenceTheorems, TLAPS

(***************************************************************************)
(* The inductive invariant                                                 *)
(***************************************************************************)

\* Where a process has the sleep lock of its buffer.
Holding == {"rw", "io", "woken", "held"}

\* The processes that have b from bget.
Users(b) == {p \in Proc : mine[p] = b}

\* A process has a buffer exactly from bget to the end of brelse, and the
\* buffer is one of some block.
MineInv ==
    /\ \A p \in Proc : mine[p] = NoBuf <=> pc[p] = "idle"
    /\ \A p \in Proc : mine[p] # NoBuf => blockno[mine[p]] \in Block

\* References are counted.
RefInv == \A b \in Buf : refcnt[b] = Cardinality(Users(b))

\* The sleep lock of a buffer, seen from the buffer and from the process.
HoldInv ==
    /\ \A b \in Buf : holder[b] # NoProc
                        => mine[holder[b]] = b /\ pc[holder[b]] \in Holding
    /\ \A p \in Proc : pc[p] \in Holding => holder[mine[p]] = p
    /\ \A p \in Proc : pc[p] = "asleep" => holder[mine[p]] # NoProc

\* No block is cached twice.
DirInv ==
    \A b, c \in Buf : blockno[b] = blockno[c] /\ blockno[b] # NoBlock => b = c

\* The flags of a buffer: which contents it has, and what they say about the
\* one who has its lock.
FlagInv ==
    /\ \A b \in Buf : dirty[b] => valid[b]
    /\ \A b \in Buf : valid[b] => blockno[b] \in Block
    /\ \A b \in Buf : valid[b] /\ ~dirty[b] => data[b] = disk[blockno[b]]
    /\ \A p \in Proc :
          /\ pc[p] = "held" => valid[mine[p]]
          /\ pc[p] = "rw" => ~valid[mine[p]] \/ dirty[mine[p]]
          /\ pc[p] = "woken" => valid[mine[p]] /\ ~dirty[mine[p]]

\* The queue and those who sleep for it.
QueueInv ==
    /\ \A i, j \in 1 .. Len(idequeue) : idequeue[i] = idequeue[j] => i = j
    /\ \A i \in 1 .. Len(idequeue) :
          LET b == idequeue[i]
          IN  /\ ~valid[b] \/ dirty[b]
              /\ holder[b] # NoProc /\ pc[holder[b]] = "io"
    /\ \A p \in Proc : pc[p] = "io"
                         => \E i \in 1 .. Len(idequeue) : idequeue[i] = mine[p]

CacheInv ==
    /\ TypeOK /\ MineInv /\ RefInv /\ HoldInv /\ DirInv /\ FlagInv /\ QueueInv

(***************************************************************************)
(* Facts about the constants, the list and wakeup                          *)
(***************************************************************************)

\* What the assumptions on the constants give.
LEMMA BufFacts ==
    /\ NoBuf \notin Buf /\ NoProc \notin Proc /\ NoBlock \notin Block
    /\ Buf = 1 .. NBUF /\ NBUF \in Nat \ {0} /\ IsFiniteSet(Proc)
  BY BcacheAssumption DEF NoBuf, Buf

\* Moving a buffer to the front keeps all of them in the list.
LEMMA ToFrontType ==
    ASSUME lru \in [1 .. NBUF -> Buf], Range(lru) = Buf, NEW b \in Buf
    PROVE  ToFront(b) \in [1 .. NBUF -> Buf] /\ Range(ToFront(b)) = Buf
  <1> DEFINE at == CHOOSE i \in 1 .. NBUF : lru[i] = b
             f == ToFront(b)
  <1>a. NBUF \in Nat \ {0}
    BY BufFacts
  <1>1. \A c \in Buf : \E i \in 1 .. NBUF : lru[i] = c
    BY DEF Range
  <1>2. at \in 1 .. NBUF /\ lru[at] = b
    BY <1>1
  <1>3. f = [i \in 1 .. NBUF |-> IF i = 1 THEN b
                                ELSE IF i <= at THEN lru[i - 1] ELSE lru[i]]
    BY DEF ToFront
  <1> HIDE DEF at, f
  <1>4. f \in [1 .. NBUF -> Buf]
    BY <1>a, <1>2, <1>3
  <1>5. ASSUME NEW c \in Buf PROVE \E i \in 1 .. NBUF : f[i] = c
    <2>1. PICK j \in 1 .. NBUF : lru[j] = c
      BY <1>1
    <2>2. CASE j < at
      <3>1. j + 1 \in 1 .. NBUF /\ j + 1 # 1 /\ j + 1 <= at /\ (j + 1) - 1 = j
        BY <1>a, <1>2, <2>2
      <3>2. f[j + 1] = c
        BY <1>3, <2>1, <3>1
      <3> QED
        BY <3>1, <3>2
    <2>3. CASE j = at
      <3>1. f[1] = c /\ 1 \in 1 .. NBUF
        BY <1>a, <1>2, <1>3, <2>1, <2>3
      <3> QED
        BY <3>1
    <2>4. CASE j > at
      <3>1. j # 1 /\ ~(j <= at)
        BY <1>2, <2>4
      <3>2. f[j] = c
        BY <1>3, <2>1, <3>1
      <3> QED
        BY <3>2
    <2> QED
      BY <1>2, <2>2, <2>3, <2>4
  <1>6. Range(f) = Buf
    BY <1>4, <1>5 DEF Range
  <1> QED
    BY <1>4, <1>6 DEF f

(***************************************************************************)
(* The steps                                                               *)
(***************************************************************************)

\* The request at the head of the queue is one of the process that has the
\* buffer's lock and sleeps for it.
LEMMA HeadFacts ==
    ASSUME CacheInv, idequeue # <<>>
    PROVE  LET b == Head(idequeue)
           IN  /\ b \in Buf /\ b = idequeue[1] /\ 1 \in 1 .. Len(idequeue)
               /\ holder[b] \in Proc /\ mine[holder[b]] = b
               /\ pc[holder[b]] = "io" /\ blockno[b] \in Block
  <1> DEFINE b == Head(idequeue)
  <1>1. b \in Buf /\ b = idequeue[1] /\ 1 \in 1 .. Len(idequeue)
    BY DEF CacheInv, TypeOK
  <1>2. holder[b] # NoProc /\ pc[holder[b]] = "io"
    BY <1>1 DEF CacheInv, QueueInv
  <1>3. holder[b] \in Proc
    BY <1>1, <1>2 DEF CacheInv, TypeOK
  <1>4. mine[holder[b]] = b
    BY <1>1, <1>2 DEF CacheInv, HoldInv
  <1>5. blockno[b] \in Block
    BY <1>1, <1>3, <1>4, BufFacts DEF CacheInv, MineInv
  <1> QED
    BY <1>1, <1>2, <1>3, <1>4, <1>5

\* Every step keeps the types.
LEMMA TypeStep ==
    ASSUME CacheInv, [Next]_vars
    PROVE  TypeOK'
  <1>t. TypeOK /\ MineInv /\ RefInv
    BY DEF CacheInv
  <1>1. ASSUME NEW p \in Proc, NEW k \in Block, BgetHit(p, k) PROVE TypeOK'
    <2>1. PICK b \in Cached(k) : /\ refcnt' = [refcnt EXCEPT ![b] = @ + 1]
                                 /\ Enter(p, b)
      BY <1>1 DEF BgetHit
    <2>2. b \in Buf
      BY DEF Cached
    <2>3. refcnt' \in [Buf -> Nat]
      BY <1>t, <2>1, <2>2 DEF TypeOK
    <2>4. /\ mine' \in [Proc -> Buf \cup {NoBuf}]
          /\ pc' \in [Proc -> {"idle", "lock", "asleep", "rw", "io", "woken",
                               "held", "rel"}]
      BY <1>t, <2>1, <2>2 DEF TypeOK, Enter
    <2> QED
      BY <1>1, <1>t, <2>1, <2>3, <2>4 DEF TypeOK, BgetHit, Enter
  <1>2. ASSUME NEW p \in Proc, NEW k \in Block, BgetMiss(p, k) PROVE TypeOK'
    <2>1. PICK b \in Buf : /\ blockno' = [blockno EXCEPT ![b] = k]
                           /\ refcnt' = [refcnt EXCEPT ![b] = 1]
                           /\ valid' = [valid EXCEPT ![b] = FALSE]
                           /\ dirty' = [dirty EXCEPT ![b] = FALSE]
                           /\ Enter(p, b)
      BY <1>2, <1>t DEF BgetMiss, TypeOK
    <2>2. /\ blockno' \in [Buf -> Block \cup {NoBlock}]
          /\ refcnt' \in [Buf -> Nat]
      BY <1>t, <2>1 DEF TypeOK
    <2>3. valid' \in [Buf -> BOOLEAN] /\ dirty' \in [Buf -> BOOLEAN]
      BY <1>t, <2>1 DEF TypeOK
    <2>4. /\ mine' \in [Proc -> Buf \cup {NoBuf}]
          /\ pc' \in [Proc -> {"idle", "lock", "asleep", "rw", "io", "woken",
                               "held", "rel"}]
      BY <1>t, <2>1 DEF TypeOK, Enter
    <2> QED
      BY <1>t, <2>1, <2>2, <2>3, <2>4 DEF TypeOK, Enter
  <1>3. ASSUME NEW p \in Proc, NEW k \in Block, BgetPanic(p, k) PROVE TypeOK'
    <2>1. panicked' \in BOOLEAN
      BY <1>3 DEF BgetPanic
    <2> QED
      BY <1>3, <1>t, <2>1 DEF TypeOK, BgetPanic, fields
  <1>4. ASSUME NEW p \in Proc, AcquireWait(p) PROVE TypeOK'
    BY <1>4, <1>t DEF TypeOK, AcquireWait, fields
  <1>5. ASSUME NEW p \in Proc, Acquire(p) PROVE TypeOK'
    <2>1. holder' \in [Buf -> Proc \cup {NoProc}]
      BY <1>5, <1>t DEF TypeOK, Acquire
    <2>2. pc' = [pc EXCEPT ![p] = "held"] \/ pc' = [pc EXCEPT ![p] = "rw"]
      BY <1>5 DEF Acquire
    <2> QED
      BY <1>5, <1>t, <2>1, <2>2 DEF TypeOK, Acquire, fields
  <1>6. ASSUME NEW p \in Proc, NEW v \in Val, Bwrite(p, v) \/ LogWrite(p, v)
        PROVE  TypeOK'
    <2>1. data' \in [Buf -> Val]
      <3>1. data' = [data EXCEPT ![mine[p]] = v]
        BY <1>6 DEF Bwrite, LogWrite
      <3> QED
        BY <1>t, <3>1 DEF TypeOK
    <2>2. dirty' \in [Buf -> BOOLEAN]
      BY <1>6, <1>t DEF TypeOK, Bwrite, LogWrite
    <2>3. pc' \in [Proc -> {"idle", "lock", "asleep", "rw", "io", "woken",
                            "held", "rel"}]
      BY <1>6, <1>t DEF TypeOK, Bwrite, LogWrite
    <2> QED
      BY <1>6, <1>t, <2>1, <2>2, <2>3 DEF TypeOK, Bwrite, LogWrite
  <1>7. ASSUME NEW p \in Proc, ReleaseSleep(p) PROVE TypeOK'
    <2>1. /\ holder' \in [Buf -> Proc \cup {NoProc}]
          /\ pc' \in [Proc -> {"idle", "lock", "asleep", "rw", "io", "woken",
                               "held", "rel"}]
      BY <1>7, <1>t DEF TypeOK, ReleaseSleep, Wake
    <2> QED
      BY <1>7, <1>t, <2>1 DEF TypeOK, ReleaseSleep, fields
  <1>8. ASSUME NEW p \in Proc, Brelse(p) PROVE TypeOK'
    <2>1. mine[p] \in Buf
      BY <1>8, <1>t DEF Brelse, MineInv, TypeOK
    <2>2. refcnt[mine[p]] \in Nat /\ refcnt[mine[p]] # 0
      <3>1. p \in Users(mine[p]) /\ IsFiniteSet(Users(mine[p]))
        BY BufFacts, FS_Subset DEF Users
      <3> QED
        BY <1>t, <2>1, <3>1, FS_EmptySet DEF RefInv, TypeOK
    <2>3. refcnt' \in [Buf -> Nat]
      BY <1>8, <1>t, <2>1, <2>2 DEF Brelse, DropRef, TypeOK
    <2>4. lru' \in [1 .. NBUF -> Buf] /\ Range(lru') = Buf
      BY <1>8, <1>t, <2>1, ToFrontType DEF Brelse, TypeOK
    <2>5. /\ mine' \in [Proc -> Buf \cup {NoBuf}]
          /\ pc' \in [Proc -> {"idle", "lock", "asleep", "rw", "io", "woken",
                               "held", "rel"}]
      BY <1>8, <1>t DEF TypeOK, Brelse
    <2> QED
      BY <1>8, <1>t, <2>3, <2>4, <2>5 DEF TypeOK, Brelse
  <1>9. ASSUME NEW p \in Proc, Iderw(p) PROVE TypeOK'
    <2>1. mine[p] \in Buf
      BY <1>9, <1>t DEF Iderw, MineInv, TypeOK
    <2> QED
      BY <1>9, <1>t, <2>1 DEF TypeOK, Iderw, fields
  <1>10. ASSUME NEW p \in Proc, IderwEnd(p) PROVE TypeOK'
    BY <1>10, <1>t DEF TypeOK, IderwEnd, fields
  <1>11. CASE Ideintr
    <2> DEFINE b == Head(idequeue)
    <2>1. b \in Buf /\ idequeue' \in Seq(Buf) /\ blockno[b] \in Block
      BY <1>11, <1>t, HeadFacts DEF TypeOK, Ideintr
    <2>2. disk' \in [Block -> Val]
      BY <1>11, <1>t, <2>1 DEF TypeOK, Ideintr, Active
    <2>3. data' \in [Buf -> Val]
      BY <1>11, <1>t, <2>1 DEF TypeOK, Ideintr, Active
    <2>4. valid' \in [Buf -> BOOLEAN] /\ dirty' \in [Buf -> BOOLEAN]
      BY <1>11, <1>t, <2>1 DEF TypeOK, Ideintr, Active
    <2>5. pc' \in [Proc -> {"idle", "lock", "asleep", "rw", "io", "woken",
                            "held", "rel"}]
      BY <1>11, <1>t, <2>1 DEF TypeOK, Ideintr, Active, Wake
    <2> QED
      BY <1>11, <1>t, <2>1, <2>2, <2>3, <2>4, <2>5 DEF TypeOK, Ideintr
  <1>12. CASE UNCHANGED vars
    BY <1>12, <1>t DEF TypeOK, vars, fields
  <1> QED
    BY <1>1, <1>2, <1>3, <1>4, <1>5, <1>6, <1>7, <1>8, <1>9, <1>10, <1>11,
       <1>12
    DEF Next, Kernel

\* What bget does when it finds the block or recycles a buffer for it: the
\* buffer that it returns had no user, or is the one of the block.
LEMMA BgetFacts ==
    ASSUME CacheInv, NEW p \in Proc, NEW k \in Block,
           BgetHit(p, k) \/ BgetMiss(p, k)
    PROVE  \E b \in Buf :
              /\ pc[p] = "idle" /\ mine[p] = NoBuf
              /\ mine' = [mine EXCEPT ![p] = b]
              /\ pc' = [pc EXCEPT ![p] = "lock"]
              /\ UNCHANGED <<disk, data, lru, holder, idequeue, panicked>>
              /\ \/ /\ blockno[b] = k
                    /\ refcnt' = [refcnt EXCEPT ![b] = refcnt[b] + 1]
                    /\ UNCHANGED <<blockno, valid, dirty>>
                 \/ /\ \A c \in Buf : blockno[c] # k
                    /\ refcnt[b] = 0 /\ ~dirty[b]
                    /\ \A q \in Proc : mine[q] # b
                    /\ holder[b] = NoProc
                    /\ blockno' = [blockno EXCEPT ![b] = k]
                    /\ refcnt' = [refcnt EXCEPT ![b] = 1]
                    /\ valid' = [valid EXCEPT ![b] = FALSE]
                    /\ dirty' = [dirty EXCEPT ![b] = FALSE]
  <1>1. pc[p] = "idle" /\ mine[p] = NoBuf
    BY DEF BgetHit, BgetMiss, Calls, CacheInv, MineInv
  <1>2. CASE BgetHit(p, k)
    <2>1. PICK b \in Cached(k) : /\ refcnt' = [refcnt EXCEPT ![b] = @ + 1]
                                 /\ Enter(p, b)
      BY <1>2 DEF BgetHit
    <2>2. b \in Buf /\ blockno[b] = k
      BY DEF Cached
    <2> QED
      BY <1>1, <1>2, <2>1, <2>2 DEF BgetHit, Enter
  <1>3. CASE BgetMiss(p, k)
    <2>1. PICK b \in Buf : /\ Unused(b)
                           /\ blockno' = [blockno EXCEPT ![b] = k]
                           /\ refcnt' = [refcnt EXCEPT ![b] = 1]
                           /\ valid' = [valid EXCEPT ![b] = FALSE]
                           /\ dirty' = [dirty EXCEPT ![b] = FALSE]
                           /\ Enter(p, b)
      BY <1>3 DEF BgetMiss, CacheInv, TypeOK
    <2>2. \A c \in Buf : blockno[c] # k
      BY <1>3 DEF BgetMiss, Cached
    <2>3. refcnt[b] = 0 /\ ~dirty[b]
      BY <2>1 DEF Unused
    <2>4. \A q \in Proc : mine[q] # b
      <3>1. IsFiniteSet(Users(b))
        BY BufFacts, FS_Subset DEF Users
      <3>2. Users(b) = {}
        BY <2>3, <3>1, FS_EmptySet DEF CacheInv, RefInv
      <3> QED
        BY <3>2 DEF Users
    <2>5. holder[b] = NoProc
      BY <2>4 DEF CacheInv, HoldInv, TypeOK
    <2> QED
      BY <1>1, <2>1, <2>2, <2>3, <2>4, <2>5 DEF Enter
  <1> QED
    BY <1>2, <1>3

\* A process keeps its buffer, and the buffer its block, until brelse.
LEMMA MineStep ==
    ASSUME CacheInv, [Next]_vars
    PROVE  MineInv'
  <1>t. TypeOK /\ MineInv
    BY DEF CacheInv
  <1>a. /\ pc \in [Proc -> {"idle", "lock", "asleep", "rw", "io", "woken",
                            "held", "rel"}]
        /\ mine \in [Proc -> Buf \cup {NoBuf}]
        /\ blockno \in [Buf -> Block \cup {NoBlock}]
    BY <1>t DEF TypeOK
  <1>1. ASSUME UNCHANGED <<mine, blockno>>,
               \A p \in Proc : pc'[p] = "idle" <=> pc[p] = "idle"
        PROVE  MineInv'
    BY <1>1, <1>t DEF MineInv
  <1>2. ASSUME NEW p \in Proc, NEW k \in Block, BgetHit(p, k) \/ BgetMiss(p, k)
        PROVE  MineInv'
    <2>1. PICK b \in Buf :
             /\ mine[p] = NoBuf
             /\ mine' = [mine EXCEPT ![p] = b]
             /\ pc' = [pc EXCEPT ![p] = "lock"]
             /\ \/ blockno[b] = k /\ blockno' = blockno
                \/ /\ \A q \in Proc : mine[q] # b
                   /\ blockno' = [blockno EXCEPT ![b] = k]
      BY <1>2, BgetFacts
    <2>2. b # NoBuf
      BY BufFacts
    <2>3. ASSUME NEW q \in Proc PROVE mine'[q] = NoBuf <=> pc'[q] = "idle"
      BY <1>a, <1>t, <2>1, <2>2 DEF MineInv
    <2>4. ASSUME NEW q \in Proc, mine'[q] # NoBuf
          PROVE  blockno'[mine'[q]] \in Block
      <3>1. CASE q = p
        BY <1>a, <2>1, <3>1
      <3>2. CASE q # p
        BY <1>a, <1>t, <2>1, <2>4, <3>2 DEF MineInv
      <3> QED
        BY <3>1, <3>2
    <2> QED
      BY <2>3, <2>4 DEF MineInv
  <1>3. ASSUME NEW p \in Proc, NEW k \in Block, BgetPanic(p, k) PROVE MineInv'
    BY <1>1, <1>3 DEF BgetPanic, fields
  <1>4. ASSUME NEW p \in Proc, Kernel(p) PROVE MineInv'
    BY <1>1, <1>4, <1>a
    DEF Kernel, AcquireWait, Acquire, Iderw, IderwEnd, fields
  <1>5. ASSUME NEW p \in Proc, NEW v \in Val, Bwrite(p, v) \/ LogWrite(p, v)
        PROVE  MineInv'
    BY <1>1, <1>5, <1>a DEF Bwrite, LogWrite
  <1>6. ASSUME NEW p \in Proc, ReleaseSleep(p) PROVE MineInv'
    BY <1>1, <1>6, <1>a DEF ReleaseSleep, Wake, fields
  <1>7. ASSUME NEW p \in Proc, Brelse(p) PROVE MineInv'
    BY <1>7, <1>a, <1>t DEF Brelse, MineInv
  <1>8. CASE Ideintr
    BY <1>1, <1>8, <1>a DEF Ideintr, Wake
  <1>9. CASE UNCHANGED vars
    BY <1>1, <1>9 DEF vars, fields
  <1> QED
    BY <1>2, <1>3, <1>4, <1>5, <1>6, <1>7, <1>8, <1>9 DEF Next

\* bget adds a reference with its user and brelse takes both away.
LEMMA RefStep ==
    ASSUME CacheInv, [Next]_vars
    PROVE  RefInv'
  <1>t. TypeOK /\ RefInv
    BY DEF CacheInv
  <1>a. /\ mine \in [Proc -> Buf \cup {NoBuf}] /\ refcnt \in [Buf -> Nat]
        /\ NoBuf \notin Buf
    BY <1>t, BufFacts DEF TypeOK
  <1>b. \A b \in Buf : IsFiniteSet(Users(b))
    BY BufFacts, FS_Subset DEF Users
  <1>1. ASSUME UNCHANGED <<mine, refcnt>> PROVE RefInv'
    BY <1>1, <1>t DEF RefInv, Users
  <1>2. ASSUME NEW p \in Proc, NEW k \in Block, BgetHit(p, k) \/ BgetMiss(p, k)
        PROVE  RefInv'
    <2>1. PICK b \in Buf :
             /\ mine[p] = NoBuf
             /\ mine' = [mine EXCEPT ![p] = b]
             /\ refcnt' = [refcnt EXCEPT ![b] = refcnt[b] + 1]
      BY <1>2, <1>a, BgetFacts
    <2>2. Users(b)' = Users(b) \cup {p} /\ p \notin Users(b)
      BY <1>a, <2>1 DEF Users
    <2>3. Cardinality(Users(b)') = refcnt[b] + 1
      BY <1>b, <1>t, <2>2, FS_AddElement DEF RefInv
    <2>4. ASSUME NEW c \in Buf, c # b PROVE Users(c)' = Users(c)
      BY <1>a, <2>1, <2>4 DEF Users
    <2> QED
      BY <1>a, <1>t, <2>1, <2>3, <2>4 DEF RefInv
  <1>3. ASSUME NEW p \in Proc, Brelse(p) PROVE RefInv'
    <2>1. PICK b \in Buf : mine[p] = b
      BY <1>3, <1>a DEF CacheInv, MineInv, Brelse
    <2>2. /\ mine' = [mine EXCEPT ![p] = NoBuf]
          /\ refcnt' = [refcnt EXCEPT ![b] = refcnt[b] - 1]
      BY <1>3, <2>1 DEF Brelse, DropRef
    <2>3. Users(b)' = Users(b) \ {p} /\ p \in Users(b)
      BY <1>a, <2>1, <2>2 DEF Users
    <2>4. Cardinality(Users(b)') = refcnt[b] - 1
      BY <1>b, <1>t, <2>1, <2>3, FS_RemoveElement DEF RefInv
    <2>5. ASSUME NEW c \in Buf, c # b PROVE Users(c)' = Users(c)
      BY <1>a, <2>1, <2>2, <2>5 DEF Users
    <2> QED
      BY <1>a, <1>t, <2>1, <2>2, <2>4, <2>5 DEF RefInv
  <1>4. CASE ~\E p \in Proc : \/ Brelse(p)
                             \/ \E k \in Block : BgetHit(p, k) \/ BgetMiss(p, k)
    BY <1>1, <1>4
    DEF Next, Kernel, AcquireWait, Acquire, Iderw, IderwEnd, Bwrite, LogWrite,
        ReleaseSleep, Ideintr, BgetPanic, vars, fields
  <1> QED
    BY <1>2, <1>3, <1>4

\* The sleep lock of a buffer has one holder, which has the buffer, and who
\* sleeps for the lock sleeps while it is held.
LEMMA HoldStep ==
    ASSUME CacheInv, [Next]_vars
    PROVE  HoldInv'
  <1>t. TypeOK /\ MineInv /\ HoldInv
    BY DEF CacheInv
  <1>a. /\ pc \in [Proc -> {"idle", "lock", "asleep", "rw", "io", "woken",
                            "held", "rel"}]
        /\ mine \in [Proc -> Buf \cup {NoBuf}]
        /\ holder \in [Buf -> Proc \cup {NoProc}]
        /\ NoBuf \notin Buf /\ NoProc \notin Proc
    BY <1>t, BufFacts DEF TypeOK
  <1>1. ASSUME UNCHANGED <<mine, holder>>,
               \A p \in Proc : /\ pc'[p] \in Holding <=> pc[p] \in Holding
                               /\ pc'[p] = "asleep" => pc[p] = "asleep"
        PROVE  HoldInv'
    BY <1>1, <1>a, <1>t DEF HoldInv
  <1>2. ASSUME NEW p \in Proc, NEW k \in Block, BgetHit(p, k) \/ BgetMiss(p, k)
        PROVE  HoldInv'
    <2>1. PICK b \in Buf :
             /\ mine[p] = NoBuf /\ pc[p] = "idle" /\ holder' = holder
             /\ mine' = [mine EXCEPT ![p] = b]
             /\ pc' = [pc EXCEPT ![p] = "lock"]
      BY <1>2, BgetFacts
    <2> QED
      BY <1>a, <1>t, <2>1 DEF HoldInv, Holding
  <1>3. ASSUME NEW p \in Proc, AcquireWait(p) PROVE HoldInv'
    BY <1>3, <1>a, <1>t DEF AcquireWait, HoldInv, Holding, LockFree
  <1>4. ASSUME NEW p \in Proc, Acquire(p) PROVE HoldInv'
    <2>1. PICK b \in Buf : mine[p] = b
      BY <1>4, <1>a, <1>t DEF Acquire, MineInv
    <2>2. /\ holder[b] = NoProc /\ holder' = [holder EXCEPT ![b] = p]
          /\ mine' = mine /\ pc[p] = "lock"
          /\ \A q \in Proc : q # p => pc'[q] = pc[q]
          /\ pc'[p] \in {"held", "rw"}
      BY <1>4, <1>a, <2>1 DEF Acquire, LockFree
    <2>3. ASSUME NEW c \in Buf, holder'[c] # NoProc
          PROVE  mine'[holder'[c]] = c /\ pc'[holder'[c]] \in Holding
      BY <1>a, <1>t, <2>1, <2>2, <2>3 DEF HoldInv, Holding
    <2>4. ASSUME NEW q \in Proc, pc'[q] \in Holding PROVE holder'[mine'[q]] = q
      BY <1>a, <1>t, <2>1, <2>2, <2>4 DEF HoldInv, Holding, MineInv
    <2>5. ASSUME NEW q \in Proc, pc'[q] = "asleep"
          PROVE  holder'[mine'[q]] # NoProc
      BY <1>a, <1>t, <2>1, <2>2, <2>5 DEF HoldInv, MineInv
    <2> QED
      BY <2>3, <2>4, <2>5 DEF HoldInv
  <1>5. ASSUME NEW p \in Proc, Iderw(p) \/ IderwEnd(p) PROVE HoldInv'
    BY <1>1, <1>5, <1>a DEF Iderw, IderwEnd, Holding
  <1>6. ASSUME NEW p \in Proc, NEW v \in Val, Bwrite(p, v) \/ LogWrite(p, v)
        PROVE  HoldInv'
    BY <1>1, <1>6, <1>a DEF Bwrite, LogWrite, Holding
  <1>7. ASSUME NEW p \in Proc, ReleaseSleep(p) PROVE HoldInv'
    <2>1. PICK b \in Buf : mine[p] = b /\ holder[b] = p
      BY <1>7, <1>a, <1>t DEF ReleaseSleep, MineInv, HoldInv, Holding
    <2>2. /\ holder' = [holder EXCEPT ![b] = NoProc] /\ mine' = mine
          /\ pc'[p] = "rel"
          /\ \A q \in Proc : q # p =>
                pc'[q] = IF pc[q] = "asleep" /\ mine[q] = b THEN "lock"
                         ELSE pc[q]
      BY <1>7, <1>a, <2>1 DEF ReleaseSleep, Wake
    <2>3. ASSUME NEW c \in Buf, holder'[c] # NoProc
          PROVE  mine'[holder'[c]] = c /\ pc'[holder'[c]] \in Holding
      BY <1>a, <1>t, <2>1, <2>2, <2>3 DEF HoldInv, Holding
    <2>4. ASSUME NEW q \in Proc, pc'[q] \in Holding PROVE holder'[mine'[q]] = q
      BY <1>a, <1>t, <2>1, <2>2, <2>4 DEF HoldInv, Holding, MineInv
    <2>5. ASSUME NEW q \in Proc, pc'[q] = "asleep"
          PROVE  holder'[mine'[q]] # NoProc
      BY <1>a, <1>t, <2>1, <2>2, <2>5 DEF HoldInv, MineInv
    <2> QED
      BY <2>3, <2>4, <2>5 DEF HoldInv
  <1>8. ASSUME NEW p \in Proc, Brelse(p) PROVE HoldInv'
    BY <1>8, <1>a, <1>t DEF Brelse, HoldInv, Holding, MineInv
  <1>9. CASE Ideintr
    BY <1>1, <1>9, <1>a DEF Ideintr, Wake, Holding
  <1>10. CASE UNCHANGED vars \/ \E p \in Proc, k \in Block : BgetPanic(p, k)
    BY <1>1, <1>10 DEF vars, BgetPanic
  <1> QED
    BY <1>2, <1>3, <1>4, <1>5, <1>6, <1>7, <1>8, <1>9, <1>10 DEF Next, Kernel

\* bget enters a block only when it has not found it.
LEMMA DirStep ==
    ASSUME CacheInv, [Next]_vars
    PROVE  DirInv'
  <1>t. TypeOK /\ DirInv
    BY DEF CacheInv
  <1>1. ASSUME blockno' = blockno PROVE DirInv'
    BY <1>1, <1>t DEF DirInv
  <1>2. ASSUME NEW p \in Proc, NEW k \in Block, BgetMiss(p, k)
        PROVE  DirInv'
    <2>1. PICK b \in Buf :
             \/ blockno' = blockno
             \/ /\ \A c \in Buf : blockno[c] # k
                /\ blockno' = [blockno EXCEPT ![b] = k]
      BY <1>2, BgetFacts
    <2>2. CASE blockno' = blockno
      BY <1>1, <2>2
    <2>3. CASE /\ \A c \in Buf : blockno[c] # k
               /\ blockno' = [blockno EXCEPT ![b] = k]
      BY <1>t, <2>3 DEF DirInv, TypeOK
    <2> QED
      BY <2>1, <2>2, <2>3
  <1>3. CASE ~\E p \in Proc, k \in Block : BgetMiss(p, k)
    BY <1>1, <1>3
    DEF Next, Kernel, AcquireWait, Acquire, Iderw, IderwEnd, Bwrite, LogWrite,
        ReleaseSleep, Brelse, Ideintr, BgetHit, BgetPanic, vars, fields
  <1> QED
    BY <1>2, <1>3

\* The flags tell where the contents are: a clean buffer has those of the
\* disk, and only the one who has its lock finds it otherwise.
LEMMA FlagStep ==
    ASSUME CacheInv, [Next]_vars
    PROVE  FlagInv'
  <1>t. TypeOK /\ MineInv /\ HoldInv /\ DirInv /\ FlagInv /\ QueueInv
    BY DEF CacheInv
  <1>a. /\ pc \in [Proc -> {"idle", "lock", "asleep", "rw", "io", "woken",
                            "held", "rel"}]
        /\ mine \in [Proc -> Buf \cup {NoBuf}]
        /\ holder \in [Buf -> Proc \cup {NoProc}]
        /\ NoBuf \notin Buf /\ NoProc \notin Proc
        /\ disk \in [Block -> Val] /\ data \in [Buf -> Val]
        /\ blockno \in [Buf -> Block \cup {NoBlock}] /\ NoBlock \notin Block
    BY <1>t, BufFacts DEF TypeOK
  <1>b. valid \in [Buf -> BOOLEAN] /\ dirty \in [Buf -> BOOLEAN]
    BY <1>t DEF TypeOK
  <1>1. ASSUME UNCHANGED <<mine, blockno, valid, dirty, data, disk>>,
               \A p \in Proc : pc'[p] \in {"held", "rw", "woken"}
                                 => pc'[p] = pc[p]
        PROVE  FlagInv'
    BY <1>1, <1>t DEF FlagInv
  <1>2. ASSUME NEW p \in Proc, NEW k \in Block, BgetHit(p, k)
        PROVE  FlagInv'
    <2>1. UNCHANGED <<blockno, valid, dirty, data, disk>>
      BY <1>2 DEF BgetHit, Enter
    <2>2. PICK b \in Buf :
             /\ mine' = [mine EXCEPT ![p] = b]
             /\ pc' = [pc EXCEPT ![p] = "lock"]
      BY <1>2, BgetFacts
    <2>3. \A q \in Proc : pc'[q] \in {"held", "rw", "woken"}
                             => pc'[q] = pc[q] /\ mine'[q] = mine[q]
      BY <1>a, <2>2
    <2> QED
      BY <1>t, <2>1, <2>3 DEF FlagInv
  <1>3. ASSUME NEW p \in Proc, NEW k \in Block, BgetMiss(p, k)
        PROVE  FlagInv'
    <2>0. \A c \in Buf : blockno[c] # k
      BY <1>3 DEF BgetMiss, Cached
    <2>1. PICK b \in Buf :
             /\ mine' = [mine EXCEPT ![p] = b]
             /\ pc' = [pc EXCEPT ![p] = "lock"]
             /\ UNCHANGED <<disk, data>>
             /\ \A q \in Proc : mine[q] # b
             /\ blockno' = [blockno EXCEPT ![b] = k]
             /\ valid' = [valid EXCEPT ![b] = FALSE]
             /\ dirty' = [dirty EXCEPT ![b] = FALSE]
      BY <1>3, <2>0, BgetFacts
    <2>2. /\ ~valid'[b] /\ ~dirty'[b]
          /\ \A c \in Buf : c # b => /\ valid'[c] = valid[c]
                                     /\ dirty'[c] = dirty[c]
                                     /\ blockno'[c] = blockno[c]
      BY <1>a, <1>b, <2>1
    <2>3. \A q \in Proc : pc'[q] \in {"held", "rw", "woken"}
                             => /\ pc'[q] = pc[q] /\ mine'[q] = mine[q]
                                /\ mine[q] \in Buf /\ mine[q] # b
      BY <1>a, <1>t, <2>1 DEF MineInv
    <2> QED
      BY <1>t, <2>1, <2>2, <2>3 DEF FlagInv
  <1>4. ASSUME NEW p \in Proc, Acquire(p) PROVE FlagInv'
    <2>1. PICK b \in Buf : mine[p] = b
      BY <1>4, <1>a, <1>t DEF Acquire, MineInv
    <2>2. /\ \A q \in Proc : q # p => pc'[q] = pc[q]
          /\ valid[b] => pc'[p] = "held"
          /\ ~valid[b] => pc'[p] = "rw"
          /\ UNCHANGED <<mine, blockno, valid, dirty, data, disk>>
      BY <1>4, <1>a, <2>1 DEF Acquire, fields
    <2> QED
      BY <1>t, <2>1, <2>2 DEF FlagInv
  <1>5. ASSUME NEW p \in Proc, AcquireWait(p) \/ Iderw(p) PROVE FlagInv'
    BY <1>1, <1>5, <1>a DEF AcquireWait, Iderw, fields
  <1>6. ASSUME NEW p \in Proc, IderwEnd(p) PROVE FlagInv'
    <2>1. valid[mine[p]] /\ ~dirty[mine[p]]
      BY <1>6, <1>t DEF IderwEnd, FlagInv
    <2>2. /\ pc' = [pc EXCEPT ![p] = "held"]
          /\ UNCHANGED <<mine, blockno, valid, dirty, data, disk>>
      BY <1>6, <2>1 DEF IderwEnd, fields
    <2>3. \A q \in Proc : pc'[q] = IF q = p THEN "held" ELSE pc[q]
      BY <1>a, <2>2
    <2> QED
      BY <1>t, <2>1, <2>2, <2>3 DEF FlagInv
  <1>7. ASSUME NEW p \in Proc, NEW v \in Val, Bwrite(p, v) \/ LogWrite(p, v)
        PROVE  FlagInv'
    <2>1. PICK b \in Buf : mine[p] = b /\ holder[b] = p
      BY <1>7, <1>a, <1>t DEF Bwrite, LogWrite, MineInv, HoldInv, Holding
    <2>2. valid[b]
      BY <1>7, <1>t, <2>1 DEF Bwrite, LogWrite, FlagInv
    <2>3. /\ data' = [data EXCEPT ![b] = v]
          /\ dirty' = [dirty EXCEPT ![b] = TRUE]
          /\ UNCHANGED <<mine, blockno, valid, disk>>
          /\ pc'[p] \in {"rw", "held"}
          /\ \A q \in Proc : q # p => pc'[q] = pc[q]
      BY <1>7, <1>a, <2>1 DEF Bwrite, LogWrite
    <2>4. /\ dirty'[b]
          /\ \A c \in Buf : c # b => dirty'[c] = dirty[c] /\ data'[c] = data[c]
      BY <1>a, <1>b, <2>3
    <2>5. \A q \in Proc : q # p /\ pc[q] \in {"held", "rw", "woken"}
                             => mine[q] \in Buf /\ mine[q] # b
      BY <1>a, <1>t, <2>1 DEF HoldInv, Holding, MineInv
    <2> QED
      BY <1>t, <2>1, <2>2, <2>3, <2>4, <2>5 DEF FlagInv
  <1>8. ASSUME NEW p \in Proc, ReleaseSleep(p) PROVE FlagInv'
    BY <1>1, <1>8, <1>a DEF ReleaseSleep, Wake, fields
  <1>9. ASSUME NEW p \in Proc, Brelse(p) PROVE FlagInv'
    <2>1. /\ UNCHANGED <<blockno, valid, dirty, data, disk>>
          /\ \A q \in Proc : pc'[q] \in {"held", "rw", "woken"}
                             => pc'[q] = pc[q] /\ mine'[q] = mine[q]
      BY <1>9, <1>a DEF Brelse
    <2> QED
      BY <1>t, <2>1 DEF FlagInv
  <1>10. CASE Ideintr
    <2>1. PICK b \in Buf :
             /\ b = Head(idequeue) /\ blockno[b] \in Block
             /\ holder[b] \in Proc /\ mine[holder[b]] = b
             /\ pc[holder[b]] = "io"
      BY <1>10, HeadFacts DEF Ideintr
    <2>2. /\ \A c \in Buf : c # b => /\ valid'[c] = valid[c]
                                     /\ dirty'[c] = dirty[c]
                                     /\ data'[c] = data[c]
          /\ valid'[b] /\ ~dirty'[b]
          /\ UNCHANGED <<mine, blockno>>
      BY <1>10, <1>a, <1>b, <2>1 DEF Ideintr, Active
    <2>3. /\ data'[b] = disk'[blockno[b]]
          /\ \A k \in Block : k # blockno[b] => disk'[k] = disk[k]
      BY <1>10, <1>a, <1>b, <2>1 DEF Ideintr, Active
    <2>4. \A q \in Proc : pc'[q] = IF pc[q] = "io" /\ mine[q] = b THEN "woken"
                                    ELSE pc[q]
      BY <1>10, <2>1 DEF Ideintr, Active, Wake
    <2>5. \A q \in Proc : pc[q] \in {"held", "rw", "woken"}
                             => mine[q] \in Buf /\ mine[q] # b
      BY <1>a, <1>t, <2>1 DEF HoldInv, Holding, MineInv
    <2>6. ASSUME NEW c \in Buf, valid'[c], ~dirty'[c]
          PROVE  data'[c] = disk'[blockno'[c]]
      <3>1. CASE c = b
        BY <2>2, <2>3, <3>1
      <3>2. CASE c # b
        <4>1. blockno[c] \in Block /\ data[c] = disk[blockno[c]]
          BY <1>t, <2>2, <2>6, <3>2 DEF FlagInv
        <4>2. blockno[c] # blockno[b]
          BY <1>a, <1>t, <2>1, <3>2, <4>1 DEF DirInv
        <4> QED
          BY <2>2, <2>3, <3>2, <4>1, <4>2
      <3> QED
        BY <3>1, <3>2
    <2>7. /\ \A c \in Buf : dirty'[c] => valid'[c]
          /\ \A c \in Buf : valid'[c] => blockno'[c] \in Block
      BY <1>t, <2>1, <2>2 DEF FlagInv
    <2>8. ASSUME NEW q \in Proc
          PROVE  /\ pc'[q] = "held" => valid'[mine'[q]]
                 /\ pc'[q] = "rw" => ~valid'[mine'[q]] \/ dirty'[mine'[q]]
                 /\ pc'[q] = "woken" => valid'[mine'[q]] /\ ~dirty'[mine'[q]]
      BY <1>t, <2>2, <2>4, <2>5 DEF FlagInv
    <2> QED
      BY <2>6, <2>7, <2>8 DEF FlagInv
  <1>11. CASE UNCHANGED vars \/ \E p \in Proc, k \in Block : BgetPanic(p, k)
    BY <1>1, <1>11 DEF vars, BgetPanic, fields
  <1> QED
    BY <1>2, <1>3, <1>4, <1>5, <1>6, <1>7, <1>8, <1>9, <1>10, <1>11
    DEF Next, Kernel

\* A request is in the queue exactly while its process sleeps for it.
LEMMA QueueStep ==
    ASSUME CacheInv, [Next]_vars
    PROVE  QueueInv'
  <1>t. TypeOK /\ MineInv /\ HoldInv /\ FlagInv /\ QueueInv
    BY DEF CacheInv
  <1>a. /\ pc \in [Proc -> {"idle", "lock", "asleep", "rw", "io", "woken",
                            "held", "rel"}]
        /\ mine \in [Proc -> Buf \cup {NoBuf}]
        /\ holder \in [Buf -> Proc \cup {NoProc}]
        /\ NoBuf \notin Buf /\ NoProc \notin Proc
        /\ idequeue \in Seq(Buf)
    BY <1>t, BufFacts DEF TypeOK
  <1>b. valid \in [Buf -> BOOLEAN] /\ dirty \in [Buf -> BOOLEAN]
    BY <1>t DEF TypeOK
  <1>c. \A i \in 1 .. Len(idequeue) :
           /\ idequeue[i] \in Buf /\ holder[idequeue[i]] \in Proc
           /\ mine[holder[idequeue[i]]] = idequeue[i]
           /\ pc[holder[idequeue[i]]] = "io"
           /\ ~valid[idequeue[i]] \/ dirty[idequeue[i]]
    <2>1. ASSUME NEW i \in 1 .. Len(idequeue)
          PROVE  /\ idequeue[i] \in Buf /\ holder[idequeue[i]] \in Proc
                 /\ mine[holder[idequeue[i]]] = idequeue[i]
                 /\ pc[holder[idequeue[i]]] = "io"
      <3>1. idequeue[i] \in Buf
        BY <1>a, ElementOfSeq
      <3>2. holder[idequeue[i]] # NoProc /\ pc[holder[idequeue[i]]] = "io"
        BY <1>t DEF QueueInv
      <3>3. holder[idequeue[i]] \in Proc
        BY <1>a, <3>1, <3>2
      <3>4. mine[holder[idequeue[i]]] = idequeue[i]
        BY <1>t, <3>1, <3>2 DEF HoldInv
      <3> QED
        BY <3>1, <3>2, <3>3, <3>4
    <2> QED
      BY <1>t, <2>1 DEF QueueInv
  \* A step of a process that does not wait for the disk, on its own buffer
  \* or on one that nobody has.
  <1>1. ASSUME idequeue' = idequeue,
               \A i \in 1 .. Len(idequeue) :
                  LET b == idequeue[i]
                  IN  /\ valid'[b] = valid[b] /\ dirty'[b] = dirty[b]
                      /\ holder'[b] = holder[b],
               \A q \in Proc : pc[q] = "io" => pc'[q] = "io",
               \A q \in Proc : pc'[q] = "io" => pc[q] = "io" /\ mine'[q] = mine[q]
        PROVE  QueueInv'
    <2>1. \A i, j \in 1 .. Len(idequeue') : idequeue'[i] = idequeue'[j] => i = j
      BY <1>1, <1>t DEF QueueInv
    <2>2. ASSUME NEW i \in 1 .. Len(idequeue')
          PROVE  /\ ~valid'[idequeue'[i]] \/ dirty'[idequeue'[i]]
                 /\ holder'[idequeue'[i]] # NoProc
                 /\ pc'[holder'[idequeue'[i]]] = "io"
      BY <1>1, <1>a, <1>c
    <2>3. \A q \in Proc : pc'[q] = "io"
             => \E i \in 1 .. Len(idequeue') : idequeue'[i] = mine'[q]
      BY <1>1, <1>t DEF QueueInv
    <2> QED
      BY <2>1, <2>2, <2>3 DEF QueueInv
  <1>2. ASSUME NEW p \in Proc, NEW k \in Block, BgetHit(p, k) \/ BgetMiss(p, k)
        PROVE  QueueInv'
    <2>1. PICK b \in Buf :
             /\ pc[p] = "idle" /\ holder' = holder /\ idequeue' = idequeue
             /\ mine' = [mine EXCEPT ![p] = b]
             /\ pc' = [pc EXCEPT ![p] = "lock"]
             /\ \/ UNCHANGED <<valid, dirty>>
                \/ /\ holder[b] = NoProc
                   /\ valid' = [valid EXCEPT ![b] = FALSE]
                   /\ dirty' = [dirty EXCEPT ![b] = FALSE]
      BY <1>2, BgetFacts
    <2>2. /\ \A q \in Proc : pc[q] = "io" => pc'[q] = "io"
          /\ \A q \in Proc : pc'[q] = "io" => pc[q] = "io" /\ mine'[q] = mine[q]
      BY <1>a, <2>1
    <2>3. \A i \in 1 .. Len(idequeue) :
             /\ valid'[idequeue[i]] = valid[idequeue[i]]
             /\ dirty'[idequeue[i]] = dirty[idequeue[i]]
      BY <1>a, <1>b, <1>c, <2>1
    <2> QED
      BY <1>1, <2>1, <2>2, <2>3
  <1>3. ASSUME NEW p \in Proc, AcquireWait(p)
        PROVE  QueueInv'
    BY <1>1, <1>3, <1>a DEF AcquireWait, fields
  <1>4. ASSUME NEW p \in Proc, Acquire(p) PROVE QueueInv'
    <2>1. /\ \A q \in Proc : pc[q] = "io" => pc'[q] = "io"
          /\ \A q \in Proc : pc'[q] = "io" => pc[q] = "io" /\ mine'[q] = mine[q]
          /\ UNCHANGED <<idequeue, valid, dirty>>
      BY <1>4, <1>a DEF Acquire, fields
    <2>2. \A i \in 1 .. Len(idequeue) : holder'[idequeue[i]] = holder[idequeue[i]]
      BY <1>4, <1>a, <1>c DEF Acquire, LockFree
    <2> QED
      BY <1>1, <2>1, <2>2
  <1>5. ASSUME NEW p \in Proc, NEW v \in Val, Bwrite(p, v) \/ LogWrite(p, v)
        PROVE  QueueInv'
    <2>1. PICK b \in Buf : mine[p] = b /\ holder[b] = p /\ pc[p] = "held"
      BY <1>5, <1>a, <1>t DEF Bwrite, LogWrite, MineInv, HoldInv, Holding
    <2>2. /\ \A q \in Proc : pc[q] = "io" => pc'[q] = "io"
          /\ \A q \in Proc : pc'[q] = "io" => pc[q] = "io" /\ mine'[q] = mine[q]
          /\ UNCHANGED <<idequeue, valid, holder>>
          /\ dirty' = [dirty EXCEPT ![b] = TRUE]
      BY <1>5, <1>a, <2>1 DEF Bwrite, LogWrite
    <2>3. \A i \in 1 .. Len(idequeue) : dirty'[idequeue[i]] = dirty[idequeue[i]]
      BY <1>b, <1>c, <2>1, <2>2
    <2> QED
      BY <1>1, <2>2, <2>3
  <1>6. ASSUME NEW p \in Proc, ReleaseSleep(p) PROVE QueueInv'
    <2>1. PICK b \in Buf : mine[p] = b /\ holder[b] = p /\ pc[p] = "held"
      BY <1>6, <1>a, <1>t DEF ReleaseSleep, MineInv, HoldInv, Holding
    <2>2. /\ \A q \in Proc : pc[q] = "io" => pc'[q] = "io"
          /\ \A q \in Proc : pc'[q] = "io" => pc[q] = "io" /\ mine'[q] = mine[q]
          /\ UNCHANGED <<idequeue, valid, dirty>>
          /\ holder' = [holder EXCEPT ![b] = NoProc]
      BY <1>6, <1>a, <2>1 DEF ReleaseSleep, Wake, fields
    <2>3. \A i \in 1 .. Len(idequeue) : holder'[idequeue[i]] = holder[idequeue[i]]
      BY <1>a, <1>c, <2>1, <2>2
    <2> QED
      BY <1>1, <2>2, <2>3
  <1>7. ASSUME NEW p \in Proc, Brelse(p) PROVE QueueInv'
    BY <1>1, <1>7, <1>a DEF Brelse
  <1>8. ASSUME NEW p \in Proc, IderwEnd(p) PROVE QueueInv'
    <2>1. valid[mine[p]] /\ ~dirty[mine[p]]
      BY <1>8, <1>t DEF IderwEnd, FlagInv
    <2>2. /\ pc' = [pc EXCEPT ![p] = "held"] /\ pc[p] = "woken"
          /\ UNCHANGED <<mine, valid, dirty, holder, idequeue>>
      BY <1>8, <2>1 DEF IderwEnd, fields
    <2> QED
      BY <1>1, <1>a, <2>2
  <1>9. ASSUME NEW p \in Proc, Iderw(p) PROVE QueueInv'
    <2>1. PICK b \in Buf : mine[p] = b /\ holder[b] = p /\ pc[p] = "rw"
      BY <1>9, <1>a, <1>t DEF Iderw, MineInv, HoldInv, Holding
    <2>2. /\ idequeue' = Append(idequeue, b) /\ pc' = [pc EXCEPT ![p] = "io"]
          /\ UNCHANGED <<mine, valid, dirty, holder>>
      BY <1>9, <2>1 DEF Iderw, fields
    <2>3. /\ Len(idequeue) \in Nat /\ Len(idequeue') = Len(idequeue) + 1
          /\ idequeue'[Len(idequeue) + 1] = b
          /\ \A i \in 1 .. Len(idequeue) : idequeue'[i] = idequeue[i]
      BY <1>a, <2>2
    <2>4. \A i \in 1 .. Len(idequeue) : idequeue[i] # b
      BY <1>c, <2>1
    <2>5. \A q \in Proc : pc'[q] = IF q = p THEN "io" ELSE pc[q]
      BY <1>a, <2>2
    <2>6. ~valid[b] \/ dirty[b]
      BY <1>t, <2>1 DEF FlagInv
    <2>7. ASSUME NEW i \in 1 .. Len(idequeue'), NEW j \in 1 .. Len(idequeue'),
                 idequeue'[i] = idequeue'[j]
          PROVE  i = j
      <3>1. /\ i \in 1 .. Len(idequeue) \/ i = Len(idequeue) + 1
            /\ j \in 1 .. Len(idequeue) \/ j = Len(idequeue) + 1
        BY <2>3
      <3> QED
        BY <1>t, <2>3, <2>4, <2>7, <3>1 DEF QueueInv
    <2>8. ASSUME NEW i \in 1 .. Len(idequeue')
          PROVE  /\ ~valid'[idequeue'[i]] \/ dirty'[idequeue'[i]]
                 /\ holder'[idequeue'[i]] # NoProc
                 /\ pc'[holder'[idequeue'[i]]] = "io"
      <3>1. CASE i \in 1 .. Len(idequeue)
        BY <1>a, <1>c, <2>2, <2>3, <2>5, <3>1
      <3>2. CASE i = Len(idequeue) + 1
        BY <1>a, <2>1, <2>2, <2>3, <2>5, <2>6, <3>2
      <3> QED
        BY <2>3, <3>1, <3>2
    <2>9. ASSUME NEW q \in Proc, pc'[q] = "io"
          PROVE  \E i \in 1 .. Len(idequeue') : idequeue'[i] = mine'[q]
      <3>1. CASE q = p
        BY <2>1, <2>2, <2>3, <3>1
      <3>2. CASE q # p
        <4>1. PICK i \in 1 .. Len(idequeue) : idequeue[i] = mine[q]
          BY <1>t, <2>5, <2>9, <3>2 DEF QueueInv
        <4> QED
          BY <2>2, <2>3, <4>1
      <3> QED
        BY <3>1, <3>2
    <2> QED
      BY <2>7, <2>8, <2>9 DEF QueueInv
  <1>10. CASE Ideintr
    <2>1. PICK b \in Buf :
             /\ b = Head(idequeue) /\ b = idequeue[1]
             /\ 1 \in 1 .. Len(idequeue)
      BY <1>10, HeadFacts DEF Ideintr
    <2>2. /\ \A c \in Buf : c # b => /\ valid'[c] = valid[c]
                                     /\ dirty'[c] = dirty[c]
          /\ UNCHANGED <<mine, holder>>
      BY <1>10, <1>b, <2>1 DEF Ideintr, Active
    <2>3. \A q \in Proc : pc'[q] = IF pc[q] = "io" /\ mine[q] = b THEN "woken"
                                    ELSE pc[q]
      BY <1>10, <2>1 DEF Ideintr, Active, Wake
    <2>4. /\ idequeue' = Tail(idequeue) /\ Len(idequeue) \in Nat
          /\ Len(idequeue') = Len(idequeue) - 1
          /\ \A i \in 1 .. Len(idequeue') : idequeue'[i] = idequeue[i + 1]
      <3>1. idequeue' = Tail(idequeue) /\ idequeue # <<>>
        BY <1>10 DEF Ideintr
      <3>2. Len(Tail(idequeue)) = Len(idequeue) - 1
        BY <1>a, <3>1, HeadTailProperties
      <3>3. \A i \in 1 .. Len(Tail(idequeue)) : Tail(idequeue)[i] = idequeue[i + 1]
        BY <1>a, <3>1, HeadTailProperties
      <3> QED
        BY <1>a, <3>1, <3>2, <3>3
    <2>5. \A i \in 1 .. Len(idequeue') :
             /\ i + 1 \in 1 .. Len(idequeue) /\ idequeue[i + 1] # b
      BY <1>t, <2>1, <2>4 DEF QueueInv
    <2>6. ASSUME NEW i \in 1 .. Len(idequeue'), NEW j \in 1 .. Len(idequeue'),
                 idequeue'[i] = idequeue'[j]
          PROVE  i = j
      <3>1. i + 1 = j + 1
        BY <1>t, <2>4, <2>5, <2>6 DEF QueueInv
      <3> QED
        BY <2>4, <3>1
    <2>7. ASSUME NEW i \in 1 .. Len(idequeue')
          PROVE  /\ ~valid'[idequeue'[i]] \/ dirty'[idequeue'[i]]
                 /\ holder'[idequeue'[i]] # NoProc
                 /\ pc'[holder'[idequeue'[i]]] = "io"
      BY <1>a, <1>c, <2>2, <2>3, <2>4, <2>5
    <2>8. ASSUME NEW q \in Proc, pc'[q] = "io"
          PROVE  \E i \in 1 .. Len(idequeue') : idequeue'[i] = mine'[q]
      <3>1. pc[q] = "io" /\ mine[q] # b
        BY <2>3, <2>8
      <3>2. PICK i \in 1 .. Len(idequeue) : idequeue[i] = mine[q]
        BY <1>t, <3>1 DEF QueueInv
      <3>3. i # 1
        BY <2>1, <3>1, <3>2
      <3>4. i - 1 \in 1 .. Len(idequeue') /\ (i - 1) + 1 = i
        BY <2>4, <3>2, <3>3
      <3> QED
        BY <2>2, <2>4, <3>2, <3>4
    <2> QED
      BY <2>6, <2>7, <2>8 DEF QueueInv
  <1>11. CASE UNCHANGED vars \/ \E p \in Proc, k \in Block : BgetPanic(p, k)
    BY <1>1, <1>11 DEF vars, BgetPanic, fields
  <1> QED
    BY <1>2, <1>3, <1>4, <1>5, <1>6, <1>7, <1>8, <1>9, <1>10, <1>11
    DEF Next, Kernel

(***************************************************************************)
(* The invariant                                                           *)
(***************************************************************************)

\* The invariant holds after binit.
LEMMA CacheInit == Init => CacheInv
  <1> SUFFICES ASSUME Init PROVE CacheInv
    OBVIOUS
  <1>a. NoBuf \notin Buf /\ NBUF \in Nat \ {0} /\ Buf = 1 .. NBUF
    BY BufFacts
  <1>1. lru \in [1 .. NBUF -> Buf] /\ Range(lru) = Buf
    <2>1. lru = [i \in 1 .. NBUF |-> NBUF + 1 - i]
      BY DEF Init
    <2>2. lru \in [1 .. NBUF -> Buf]
      BY <1>a, <2>1
    <2>3. ASSUME NEW b \in Buf PROVE \E i \in 1 .. NBUF : lru[i] = b
      <3>1. NBUF + 1 - b \in 1 .. NBUF /\ NBUF + 1 - (NBUF + 1 - b) = b
        BY <1>a
      <3> QED
        BY <2>1, <3>1
    <2> QED
      BY <2>2, <2>3 DEF Range
  <1>2. TypeOK
    <2>1. valid \in [Buf -> BOOLEAN] /\ dirty \in [Buf -> BOOLEAN]
      BY DEF Init
    <2>2. panicked \in BOOLEAN
      BY DEF Init
    <2>3. data \in [Buf -> Val] /\ disk \in [Block -> Val]
      BY DEF Init
    <2>4. idequeue \in Seq(Buf)
      BY DEF Init
    <2> QED
      BY <1>1, <2>1, <2>2, <2>3, <2>4 DEF Init, TypeOK
  <1>3. MineInv /\ HoldInv /\ DirInv
    BY <1>a DEF Init, MineInv, HoldInv, DirInv, Holding
  <1>4. RefInv
    <2>1. \A b \in Buf : Users(b) = {}
      BY <1>a DEF Init, Users
    <2> QED
      BY <2>1, FS_EmptySet DEF Init, RefInv
  <1>5. FlagInv
    BY DEF Init, FlagInv
  <1>6. QueueInv
    BY DEF Init, QueueInv
  <1> QED
    BY <1>2, <1>3, <1>4, <1>5, <1>6 DEF CacheInv

\* Every step keeps the invariant.
LEMMA CacheStep == CacheInv /\ [Next]_vars => CacheInv'
  BY TypeStep, MineStep, RefStep, HoldStep, DirStep, FlagStep, QueueStep
  DEF CacheInv

\* The invariant holds throughout.
LEMMA CacheInvariance == Spec => []CacheInv
  BY CacheInit, CacheStep, PTL DEF Spec

\* References are counted, no buffer is twice in the driver's queue, and
\* nobody sleeps in acquiresleep or iderw whom nothing will wake.
THEOREM CacheSafe == Spec => []CacheSound
  <1>1. ASSUME CacheInv PROVE CacheSound
    <2>1. RefCounted
      BY <1>1 DEF CacheInv, RefInv, RefCounted, Users
    <2>2. idequeue \in Seq(Buf) /\ DOMAIN idequeue = 1 .. Len(idequeue)
      BY <1>1 DEF CacheInv, TypeOK
    <2>3. QueueSound
      <3>1. IsInjective(idequeue)
        BY <1>1, <2>2 DEF CacheInv, QueueInv, IsInjective
      <3>2. ASSUME NEW i \in 1 .. Len(idequeue)
            PROVE  mine[holder[idequeue[i]]] = idequeue[i]
        <4>1. idequeue[i] \in Buf
          BY <2>2, ElementOfSeq
        <4> QED
          BY <1>1, <4>1 DEF CacheInv, QueueInv, HoldInv
      <3> QED
        BY <1>1, <3>1, <3>2 DEF CacheInv, QueueInv, QueueSound
    <2>4. Awaited
      <3>1. \A p \in Proc : pc[p] = "asleep" => ~LockFree(mine[p])
        BY <1>1 DEF CacheInv, HoldInv, LockFree
      <3>2. \A p \in Proc : pc[p] = "io" => Contains(idequeue, mine[p])
        BY <1>1 DEF CacheInv, QueueInv, Contains
      <3> QED
        BY <3>1, <3>2 DEF Awaited
    <2> QED
      BY <2>1, <2>3, <2>4 DEF CacheSound
  <1> QED
    BY <1>1, CacheInvariance, PTL

(***************************************************************************)
(* The cache as a store                                                    *)
(***************************************************************************)

\* Value, of a disk and the fields of the buffers.
ValueOf(d, bn, va, da) ==
    [k \in Block |-> IF \E b \in {c \in Buf : bn[c] = k} : va[b]
                     THEN da[CHOOSE b \in {c \in Buf : bn[c] = k} : va[b]]
                     ELSE d[k]]

\* Where the value of a block is: in its one valid buffer, else on the disk.
IsValue(w, d, bn, va, da) ==
    /\ w \in [Block -> Val]
    /\ \A b \in Buf : va[b] => w[bn[b]] = da[b]
    /\ \A k \in Block : (\A b \in Buf : bn[b] = k => ~va[b]) => w[k] = d[k]

\* ValueOf finds the value there, if no block is cached twice.
LEMMA ValueFacts ==
    ASSUME NEW d \in [Block -> Val], NEW bn, NEW va, NEW da \in [Buf -> Val],
           \A b, c \in Buf : bn[b] = bn[c] /\ bn[b] # NoBlock => b = c,
           \A b \in Buf : va[b] => bn[b] \in Block
    PROVE  IsValue(ValueOf(d, bn, va, da), d, bn, va, da)
  <1> DEFINE w == ValueOf(d, bn, va, da)
             At(k) == {c \in Buf : bn[c] = k}
             The(k) == CHOOSE b \in At(k) : va[b]
  <1>1. \A k \in Block : w[k] = IF \E b \in At(k) : va[b] THEN da[The(k)]
                                ELSE d[k]
    BY DEF ValueOf
  <1>2. w = [k \in Block |-> w[k]]
    BY DEF ValueOf
  <1>3. ASSUME NEW k \in Block, \E b \in At(k) : va[b]
        PROVE  The(k) \in Buf /\ bn[The(k)] = k /\ va[The(k)]
    BY <1>3
  <1> HIDE DEF w, The
  <1>4. ASSUME NEW k \in Block PROVE w[k] \in Val
    <2>1. CASE \E b \in At(k) : va[b]
      BY <1>1, <1>3, <2>1
    <2>2. CASE ~\E b \in At(k) : va[b]
      BY <1>1, <2>2
    <2> QED
      BY <2>1, <2>2
  <1>5. w \in [Block -> Val]
    BY <1>2, <1>4
  <1>6. ASSUME NEW b \in Buf, va[b] PROVE w[bn[b]] = da[b]
    <2>1. PICK k \in Block : bn[b] = k
      BY <1>6
    <2>2. b \in At(k)
      BY <2>1
    <2>3. The(k) \in Buf /\ bn[The(k)] = k
      BY <1>3, <1>6, <2>2
    <2>4. The(k) = b
      BY <2>1, <2>3, BufFacts
    <2> QED
      BY <1>1, <1>6, <2>1, <2>2, <2>4
  <1>7. ASSUME NEW k \in Block, \A b \in Buf : bn[b] = k => ~va[b]
        PROVE  w[k] = d[k]
    BY <1>1, <1>7
  <1>8. IsValue(w, d, bn, va, da)
    BY <1>5, <1>6, <1>7 DEF IsValue
  <1> QED
    BY <1>8 DEF w

\* Two functions from blocks to contents that agree everywhere are one.
LEMMA SameValue ==
    ASSUME NEW w \in [Block -> Val], NEW x \in [Block -> Val],
           \A k \in Block : w[k] = x[k]
    PROVE  w = x
  OBVIOUS

\* Every step is a step of the store or none: acquiresleep is Get, a change
\* of the contents Set and releasesleep Drop.
LEMMA StoreStep ==
    ASSUME CacheInv, [Next]_vars
    PROVE  [Store!StoreNext]_(Store!storeVars)
  <1>t. /\ TypeOK /\ MineInv /\ HoldInv /\ DirInv /\ FlagInv
        /\ DirInv' /\ FlagInv'
    BY DirStep, FlagStep DEF CacheInv
  <1>a. /\ pc \in [Proc -> {"idle", "lock", "asleep", "rw", "io", "woken",
                            "held", "rel"}]
        /\ mine \in [Proc -> Buf \cup {NoBuf}]
        /\ holder \in [Buf -> Proc \cup {NoProc}]
        /\ NoBuf \notin Buf /\ NoProc \notin Proc
        /\ disk \in [Block -> Val] /\ data \in [Buf -> Val]
        /\ blockno \in [Buf -> Block \cup {NoBlock}] /\ NoBlock \notin Block
    BY <1>t, BufFacts DEF TypeOK
  <1>b. disk' \in [Block -> Val] /\ data' \in [Buf -> Val]
    BY TypeStep DEF TypeOK
  <1>c. valid \in [Buf -> BOOLEAN] /\ dirty \in [Buf -> BOOLEAN]
    BY <1>t DEF TypeOK
  <1>v. IsValue(Value, disk, blockno, valid, data)
    <2>1. Value = ValueOf(disk, blockno, valid, data)
      BY DEF Value, ValueOf, Cached
    <2> QED
      BY <1>a, <1>t, <2>1, ValueFacts DEF DirInv, FlagInv
  <1>w. IsValue(Value', disk', blockno', valid', data')
    <2>1. Value' = ValueOf(disk', blockno', valid', data')
      BY DEF Value, ValueOf, Cached
    <2>2. /\ \A b, c \in Buf : blockno'[b] = blockno'[c] /\ blockno'[b] # NoBlock
                                 => b = c
          /\ \A b \in Buf : valid'[b] => blockno'[b] \in Block
      BY <1>t DEF DirInv, FlagInv
    <2> QED
      BY <1>b, <2>1, <2>2, ValueFacts
  <1>x. /\ Value \in [Block -> Val] /\ Value' \in [Block -> Val]
    BY <1>v, <1>w DEF IsValue
  <1>h. \A p \in Proc : Has[p] = IF pc[p] \in Holding THEN blockno[mine[p]]
                                 ELSE NoBlock
    BY DEF Has, Holding
  <1> DEFINE Stutter == Value' = Value /\ Has' = Has
  <1>0. ASSUME Stutter PROVE UNCHANGED Store!storeVars
    BY <1>0 DEF Store!storeVars
  <1>1. ASSUME UNCHANGED <<disk, blockno, valid, data>> PROVE Value' = Value
    BY <1>1 DEF Value, Cached
  <1>2. ASSUME \A q \in Proc : /\ pc'[q] \in Holding <=> pc[q] \in Holding
                               /\ pc[q] \in Holding
                                    => blockno'[mine'[q]] = blockno[mine[q]]
        PROVE  Has' = Has
    BY <1>2 DEF Has, Holding
  <1>3. ASSUME NEW p \in Proc, NEW k \in Block, BgetHit(p, k) \/ BgetMiss(p, k)
        PROVE  Stutter
    <2>1. PICK b \in Buf :
             /\ pc[p] = "idle"
             /\ mine' = [mine EXCEPT ![p] = b]
             /\ pc' = [pc EXCEPT ![p] = "lock"]
             /\ UNCHANGED <<disk, data>>
             /\ \/ UNCHANGED <<blockno, valid>>
                \/ /\ \A c \in Buf : blockno[c] # k
                   /\ ~dirty[b]
                   /\ \A q \in Proc : mine[q] # b
                   /\ blockno' = [blockno EXCEPT ![b] = k]
                   /\ valid' = [valid EXCEPT ![b] = FALSE]
      BY <1>3, BgetFacts
    <2>2. CASE UNCHANGED <<blockno, valid>>
      <3>1. Value' = Value
        BY <1>1, <2>1, <2>2
      <3>2. \A q \in Proc : /\ pc'[q] \in Holding <=> pc[q] \in Holding
                            /\ pc[q] \in Holding => mine'[q] = mine[q]
        BY <1>a, <2>1 DEF Holding
      <3> QED
        BY <1>2, <2>2, <3>1, <3>2
    <2>3. CASE /\ \A c \in Buf : blockno[c] # k
               /\ ~dirty[b]
               /\ \A q \in Proc : mine[q] # b
               /\ blockno' = [blockno EXCEPT ![b] = k]
               /\ valid' = [valid EXCEPT ![b] = FALSE]
      <3>1. /\ ~valid'[b] /\ blockno'[b] = k
            /\ \A c \in Buf : c # b => /\ valid'[c] = valid[c]
                                       /\ blockno'[c] = blockno[c]
        BY <1>a, <1>c, <2>3
      <3>2. \A q \in Proc : /\ pc'[q] \in Holding <=> pc[q] \in Holding
                            /\ pc[q] \in Holding
                                 => mine'[q] = mine[q] /\ mine[q] \in Buf \ {b}
        BY <1>a, <1>t, <2>1, <2>3 DEF Holding, MineInv
      <3>3. Has' = Has
        BY <1>2, <3>1, <3>2
      <3>4. ASSUME NEW n \in Block PROVE Value'[n] = Value[n]
        <4>1. CASE \E c \in Buf : c # b /\ blockno[c] = n /\ valid[c]
          BY <1>v, <1>w, <2>1, <3>1, <4>1 DEF IsValue
        <4>2. CASE ~\E c \in Buf : c # b /\ blockno[c] = n /\ valid[c]
          <5>1. Value'[n] = disk[n]
            BY <1>w, <2>1, <3>1, <4>2 DEF IsValue
          <5>2. CASE blockno[b] = n /\ valid[b]
            <6>1. Value[n] = data[b]
              BY <1>v, <5>2 DEF IsValue
            <6>2. data[b] = disk[n]
              BY <1>t, <2>3, <5>2 DEF FlagInv
            <6> QED
              BY <5>1, <6>1, <6>2
          <5>3. CASE ~(blockno[b] = n /\ valid[b])
            BY <1>v, <4>2, <5>1, <5>3 DEF IsValue
          <5> QED
            BY <5>2, <5>3
        <4> QED
          BY <4>1, <4>2
      <3>5. Value' = Value
        BY <1>x, <3>4, SameValue
      <3> QED
        BY <3>3, <3>5
    <2> QED
      BY <2>1, <2>2, <2>3
  <1>4. ASSUME NEW p \in Proc, AcquireWait(p) \/ Iderw(p) \/ IderwEnd(p)
        PROVE  Stutter
    <2>1. \A q \in Proc : pc'[q] \in Holding <=> pc[q] \in Holding
      BY <1>4, <1>a DEF AcquireWait, Iderw, IderwEnd, Holding
    <2>2. UNCHANGED <<disk, blockno, valid, data, mine>>
      BY <1>4 DEF AcquireWait, Iderw, IderwEnd, fields
    <2> QED
      BY <1>1, <1>2, <2>1, <2>2
  <1>5. ASSUME NEW p \in Proc, Acquire(p) PROVE \E k \in Block : Store!Get(p, k)
    <2>1. PICK b \in Buf : mine[p] = b /\ pc[p] = "lock" /\ holder[b] = NoProc
      BY <1>5, <1>a, <1>t DEF Acquire, MineInv, LockFree
    <2>2. PICK k \in Block : blockno[b] = k
      BY <1>a, <1>t, <2>1 DEF MineInv
    <2>3. /\ \A q \in Proc : q # p => pc'[q] = pc[q]
          /\ pc'[p] \in Holding
          /\ UNCHANGED <<disk, blockno, valid, data, mine>>
      BY <1>5, <1>a, <2>1 DEF Acquire, Holding, fields
    <2>4. Value' = Value
      BY <1>1, <2>3
    <2>5. Has[p] = NoBlock
      BY <1>h, <2>1 DEF Holding
    <2>6. ASSUME NEW q \in Proc PROVE Has[q] # k
      <3>1. CASE pc[q] \in Holding
        <4>1. mine[q] \in Buf /\ holder[mine[q]] = q
          BY <1>a, <1>t, <3>1 DEF HoldInv, MineInv, Holding
        <4>2. blockno[mine[q]] # k
          BY <1>a, <1>t, <2>1, <2>2, <4>1 DEF DirInv
        <4> QED
          BY <1>h, <3>1, <4>2
      <3>2. CASE pc[q] \notin Holding
        BY <1>a, <1>h, <3>2
      <3> QED
        BY <3>1, <3>2
    <2>7. Has' = [Has EXCEPT ![p] = k]
      BY <2>1, <2>2, <2>3 DEF Has, Holding
    <2> QED
      BY <2>4, <2>5, <2>6, <2>7 DEF Store!Get
  <1>6. ASSUME NEW p \in Proc, NEW v \in Val, Bwrite(p, v) \/ LogWrite(p, v)
        PROVE  Store!Set(p, v)
    <2>1. PICK b \in Buf : mine[p] = b /\ pc[p] = "held" /\ valid[b]
      BY <1>6, <1>a, <1>t DEF Bwrite, LogWrite, MineInv, FlagInv
    <2>2. PICK k \in Block : blockno[b] = k
      BY <1>t, <2>1 DEF FlagInv
    <2>3. /\ data' = [data EXCEPT ![b] = v]
          /\ UNCHANGED <<mine, blockno, valid, disk>>
          /\ \A q \in Proc : pc'[q] \in Holding <=> pc[q] \in Holding
      BY <1>6, <1>a, <2>1 DEF Bwrite, LogWrite, Holding
    <2>4. Has' = Has
      BY <1>2, <2>3
    <2>5. Has[p] = k
      BY <1>h, <2>1, <2>2 DEF Holding
    <2>6. data'[b] = v /\ \A c \in Buf : c # b => data'[c] = data[c]
      BY <1>a, <2>3
    <2>7. ASSUME NEW n \in Block
          PROVE  Value'[n] = [Value EXCEPT ![k] = v][n]
      <3>1. CASE n = k
        BY <1>w, <1>x, <2>1, <2>2, <2>3, <2>6, <3>1 DEF IsValue
      <3>2. CASE n # k
        <4>1. CASE \E c \in Buf : blockno[c] = n /\ valid[c]
          BY <1>v, <1>w, <1>x, <2>2, <2>3, <2>6, <3>2, <4>1 DEF IsValue
        <4>2. CASE ~\E c \in Buf : blockno[c] = n /\ valid[c]
          BY <1>v, <1>w, <1>x, <2>3, <3>2, <4>2 DEF IsValue
        <4> QED
          BY <4>1, <4>2
      <3> QED
        BY <3>1, <3>2
    <2>8. Value' = [Value EXCEPT ![k] = v]
      <3>1. [Value EXCEPT ![k] = v] \in [Block -> Val]
        BY <1>x
      <3> QED
        BY <1>x, <2>7, <3>1, SameValue
    <2> QED
      BY <1>a, <2>4, <2>5, <2>8 DEF Store!Set
  <1>7. ASSUME NEW p \in Proc, ReleaseSleep(p) PROVE Store!Drop(p)
    <2>1. /\ \A q \in Proc : q # p => (pc'[q] \in Holding <=> pc[q] \in Holding)
          /\ pc'[p] \notin Holding
          /\ UNCHANGED <<disk, blockno, valid, data, mine>>
      BY <1>7, <1>a DEF ReleaseSleep, Wake, Holding, fields
    <2>2. Value' = Value
      BY <1>1, <2>1
    <2>3. Has' = [Has EXCEPT ![p] = NoBlock]
      BY <2>1 DEF Has, Holding
    <2> QED
      BY <2>2, <2>3 DEF Store!Drop
  <1>8. ASSUME NEW p \in Proc, Brelse(p) PROVE Stutter
    <2>1. /\ \A q \in Proc : /\ pc'[q] \in Holding <=> pc[q] \in Holding
                             /\ pc[q] \in Holding => mine'[q] = mine[q]
          /\ UNCHANGED <<disk, blockno, valid, data>>
      BY <1>8, <1>a DEF Brelse, Holding
    <2> QED
      BY <1>1, <1>2, <2>1
  <1>9. ASSUME Ideintr PROVE Stutter
    <2>1. PICK b \in Buf : b = Head(idequeue) /\ blockno[b] \in Block
      BY <1>9, HeadFacts DEF Ideintr
    <2>2. /\ \A c \in Buf : c # b => /\ valid'[c] = valid[c]
                                     /\ data'[c] = data[c]
          /\ valid'[b] /\ UNCHANGED <<mine, blockno>>
      BY <1>9, <1>a, <1>c, <2>1 DEF Ideintr, Active
    <2>3. /\ dirty[b] => data' = data
          /\ ~dirty[b] => data'[b] = disk[blockno[b]]
          /\ \A n \in Block : n # blockno[b] => disk'[n] = disk[n]
      BY <1>9, <1>a, <2>1 DEF Ideintr, Active
    <2>4. Has' = Has
      <3>1. \A q \in Proc : pc'[q] \in Holding <=> pc[q] \in Holding
        BY <1>9, <1>a DEF Ideintr, Wake, Holding
      <3> QED
        BY <1>2, <2>2, <3>1
    <2>5. Value'[blockno[b]] = Value[blockno[b]]
      <3>1. Value'[blockno[b]] = data'[b]
        BY <1>w, <2>2 DEF IsValue
      <3>2. CASE dirty[b]
        <4>1. valid[b]
          BY <1>t, <3>2 DEF FlagInv
        <4> QED
          BY <1>v, <2>3, <3>1, <3>2, <4>1 DEF IsValue
      <3>3. CASE ~dirty[b] /\ valid[b]
        <4>1. data[b] = disk[blockno[b]] /\ Value[blockno[b]] = data[b]
          BY <1>t, <1>v, <3>3 DEF FlagInv, IsValue
        <4> QED
          BY <2>3, <3>1, <3>3, <4>1
      <3>4. CASE ~dirty[b] /\ ~valid[b]
        <4>1. \A c \in Buf : blockno[c] = blockno[b] => ~valid[c]
          BY <1>a, <1>t, <2>1, <3>4 DEF DirInv
        <4>2. Value[blockno[b]] = disk[blockno[b]]
          BY <1>v, <2>1, <4>1 DEF IsValue
        <4> QED
          BY <2>3, <3>1, <3>4, <4>2
      <3> QED
        BY <3>2, <3>3, <3>4
    <2>6. ASSUME NEW n \in Block, n # blockno[b] PROVE Value'[n] = Value[n]
      <3>1. CASE \E c \in Buf : blockno[c] = n /\ valid[c]
        BY <1>v, <1>w, <2>2, <2>6, <3>1 DEF IsValue
      <3>2. CASE ~\E c \in Buf : blockno[c] = n /\ valid[c]
        <4>1. Value'[n] = disk'[n]
          BY <1>w, <2>2, <2>6, <3>2 DEF IsValue
        <4>2. Value[n] = disk[n]
          BY <1>v, <3>2 DEF IsValue
        <4> QED
          BY <2>3, <2>6, <4>1, <4>2
      <3> QED
        BY <3>1, <3>2
    <2>7. Value' = Value
      BY <1>x, <2>5, <2>6, SameValue
    <2> QED
      BY <2>4, <2>7
  <1>10. ASSUME UNCHANGED vars \/ \E p \in Proc, k \in Block : BgetPanic(p, k)
         PROVE  Stutter
    <2>1. UNCHANGED <<disk, blockno, valid, data, mine, pc>>
      BY <1>10 DEF vars, BgetPanic, fields
    <2> QED
      BY <1>1, <1>2, <2>1
  <1> HIDE DEF Stutter
  <1>11. CASE \E p \in Proc : Acquire(p)
    BY <1>5, <1>11 DEF Store!StoreNext
  <1>12. CASE \E p \in Proc : ReleaseSleep(p)
    BY <1>7, <1>12 DEF Store!StoreNext
  <1>13. CASE \E p \in Proc, v \in Val : Bwrite(p, v) \/ LogWrite(p, v)
    BY <1>6, <1>13 DEF Store!StoreNext
  <1> QED
    BY <1>0, <1>3, <1>4, <1>8, <1>9, <1>10, <1>11, <1>12, <1>13 DEF Next, Kernel

\* The cache implements the store: two lookups of one block at once,
\* recycling, and reads and writes of the disk in any order leave every block
\* with one value, that one process at a time may use.
THEOREM CacheIsStore == Spec => IsStore
  <1>1. ASSUME Init PROVE Store!StoreInit
    <2>2. \A b \in Buf : ~valid[b]
      BY <1>1 DEF Init
    <2>3. Value = disk
      BY <1>1, <2>2 DEF Init, Value, Cached
    <2>4. Has = [p \in Proc |-> NoBlock]
      BY <1>1 DEF Init, Has
    <2> QED
      BY <1>1, <2>3, <2>4 DEF Init, Store!StoreInit
  <1>2. CacheInv /\ [Next]_vars => [Store!StoreNext]_(Store!storeVars)
    BY StoreStep
  <1> QED
    BY <1>1, <1>2, CacheInvariance, PTL DEF Spec, IsStore, Store!StoreSpec
=============================================================================
