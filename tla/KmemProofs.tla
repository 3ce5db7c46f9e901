----------------------------- MODULE KmemProofs -----------------------------
(***************************************************************************)
(* Proofs about Kmem, for any number of CPUs and processes and any pages:  *)
(* spin locks exclude each other although interrupts come between any two  *)
(* instructions and threads switch with ptable.lock held, interrupts come  *)
(* back on exactly where they should, and every page is in one place.      *)
(***************************************************************************)
EXTENDS Kmem, SequenceTheorems, FiniteSetTheorems, WellFoundedInduction, TLAPS

(***************************************************************************)
(* Code                                                                    *)
(***************************************************************************)
LockOp == {"pushcli", "cli", "xchg", "disown", "unlock"}

\* What is done with the free list, and what else main does before uselock.
ListOp == {"iflock", "head", "take", "link", "push", "ifunlock"}
MainOp == ListOp \cup {"freerange", "startothers", "startap", "started",
                       "uselock"}

Instr ==
    (LockOp \X Lock)
    \cup {<<op>> : op \in {"iflock", "ifunlock", "uselock", "pick", "wakeup",
                           "iret", "trapret"}}
    \cup ({"head"} \X Thread) \cup ({"take"} \X Page \X Thread)
    \cup ({"link", "push"} \X Page) \cup ({"freerange"} \X SUBSET Page)
    \cup ({"startothers"} \X (1 .. NCPU)) \cup ({"startap", "started"} \X CPU)
    \cup ({"sched"} \X {"RUNNABLE", "SLEEPING"}) \cup ({"resume"} \X BOOLEAN)
    \cup ({"start"} \X Proc)
Code == Seq(Instr)

Elems(s) == {s[i] : i \in 1 .. Len(s)}
Has(s, op) == \E x \in Elems(s) : x[1] = op
HeadIs(s, op) == s # <<>> /\ Head(s)[1] = op

\* In no section, in that of l only.
Free(s) == \A l \in Lock : ~In(s, l)
Only(s, l) == \A k \in Lock : In(s, k) <=> k = l

\* Code outside of interrupt handlers, of a process that has been in user
\* space: interrupts are on where no lock is held.
Own(s) == ~Has(s, "iret") /\ ~Has(s, "trapret")

\* The pages that an instruction frees.
Frees(x) == IF x[1] = "push" THEN {x[2]}
            ELSE IF x[1] = "freerange" THEN x[2] ELSE {}

\* Something is left of main's work before uselock; it comes first.
HasMain(s) == \E op \in MainOp : Has(s, op)
HeadMain(s) == \E op \in MainOp : HeadIs(s, op)

\* What may come next after an instruction that is not the first of a pair.
Plain(r) == /\ ~HeadIs(r, "xchg") /\ ~HeadIs(r, "unlock")
            /\ ~HeadIs(r, "push") /\ ~HeadIs(r, "take")

\* x is the first of a pair; y, with the same argument, is the second.
Pair(x, r, op) == HeadIs(r, op) /\ Head(r)[2] = x[2]

\* Instruction x may stand before code r.
Fits(x, r) ==
    /\ x[1] \in {"pushcli", "cli"} => Pair(x, r, "xchg")
    /\ x[1] = "disown" => Pair(x, r, "unlock")
    /\ x[1] = "link" => Pair(x, r, "push")
    /\ x[1] \notin {"pushcli", "cli", "disown", "link"} => Plain(r)
    /\ x[1] = "cli" => ~Has(r, "iret")
    /\ x[1] = "xchg" => In(r, x[2])
    /\ x[1] = "unlock" => ~In(r, x[2]) /\ ~In(r, "kmem")
    /\ x[1] \in {"iflock", "take", "link", "push"} => In(r, "kmem")
    /\ x[1] \in {"ifunlock", "uselock"} => ~In(r, "kmem")
    /\ x[1] = "head" => HeadIs(r, "ifunlock") /\ Only(r, "kmem") /\ Own(r)
    /\ x[1] \in {"freerange", "startothers", "startap", "started"}
         => Free(r) /\ Own(r)
    /\ x[1] \in {"pick", "sched", "resume"} => Only(r, "ptable")
    /\ x[1] = "pick" => ~Has(r, "iret")
    /\ x[1] = "resume" => /\ x[2] => ~Has(r, "iret")
                          /\ Own(r) => x[2]
    /\ x[1] = "start" => ~Has(r, "start")
    /\ x[1] \in {"iret", "trapret"} => Free(r) /\ ~Has(r, "iret")
    /\ x[1] \in MainOp \ {"uselock"} /\ HasMain(r) => HeadMain(r)
    /\ \A y \in Elems(r) : Frees(x) \cap Frees(y) = {}

\* What follows the i-th instruction.
After(s, i) == [j \in 1 .. Len(s) - i |-> s[i + j]]
WF(s) == \A i \in 1 .. Len(s) : Fits(s[i], After(s, i))

\* Which threads execute what.
Mine(t, x) ==
    /\ x[1] = "pick" => t \in CPU
    /\ x[1] \in {"sched", "resume", "trapret"} => t \in Proc
    /\ x[1] \in ListOp \/ (x[1] \in LockOp /\ x[2] = "kmem")
         => t = 0 \/ t \in Proc
    /\ x[1] \in MainOp \ ListOp => t = 0
    /\ x[1] = "start" => IF x[2] = initproc THEN t = 0 ELSE t = initproc

CodeOK(t, s) == s \in Code /\ WF(s) /\ \A x \in Elems(s) : Mine(t, x)
CodeInv == code \in [Thread -> Code] /\ \A t \in Thread : CodeOK(t, code[t])

\* Until kinit2 there are no processes, CPU 0 uses the list without a lock and
\* with interrupts off, and nobody else does.
NoKmem(s) == \A x \in Elems(s) : x[1] \in LockOp => x[2] # "kmem"
BootInv ==
    ~use_lock =>
        /\ \A p \in Proc : state[p] = "UNUSED"
        /\ \A t \in Thread : NoKmem(code[t])
        /\ HasMain(code[0]) => ~cpu[0].if /\ HeadMain(code[0])
        /\ Has(code[0], "start") => Has(code[0], "uselock")

(***************************************************************************)
(* Threads                                                                 *)
(***************************************************************************)
\* A process that was switched away, or has never run, goes on with
\* ptable.lock held.
Parked(s) ==
    /\ Only(s, "ptable")
    /\ HeadIs(s, "resume") \/ (HeadIs(s, "disown") /\ ~Has(s, "iret") /\ ~Own(s))

ThreadInv ==
    /\ \A c \in CPU : \/ Cur(c) = c
                      \/ /\ Cur(c) \in Proc /\ state[Cur(c)] = "RUNNING"
                         /\ HeadIs(code[c], "pick")
    /\ \A c, d \in CPU : Cur(c) = Cur(d) => c = d
    /\ \A p \in Proc : state[p] = "RUNNING" => \E c \in CPU : Cur(c) = p
    /\ \A p \in Proc : state[p] = "UNUSED" => code[p] = <<>>
    /\ \A p \in Proc : state[p] \in {"RUNNABLE", "SLEEPING"} => Parked(code[p])
    /\ \A t \in Thread : \A x \in Elems(code[t]) :
          x[1] = "start" => state[x[2]] = "UNUSED"

(***************************************************************************)
(* Locks and interrupts                                                    *)
(***************************************************************************)
Now(c) == code[Cur(c)]

\* Whoever executes s has lock l; u is use_lock.
Took(s, l, u) == In(s, l) /\ (l = "kmem" => u)
Got(c, l) == Took(Now(c), l, use_lock)

\* Only the store that opens the lock is missing.
Opening(s, l) == HeadIs(s, "unlock") /\ Head(s)[2] = l

LockInv ==
    \A l \in Lock :
        /\ \A c, d \in CPU : Got(c, l) /\ Got(d, l) => c = d
        /\ lock[l].locked <=> \E c \in CPU : Got(c, l)
        /\ \A c \in CPU : lock[l].cpu = c <=> Got(c, l) /\ ~Opening(Now(c), l)

\* The pushclis that s has yet to undo.
Num(b) == IF b THEN 1 ELSE 0
Depth(s, u) == Num(Took(s, "ticks", u)) + Num(Took(s, "ptable", u))
               + Num(Took(s, "kmem", u)) + Num(HeadIs(s, "xchg"))

\* CPU r, executing s, has interrupts on or will have them as s needs them.
CpuOK(r, s, u) ==
    /\ r.ncli = Depth(s, u)
    /\ r.if => r.ncli = 0 /\ Free(s) /\ ~Has(s, "iret")
    /\ r.ncli = 0 /\ r.cur \in Proc /\ Own(s) => r.if
    /\ r.ncli # 0 /\ ~HeadIs(s, "resume")
         => /\ r.intena => ~Has(s, "iret")
            /\ r.cur \in Proc /\ Own(s) => r.intena
CpuInv == \A c \in CPU : CpuOK(cpu[c], Now(c), use_lock)

LocksInv ==
    /\ TypeOK /\ CodeInv /\ BootInv /\ ThreadInv /\ LockInv /\ CpuInv
    /\ panic = "none"

(***************************************************************************)
(* Pages                                                                   *)
(***************************************************************************)
Pages == Early \cup work.late

\* The free list is the sequence L: it starts at f, and nx links it.
Chain(L, f, nx) ==
    /\ \A i, j \in 1 .. Len(L) : L[i] = L[j] => i = j
    /\ f = IF L = <<>> THEN Null ELSE L[1]
    /\ \A i \in 1 .. Len(L) :
          nx[L[i]] = IF i = Len(L) THEN Null ELSE L[i + 1]

\* Every page of P is on the list or, in h, has one owner.
Placed(E, P, h) ==
    /\ E \subseteq P
    /\ \A v \in P :
          IF v \in E THEN \A t \in Thread : v \notin h[t]
          ELSE \E t \in Thread : \A u \in Thread : v \in h[u] <=> u = t

\* What a thread frees it has, and what it read of the list is still so.
Owns(s, S) == \A x \in Elems(s) : Frees(x) \subseteq S
Fresh(s, f, nx) ==
    /\ HeadIs(s, "take") => Head(s)[2] = f /\ f # Null
    /\ HeadIs(s, "push") => nx[Head(s)[2]] = f

PageInv ==
    /\ work \in Workloads
    /\ \A t \in Thread : /\ held[t] \subseteq Pages /\ Owns(code[t], held[t])
                         /\ Fresh(code[t], freelist, next)
    /\ \E L \in Seq(Page) :
          Chain(L, freelist, next) /\ Placed(Elems(L), Pages, held)

(***************************************************************************)
(* Sequences of instructions                                               *)
(***************************************************************************)
Cons(x, s) == <<x>> \o s

LEMMA EmptyFacts ==
    /\ <<>> \in Code /\ Elems(<<>>) = {} /\ WF(<<>>)
    /\ \A l : ~In(<<>>, l)
    /\ \A op : ~Has(<<>>, op) /\ ~HeadIs(<<>>, op)
  BY DEF Code, Elems, WF, In, Has, HeadIs

LEMMA ConsSeq ==
    ASSUME NEW x \in Instr, NEW s \in Code
    PROVE  /\ Cons(x, s) \in Code /\ Cons(x, s) # <<>>
           /\ Len(Cons(x, s)) = Len(s) + 1
           /\ Cons(x, s)[1] = x /\ Head(Cons(x, s)) = x /\ Tail(Cons(x, s)) = s
           /\ \A i \in 1 .. Len(s) : Cons(x, s)[i + 1] = s[i]
  <1>1. <<x>> \in Seq(Instr) /\ Len(<<x>>) = 1 /\ <<x>>[1] = x
    OBVIOUS
  <1>2. /\ Cons(x, s) \in Seq(Instr) /\ Len(Cons(x, s)) = Len(s) + 1
        /\ Cons(x, s)[1] = x
        /\ \A i \in 1 .. Len(s) : Cons(x, s)[i + 1] = s[i]
    BY <1>1 DEF Cons, Code
  <1>3. Cons(x, s) # <<>> /\ Head(Cons(x, s)) = x
    BY <1>2
  <1>4. /\ Tail(Cons(x, s)) \in Seq(Instr) /\ Len(Tail(Cons(x, s))) = Len(s)
        /\ \A i \in 1 .. Len(s) : Tail(Cons(x, s))[i] = s[i]
    BY <1>2, <1>3
  <1>5. Tail(Cons(x, s)) = s
    BY <1>4, SeqEqual DEF Code
  <1> QED BY <1>2, <1>3, <1>5 DEF Code

LEMMA Uncons ==
    ASSUME NEW s \in Code, s # <<>>
    PROVE  /\ Head(s) \in Instr /\ Tail(s) \in Code
           /\ s = Cons(Head(s), Tail(s))
  <1>1. Head(s) \in Instr /\ Tail(s) \in Code
    BY DEF Code
  <1>2. /\ Len(s) = Len(Tail(s)) + 1 /\ s[1] = Head(s)
        /\ \A i \in 1 .. Len(Tail(s)) : Tail(s)[i] = s[i + 1]
    BY DEF Code
  <1>3. /\ Cons(Head(s), Tail(s)) \in Code
        /\ Len(Cons(Head(s), Tail(s))) = Len(Tail(s)) + 1
        /\ Cons(Head(s), Tail(s))[1] = Head(s)
        /\ \A i \in 1 .. Len(Tail(s)) : Cons(Head(s), Tail(s))[i + 1] = Tail(s)[i]
    BY <1>1, ConsSeq
  <1>4. \A i \in 1 .. Len(s) : Cons(Head(s), Tail(s))[i] = s[i]
    <2> TAKE i \in 1 .. Len(s)
    <2>1. CASE i = 1
      BY <2>1, <1>2, <1>3
    <2>2. CASE i # 1
      <3>1. i - 1 \in 1 .. Len(Tail(s)) /\ (i - 1) + 1 = i
        BY <2>2, <1>1, <1>2 DEF Code
      <3> QED BY <3>1, <1>2, <1>3
    <2> QED BY <2>1, <2>2
  <1> QED BY <1>1, <1>2, <1>3, <1>4, SeqEqual DEF Code

LEMMA ConsElems ==
    ASSUME NEW x \in Instr, NEW s \in Code
    PROVE  Elems(Cons(x, s)) = {x} \cup Elems(s)
  <1>0. Len(s) \in Nat
    BY DEF Code
  <1>1. /\ Len(Cons(x, s)) = Len(s) + 1 /\ Len(s) \in Nat
        /\ Cons(x, s)[1] = x
        /\ \A i \in 1 .. Len(s) : Cons(x, s)[i + 1] = s[i]
    BY ConsSeq, <1>0
  <1>2. \A i \in 1 .. Len(s) + 1 : i = 1 \/ (i - 1 \in 1 .. Len(s) /\ (i - 1) + 1 = i)
    BY <1>1
  <1>3. ASSUME NEW y \in Elems(Cons(x, s)) PROVE y \in {x} \cup Elems(s)
    <2>1. PICK i \in 1 .. Len(s) + 1 : y = Cons(x, s)[i]
      BY <1>1 DEF Elems
    <2>2. CASE i = 1
      BY <2>1, <2>2, <1>1
    <2>3. CASE i # 1
      <3>1. i - 1 \in 1 .. Len(s) /\ y = s[i - 1]
        BY <2>1, <2>3, <1>1, <1>2
      <3> QED BY <3>1 DEF Elems
    <2> QED BY <2>2, <2>3
  <1>4. ASSUME NEW y \in {x} \cup Elems(s) PROVE y \in Elems(Cons(x, s))
    <2>1. CASE y = x
      BY <2>1, <1>1 DEF Elems
    <2>2. CASE y \in Elems(s)
      <3>1. PICK i \in 1 .. Len(s) : y = s[i]
        BY <2>2 DEF Elems
      <3>2. i + 1 \in 1 .. Len(Cons(x, s)) /\ y = Cons(x, s)[i + 1]
        BY <3>1, <1>1
      <3> QED BY <3>2 DEF Elems
    <2> QED BY <2>1, <2>2
  <1> QED BY <1>3, <1>4

LEMMA ConsHas ==
    ASSUME NEW x \in Instr, NEW s \in Code
    PROVE  /\ \A op : Has(Cons(x, s), op) <=> x[1] = op \/ Has(s, op)
           /\ \A op : HeadIs(Cons(x, s), op) <=> x[1] = op
  BY ConsElems, ConsSeq DEF Has, HeadIs

LEMMA ConsIn ==
    ASSUME NEW x \in Instr, NEW s \in Code, NEW l
    PROVE  In(Cons(x, s), l) <=> \/ Leaves(x, l)
                                 \/ ~Enters(x, l) /\ In(s, l)
  <1>0. Len(s) \in Nat
    BY DEF Code
  <1>1. /\ Len(Cons(x, s)) = Len(s) + 1 /\ Len(s) \in Nat
        /\ Cons(x, s)[1] = x
        /\ \A i \in 1 .. Len(s) : Cons(x, s)[i + 1] = s[i]
    BY ConsSeq, <1>0
  <1> DEFINE t == Cons(x, s)
  <1>2. \A i \in 1 .. Len(s) + 1 : i = 1 \/ (i - 1 \in 1 .. Len(s) /\ t[i] = s[i - 1])
    BY <1>1
  <1> HIDE DEF t
  <1>3. ~(Leaves(x, l) /\ Enters(x, l))
    BY DEF Leaves, Enters
  <1>4. ASSUME In(t, l), ~Leaves(x, l) PROVE ~Enters(x, l) /\ In(s, l)
    <2>1. PICK i \in 1 .. Len(s) + 1 :
             /\ Leaves(t[i], l)
             /\ \A j \in 1 .. i - 1 : ~Enters(t[j], l) /\ ~Leaves(t[j], l)
      BY <1>4, <1>1 DEF In, t
    <2>2. i # 1 /\ i - 1 \in 1 .. Len(s) /\ t[i] = s[i - 1] /\ t[1] = x
      BY <2>1, <1>1, <1>2, <1>4 DEF t
    <2>3. 1 \in 1 .. i - 1
      BY <2>2, <1>1
    <2>4. \A j \in 1 .. (i - 1) - 1 : j + 1 \in 1 .. i - 1 /\ t[j + 1] = s[j]
      BY <2>2, <1>1 DEF t
    <2> QED BY <2>1, <2>2, <2>3, <2>4 DEF In
  <1>5. ASSUME Leaves(x, l) PROVE In(t, l)
    BY <1>5, <1>1 DEF In, t
  <1>6. ASSUME ~Enters(x, l), In(s, l), ~Leaves(x, l) PROVE In(t, l)
    <2>1. PICK i \in 1 .. Len(s) :
             /\ Leaves(s[i], l)
             /\ \A j \in 1 .. i - 1 : ~Enters(s[j], l) /\ ~Leaves(s[j], l)
      BY <1>6 DEF In
    <2>2. i + 1 \in 1 .. Len(t) /\ t[i + 1] = s[i]
      BY <1>1 DEF t
    <2>3. \A j \in 1 .. (i + 1) - 1 : t[j] = x \/ (j - 1 \in 1 .. i - 1 /\ t[j] = s[j - 1])
      BY <1>1, <1>2 DEF t
    <2> QED BY <2>1, <2>2, <2>3, <1>6 DEF In
  <1> QED BY <1>4, <1>5, <1>6, <1>3 DEF t

LEMMA ConsWF ==
    ASSUME NEW x \in Instr, NEW s \in Code
    PROVE  WF(Cons(x, s)) <=> Fits(x, s) /\ WF(s)
  <1> DEFINE t == Cons(x, s)
  <1>0. Len(s) \in Nat
    BY DEF Code
  <1>1. /\ Len(t) = Len(s) + 1 /\ Len(s) \in Nat
        /\ t[1] = x
        /\ \A i \in 1 .. Len(s) : t[i + 1] = s[i]
    BY ConsSeq, <1>0
  <1>2. s = [j \in 1 .. Len(s) |-> s[j]]
    BY DEF Code
  <1> HIDE DEF t
  <1>3. After(t, 1) = s
    <2>1. Len(t) - 1 = Len(s) /\ \A j \in 1 .. Len(s) : t[1 + j] = s[j]
      BY <1>1
    <2> QED BY <2>1, <1>2 DEF After
  <1>4. ASSUME NEW i \in 1 .. Len(s) PROVE After(t, i + 1) = After(s, i) /\ t[i + 1] = s[i]
    <2>1. Len(t) - (i + 1) = Len(s) - i
      BY <1>1
    <2>2. \A j \in 1 .. Len(s) - i : i + j \in 1 .. Len(s) /\ (i + 1) + j = (i + j) + 1
      BY <1>1
    <2>3. \A j \in 1 .. Len(s) - i : t[(i + 1) + j] = s[i + j]
      BY <2>2, <1>1
    <2> QED BY <2>1, <2>3, <1>1 DEF After
  <1>5. ASSUME WF(t) PROVE Fits(x, s) /\ WF(s)
    <2>1. 1 \in 1 .. Len(t) /\ \A i \in 1 .. Len(s) : i + 1 \in 1 .. Len(t)
      BY <1>1
    <2> QED BY <2>1, <1>1, <1>3, <1>4, <1>5 DEF WF
  <1>6. ASSUME Fits(x, s), WF(s) PROVE WF(t)
    <2> SUFFICES ASSUME NEW i \in 1 .. Len(t) PROVE Fits(t[i], After(t, i))
      BY DEF WF
    <2>1. CASE i = 1
      BY <2>1, <1>1, <1>3, <1>6
    <2>2. CASE i # 1
      <3>1. PICK k \in 1 .. Len(s) : i = k + 1
        <4>1. i - 1 \in 1 .. Len(s) /\ i = (i - 1) + 1
          BY <2>2, <1>1
        <4> QED BY <4>1
      <3> QED BY <3>1, <1>4, <1>6 DEF WF
    <2> QED BY <2>1, <2>2
  <1> QED BY <1>5, <1>6 DEF t

LEMMA ThreadFacts ==
    /\ CPU \subseteq Thread /\ Proc \subseteq Thread /\ CPU \cap Proc = {}
    /\ 0 \in CPU /\ initproc \in Proc /\ NoCpu \notin CPU /\ Null \notin Page
    /\ Thread = CPU \cup Proc
  BY KmemAssumption DEF CPU, Proc, Thread, initproc, NoCpu, Null

\* What the arguments of an instruction are.
LEMMA InstrArgs ==
    ASSUME NEW x \in Instr
    PROVE  /\ x[1] \in LockOp => x[2] \in Lock
           /\ x[1] = "head" => x[2] \in Thread
           /\ x[1] = "take" => x[2] \in Page /\ x[3] \in Thread
           /\ x[1] \in {"link", "push"} => x[2] \in Page
           /\ x[1] = "freerange" => x[2] \in SUBSET Page
           /\ x[1] = "startothers" => x[2] \in 1 .. NCPU
           /\ x[1] \in {"startap", "started"} => x[2] \in CPU
           /\ x[1] = "sched" => x[2] \in {"RUNNABLE", "SLEEPING"}
           /\ x[1] = "resume" => x[2] \in BOOLEAN
           /\ x[1] = "start" => x[2] \in Proc
  BY DEF Instr, LockOp

LEMMA InstrMake ==
    /\ \A op \in LockOp, l \in Lock : <<op, l>> \in Instr
    /\ \A op \in {"iflock", "ifunlock", "uselock", "pick", "wakeup", "iret",
                  "trapret"} : <<op>> \in Instr
    /\ \A t \in Thread : <<"head", t>> \in Instr
    /\ \A v \in Page, t \in Thread : <<"take", v, t>> \in Instr
    /\ \A v \in Page : <<"link", v>> \in Instr /\ <<"push", v>> \in Instr
    /\ \A A \in SUBSET Page : <<"freerange", A>> \in Instr
    /\ \A i \in 1 .. NCPU : <<"startothers", i>> \in Instr
    /\ \A c \in CPU : <<"startap", c>> \in Instr /\ <<"started", c>> \in Instr
    /\ \A st \in {"RUNNABLE", "SLEEPING"} : <<"sched", st>> \in Instr
    /\ \A e \in BOOLEAN : <<"resume", e>> \in Instr
    /\ \A p \in Proc : <<"start", p>> \in Instr
  BY DEF Instr

(***************************************************************************)
(* Programs, instruction by instruction                                    *)
(***************************************************************************)
Acq(l, s) == Cons(<<"pushcli", l>>, Cons(<<"xchg", l>>, s))
Rel(l, s) == Cons(<<"disown", l>>, Cons(<<"unlock", l>>, s))

Cat(p, s) == p \o s

LEMMA Assoc ==
    ASSUME NEW p \in Code, NEW q \in Code, NEW s \in Code
    PROVE  /\ Cat(Cat(p, q), s) = Cat(p, Cat(q, s)) /\ Cat(p, q) \in Code
           /\ Cat(p, <<>>) = p /\ Cat(<<>>, p) = p
  BY DEF Code, Cat

LEMMA Unfold ==
    ASSUME NEW s \in Code
    PROVE  /\ \A a \in Instr : Cat(<<a>>, s) = Cons(a, s)
           /\ \A a, b \in Instr : Cat(<<a, b>>, s) = Cons(a, Cons(b, s))
           /\ \A a, b, d \in Instr : Cat(<<a, b, d>>, s) = Cons(a, Cons(b, Cons(d, s)))
           /\ \A a, b, d, e \in Instr :
                Cat(<<a, b, d, e>>, s) = Cons(a, Cons(b, Cons(d, Cons(e, s))))
  <1>a. ASSUME NEW a \in Instr, NEW b \in Instr PROVE Cat(<<a>>, <<b>>) = <<a, b>>
    <2> DEFINE p == <<a>>
               q == <<b>>
               w == <<a, b>>
    <2>1. p \in Seq(Instr) /\ q \in Seq(Instr) /\ w \in Seq(Instr)
      OBVIOUS
    <2>2. Len(p) = 1 /\ Len(q) = 1 /\ Len(w) = 2 /\ p[1] = a /\ q[1] = b
          /\ w[1] = a /\ w[2] = b
      OBVIOUS
    <2> HIDE DEF p, q, w
    <2>3. /\ p \o q \in Seq(Instr) /\ Len(p \o q) = 2
          /\ (p \o q)[1] = a /\ (p \o q)[2] = b
      <3>1. /\ p \o q \in Seq(Instr) /\ Len(p \o q) = Len(p) + Len(q)
            /\ \A i \in 1 .. Len(p) + Len(q) :
                  (p \o q)[i] = IF i <= Len(p) THEN p[i] ELSE q[i - Len(p)]
        BY <2>1, ConcatProperties
      <3> QED BY <3>1, <2>2
    <2>4. \A i \in 1 .. 2 : (p \o q)[i] = w[i]
      BY <2>2, <2>3
    <2>5. p \o q = w
      BY <2>1, <2>2, <2>3, <2>4, SeqEqual
    <2> QED BY <2>5 DEF p, q, w, Cat
  <1>b. \A a, b \in Instr : <<a>> \in Code /\ <<a, b>> \in Code
    BY DEF Code
  <1>0. \A a, b \in Instr : <<a>> \in Code /\ <<a, b>> \in Code /\ Cat(<<a>>, <<b>>) = <<a, b>>
    BY <1>a, <1>b
  <1>1. \A a \in Instr : Cat(<<a>>, s) = Cons(a, s)
    BY DEF Cons, Cat
  <1>2. ASSUME NEW q \in Code, NEW a \in Instr, NEW b \in Instr
        PROVE  Cat(<<a, b>>, q) = Cons(a, Cons(b, q))
    <2>1. Cat(Cat(<<a>>, <<b>>), q) = Cat(<<a>>, Cat(<<b>>, q))
      <3>1. <<a>> \in Code /\ <<b>> \in Code
        BY <1>0
      <3> QED BY <3>1, Assoc
    <2>2. Cat(<<b>>, q) = Cons(b, q) /\ Cat(<<a>>, Cons(b, q)) = Cons(a, Cons(b, q))
      BY DEF Cons, Cat
    <2> QED BY <2>1, <2>2, <1>0
  <1>3. ASSUME NEW a \in Instr, NEW b \in Instr, NEW d \in Instr
        PROVE  Cat(<<a, b, d>>, s) = Cons(a, Cons(b, Cons(d, s)))
    <2>1. <<a, b, d>> = Cat(<<a, b>>, <<d>>)
      BY DEF Cat
    <2>2. Cat(Cat(<<a, b>>, <<d>>), s) = Cat(<<a, b>>, Cat(<<d>>, s))
      <3>1. <<a, b>> \in Code /\ <<d>> \in Code
        BY <1>0
      <3> QED BY <3>1, Assoc
    <2>3. Cons(d, s) \in Code
      BY ConsSeq
    <2>4. Cat(<<d>>, s) = Cons(d, s)
      BY DEF Cons, Cat
    <2> QED BY <2>1, <2>2, <2>3, <2>4, <1>2
  <1>4. ASSUME NEW a \in Instr, NEW b \in Instr, NEW d \in Instr, NEW e \in Instr
        PROVE  Cat(<<a, b, d, e>>, s) = Cons(a, Cons(b, Cons(d, Cons(e, s))))
    <2>1. <<a, b, d, e>> = Cat(<<a, b>>, <<d, e>>)
      BY DEF Cat
    <2>2. Cat(Cat(<<a, b>>, <<d, e>>), s) = Cat(<<a, b>>, Cat(<<d, e>>, s))
      <3>1. <<a, b>> \in Code /\ <<d, e>> \in Code
        BY <1>0
      <3> QED BY <3>1, Assoc
    <2>3. Cat(<<d, e>>, s) = Cons(d, Cons(e, s))
      BY <1>2
    <2>4. Cons(d, Cons(e, s)) \in Code
      BY ConsSeq
    <2>5. Cat(<<a, b>>, Cons(d, Cons(e, s))) = Cons(a, Cons(b, Cons(d, Cons(e, s))))
      BY <2>4, <1>2
    <2> QED BY <2>1, <2>2, <2>3, <2>5
  <1> QED BY <1>1, <1>2, <1>3, <1>4

LEMMA UnfoldCalls ==
    ASSUME NEW s \in Code
    PROVE  /\ \A l \in Lock : acquire(l) \in Code /\ Cat(acquire(l), s) = Acq(l, s)
           /\ \A l \in Lock : release(l) \in Code /\ Cat(release(l), s) = Rel(l, s)
           /\ \A t \in Thread :
                /\ kalloc(t) \in Code
                /\ Cat(kalloc(t), s)
                     = Cons(<<"iflock">>, Cons(<<"head", t>>, Cons(<<"ifunlock">>, s)))
           /\ \A v \in Page :
                /\ kfree(v) \in Code
                /\ Cat(kfree(v), s) = Cons(<<"iflock">>, Cons(<<"link", v>>,
                                     Cons(<<"push", v>>, Cons(<<"ifunlock">>, s))))
           /\ \A a \in Instr : <<a>> \in Code /\ Cat(<<a>>, s) = Cons(a, s)
  <1>1. ASSUME NEW l \in Lock
        PROVE  /\ acquire(l) \in Code /\ Cat(acquire(l), s) = Acq(l, s)
               /\ release(l) \in Code /\ Cat(release(l), s) = Rel(l, s)
    <2>1. /\ <<"pushcli", l>> \in Instr /\ <<"xchg", l>> \in Instr
          /\ <<"disown", l>> \in Instr /\ <<"unlock", l>> \in Instr
      BY InstrMake DEF LockOp
    <2>2. Cat(acquire(l), s) = Acq(l, s) /\ Cat(release(l), s) = Rel(l, s)
      <3> DEFINE a == <<"pushcli", l>>
                 b == <<"xchg", l>>
                 d == <<"disown", l>>
                 e == <<"unlock", l>>
      <3> HIDE DEF a, b, d, e
      <3>1. a \in Instr /\ b \in Instr /\ d \in Instr /\ e \in Instr
        BY <2>1 DEF a, b, d, e
      <3>2. Cat(<<a, b>>, s) = Cons(a, Cons(b, s)) /\ Cat(<<d, e>>, s) = Cons(d, Cons(e, s))
        BY <3>1, Unfold
      <3> QED BY <3>2 DEF acquire, release, Acq, Rel, a, b, d, e
    <2>3. acquire(l) \in Code /\ release(l) \in Code
      BY <2>1 DEF acquire, release, Code
    <2> QED BY <2>2, <2>3
  <1>2. ASSUME NEW t \in Thread
        PROVE  /\ kalloc(t) \in Code
               /\ Cat(kalloc(t), s)
                    = Cons(<<"iflock">>, Cons(<<"head", t>>, Cons(<<"ifunlock">>, s)))
    <2>1. <<"iflock">> \in Instr /\ <<"head", t>> \in Instr /\ <<"ifunlock">> \in Instr
      BY InstrMake
    <2>2. kalloc(t) \in Code
      BY <2>1 DEF kalloc, Code
    <2> DEFINE a == <<"iflock">>
               b == <<"head", t>>
               d == <<"ifunlock">>
    <2> HIDE DEF a, b, d
    <2>3. a \in Instr /\ b \in Instr /\ d \in Instr
      BY <2>1 DEF a, b, d
    <2>4. Cat(<<a, b, d>>, s) = Cons(a, Cons(b, Cons(d, s)))
      BY <2>3, Unfold
    <2> QED BY <2>2, <2>4 DEF kalloc, a, b, d
  <1>3. ASSUME NEW v \in Page
        PROVE  /\ kfree(v) \in Code
               /\ Cat(kfree(v), s) = Cons(<<"iflock">>, Cons(<<"link", v>>,
                                    Cons(<<"push", v>>, Cons(<<"ifunlock">>, s))))
    <2>1. /\ <<"iflock">> \in Instr /\ <<"link", v>> \in Instr
          /\ <<"push", v>> \in Instr /\ <<"ifunlock">> \in Instr
      BY InstrMake
    <2>2. kfree(v) \in Code
      BY <2>1 DEF kfree, Code
    <2> DEFINE a == <<"iflock">>
               b == <<"link", v>>
               d == <<"push", v>>
               e == <<"ifunlock">>
    <2> HIDE DEF a, b, d, e
    <2>3. a \in Instr /\ b \in Instr /\ d \in Instr /\ e \in Instr
      BY <2>1 DEF a, b, d, e
    <2>4. Cat(<<a, b, d, e>>, s) = Cons(a, Cons(b, Cons(d, Cons(e, s))))
      BY <2>3, Unfold
    <2> QED BY <2>2, <2>4 DEF kfree, a, b, d, e
  <1>4. \A a \in Instr : <<a>> \in Code /\ Cat(<<a>>, s) = Cons(a, s)
    <2>1. \A a \in Instr : <<a>> \in Code
      BY DEF Code
    <2> QED BY <2>1, Unfold
  <1> QED BY <1>1, <1>2, <1>3, <1>4

\* The program that follows p, once p has been unfolded.
LEMMA Then ==
    ASSUME NEW p \in Code, NEW q \in Code, NEW s \in Code, NEW w \in Code,
           Cat(q, s) = w
    PROVE  Cat(p, q) \in Code /\ Cat(Cat(p, q), s) = Cat(p, w)
  BY Assoc

LEMMA UnfoldAcqRel ==
    ASSUME NEW p \in Code, NEW s \in Code, NEW l \in Lock
    PROVE  /\ Acq(l, s) \in Code /\ Rel(l, s) \in Code
           /\ Cat(p, acquire(l)) \in Code /\ Cat(Cat(p, acquire(l)), s) = Cat(p, Acq(l, s))
           /\ Cat(p, release(l)) \in Code /\ Cat(Cat(p, release(l)), s) = Cat(p, Rel(l, s))
  <1>1. /\ acquire(l) \in Code /\ Cat(acquire(l), s) = Acq(l, s)
        /\ release(l) \in Code /\ Cat(release(l), s) = Rel(l, s)
    BY UnfoldCalls
  <1>2. Acq(l, s) \in Code /\ Rel(l, s) \in Code
    BY <1>1, Assoc
  <1> QED BY <1>1, <1>2, Then

LEMMA UnfoldOne ==
    ASSUME NEW p \in Code, NEW s \in Code, NEW a \in Instr
    PROVE  /\ Cons(a, s) \in Code
           /\ Cat(p, <<a>>) \in Code /\ Cat(Cat(p, <<a>>), s) = Cat(p, Cons(a, s))
  <1>1. <<a>> \in Code /\ Cat(<<a>>, s) = Cons(a, s) /\ Cons(a, s) \in Code
    BY UnfoldCalls, ConsSeq
  <1> QED BY <1>1, Then

LEMMA Locks3 == "ticks" \in Lock /\ "ptable" \in Lock /\ "kmem" \in Lock
                /\ \A l \in Lock : l = "ticks" \/ l = "ptable" \/ l = "kmem"
  BY DEF Lock

LEMMA UnfoldScheduler ==
    scheduler = Acq("ptable", Cons(<<"pick">>, Rel("ptable", <<>>)))
  <1> DEFINE A == acquire("ptable")
             B == Cat(A, <<<<"pick">>>>)
             s1 == Rel("ptable", <<>>)
             s2 == Cons(<<"pick">>, s1)
  <1>1. A \in Code /\ <<"pick">> \in Instr /\ <<>> \in Code
    BY UnfoldCalls, InstrMake, EmptyFacts, Locks3
  <1>2. s1 \in Code
    BY <1>1, UnfoldAcqRel, Locks3
  <1>3. B \in Code /\ s2 \in Code /\ Cat(B, s1) = Cat(A, s2)
    BY <1>1, <1>2, UnfoldOne
  <1>4. Cat(B, release("ptable")) \in Code /\ Cat(Cat(B, release("ptable")), <<>>) = Cat(B, s1)
    BY <1>1, <1>3, UnfoldAcqRel, Locks3
  <1>5. Cat(A, s2) = Acq("ptable", s2)
    BY <1>3, UnfoldCalls, Locks3
  <1>6. Cat(Cat(B, release("ptable")), <<>>) = Cat(B, release("ptable"))
    BY <1>4, Assoc, EmptyFacts
  <1>7. scheduler = Cat(B, release("ptable"))
    BY DEF scheduler, Cat
  <1> QED BY <1>3, <1>4, <1>5, <1>6, <1>7

\* What yield does before s.
YieldThen(s) == Acq("ptable", Cons(<<"sched", "RUNNABLE">>, Rel("ptable", s)))

LEMMA UnfoldYield ==
    ASSUME NEW s \in Code
    PROVE  yield \in Code /\ Cat(yield, s) = YieldThen(s)
  <1> DEFINE A == acquire("ptable")
             a == <<"sched", "RUNNABLE">>
             B == Cat(A, <<a>>)
             s1 == Rel("ptable", s)
             s2 == Cons(a, s1)
  <1>1. A \in Code /\ a \in Instr /\ s1 \in Code
    BY UnfoldCalls, InstrMake, Locks3, UnfoldAcqRel
  <1> HIDE DEF a
  <1>3. B \in Code /\ s2 \in Code /\ Cat(B, s1) = Cat(A, s2)
    BY <1>1, UnfoldOne
  <1>4. Cat(B, release("ptable")) \in Code /\ Cat(Cat(B, release("ptable")), s) = Cat(B, s1)
    BY <1>1, <1>3, UnfoldAcqRel, Locks3
  <1>5. Cat(A, s2) = Acq("ptable", s2)
    BY <1>3, UnfoldCalls, Locks3
  <1>6. yield = Cat(B, release("ptable"))
    BY DEF yield, Cat, a
  <1>7. YieldThen(s) = Acq("ptable", s2)
    BY DEF YieldThen, a
  <1> QED BY <1>3, <1>4, <1>5, <1>6, <1>7

SleepProg ==
    Acq("ticks", Acq("ptable", Rel("ticks", Cons(<<"sched", "SLEEPING">>,
        Rel("ptable", Acq("ticks", Rel("ticks", <<>>)))))))

LEMMA UnfoldSleep == sleep = SleepProg
  <1> DEFINE a == <<"sched", "SLEEPING">>
             p1 == acquire("ticks")
             p2 == Cat(p1, acquire("ptable"))
             p3 == Cat(p2, release("ticks"))
             p4 == Cat(p3, <<a>>)
             p5 == Cat(p4, release("ptable"))
             p6 == Cat(p5, acquire("ticks"))
             p7 == Cat(p6, release("ticks"))
             s1 == Rel("ticks", <<>>)
             s2 == Acq("ticks", s1)
             s3 == Rel("ptable", s2)
             s4 == Cons(a, s3)
             s5 == Rel("ticks", s4)
             s6 == Acq("ptable", s5)
             s7 == Acq("ticks", s6)
  <1>0. a \in Instr
    BY InstrMake
  <1>1. sleep = p7 /\ SleepProg = s7
    BY DEF sleep, SleepProg, Cat
  <1> HIDE DEF a
  <1>2. s1 \in Code /\ <<>> \in Code BY UnfoldAcqRel, Locks3, EmptyFacts
  <1>3. s2 \in Code BY <1>2, UnfoldAcqRel, Locks3
  <1>4. s3 \in Code BY <1>3, UnfoldAcqRel, Locks3
  <1>5. s4 \in Code BY <1>4, <1>0, ConsSeq
  <1>6. s5 \in Code BY <1>5, UnfoldAcqRel, Locks3
  <1>7. s6 \in Code BY <1>6, UnfoldAcqRel, Locks3
  <1> HIDE DEF s1, s2, s3, s4, s5, s6, s7
  <1>8. p1 \in Code /\ Cat(p1, s6) = s7
    BY <1>7, UnfoldCalls, Locks3 DEF s7
  <1> HIDE DEF p1
  <1>9. p2 \in Code /\ Cat(p2, s5) = Cat(p1, s6)
    BY <1>8, <1>6, UnfoldAcqRel, Locks3 DEF s6
  <1> HIDE DEF p2
  <1>10. p3 \in Code /\ Cat(p3, s4) = Cat(p2, s5)
    BY <1>9, <1>5, UnfoldAcqRel, Locks3 DEF s5
  <1> HIDE DEF p3
  <1>11. p4 \in Code /\ Cat(p4, s3) = Cat(p3, s4)
    BY <1>10, <1>4, <1>0, UnfoldOne DEF s4
  <1> HIDE DEF p4
  <1>12. p5 \in Code /\ Cat(p5, s2) = Cat(p4, s3)
    BY <1>11, <1>3, UnfoldAcqRel, Locks3 DEF s3
  <1> HIDE DEF p5
  <1>13. p6 \in Code /\ Cat(p6, s1) = Cat(p5, s2)
    BY <1>12, <1>2, UnfoldAcqRel, Locks3 DEF s2
  <1> HIDE DEF p6
  <1>14. p7 \in Code /\ Cat(p7, <<>>) = Cat(p6, s1)
    BY <1>13, <1>2, UnfoldAcqRel, Locks3 DEF s1
  <1> HIDE DEF p7
  <1>15. Cat(p7, <<>>) = p7
    BY <1>14, Assoc
  <1> QED BY <1>1, <1>8, <1>9, <1>10, <1>11, <1>12, <1>13, <1>14, <1>15

TickThen(s) ==
    Acq("ticks", Acq("ptable", Cons(<<"wakeup">>, Rel("ptable", Rel("ticks", s)))))
HandleThen(t, s) ==
    IF t \in Proc THEN YieldThen(Cons(<<"iret">>, s)) ELSE Cons(<<"iret">>, s)
TrapThen(c, t, s) ==
    IF c = 0 THEN TickThen(HandleThen(t, s)) ELSE HandleThen(t, s)

LEMMA UnfoldTrap ==
    ASSUME NEW c, NEW t, NEW s \in Code
    PROVE  trap(c, t) \o s = TrapThen(c, t, s)
  <1> DEFINE p1 == acquire("ticks")
             p2 == Cat(p1, acquire("ptable"))
             p3 == Cat(p2, <<<<"wakeup">>>>)
             p4 == Cat(p3, release("ptable"))
             p5 == Cat(p4, release("ticks"))
             X == IF c = 0 THEN p5 ELSE <<>>
             Y == IF t \in Proc THEN yield ELSE <<>>
             b == Cons(<<"iret">>, s)
             h == HandleThen(t, s)
             s1 == Rel("ticks", h)
             s2 == Rel("ptable", s1)
             s3 == Cons(<<"wakeup">>, s2)
             s4 == Acq("ptable", s3)
  <1>1. trap(c, t) \o s = Cat(Cat(Cat(X, Y), <<<<"iret">>>>), s)
    BY DEF trap, CountTick, GiveUpCpu, Cat
  <1>2. <<"iret">> \in Instr /\ <<"wakeup">> \in Instr /\ <<>> \in Code
    BY InstrMake, EmptyFacts
  <1>3. yield \in Code /\ b \in Code
    BY <1>2, UnfoldYield, ConsSeq
  <1>4. Y \in Code /\ Cat(Y, b) = h
    BY <1>2, <1>3, UnfoldYield, Assoc DEF HandleThen
  <1>5. h \in Code
    BY <1>3, <1>4, Assoc
  <1> HIDE DEF h, Y, b
  <1>6. s1 \in Code BY <1>5, UnfoldAcqRel, Locks3
  <1>7. s2 \in Code BY <1>6, UnfoldAcqRel, Locks3
  <1>8. s3 \in Code BY <1>7, <1>2, ConsSeq
  <1>9. s4 \in Code BY <1>8, UnfoldAcqRel, Locks3
  <1>10. TickThen(h) = Acq("ticks", s4)
    BY DEF TickThen
  <1> HIDE DEF s1, s2, s3, s4
  <1>11. p1 \in Code /\ Cat(p1, s4) = TickThen(h)
    BY <1>9, <1>10, UnfoldCalls, Locks3
  <1> HIDE DEF p1
  <1>12. p2 \in Code /\ Cat(p2, s3) = Cat(p1, s4)
    BY <1>11, <1>8, UnfoldAcqRel, Locks3 DEF s4
  <1> HIDE DEF p2
  <1>13. p3 \in Code /\ Cat(p3, s2) = Cat(p2, s3)
    BY <1>12, <1>7, <1>2, UnfoldOne DEF s3
  <1> HIDE DEF p3
  <1>14. p4 \in Code /\ Cat(p4, s1) = Cat(p3, s2)
    BY <1>13, <1>6, UnfoldAcqRel, Locks3 DEF s2
  <1> HIDE DEF p4
  <1>15. p5 \in Code /\ Cat(p5, h) = Cat(p4, s1)
    BY <1>14, <1>5, UnfoldAcqRel, Locks3 DEF s1
  <1> HIDE DEF p5
  <1>16. X \in Code /\ Cat(X, h) = IF c = 0 THEN TickThen(h) ELSE h
    BY <1>2, <1>5, <1>11, <1>12, <1>13, <1>14, <1>15, Assoc
  <1> HIDE DEF X
  <1>17. Cat(X, Y) \in Code /\ Cat(Cat(X, Y), b) = Cat(X, h)
    BY <1>3, <1>4, <1>5, <1>16, Then
  <1>18. Cat(Cat(Cat(X, Y), <<<<"iret">>>>), s) = Cat(Cat(X, Y), b)
    BY <1>17, <1>2, UnfoldOne DEF b
  <1> QED BY <1>1, <1>16, <1>17, <1>18 DEF TrapThen, h

AllocThen(t, s) ==
    Cons(<<"iflock">>, Cons(<<"head", t>>, Cons(<<"ifunlock">>, s)))
FreeThen(v, s) ==
    Cons(<<"iflock">>, Cons(<<"link", v>>, Cons(<<"push", v>>,
        Cons(<<"ifunlock">>, s))))
StartThen(q, s) == Acq("ptable", Cons(<<"start", q>>, Rel("ptable", s)))

LEMMA UnfoldFork ==
    ASSUME NEW q \in Proc
    PROVE  /\ fork(q) \in Code /\ fork(q) = AllocThen(0, StartThen(q, <<>>))
           /\ userinit = fork(initproc)
  <1> DEFINE a == <<"start", q>>
             p1 == kalloc(0)
             p2 == Cat(p1, acquire("ptable"))
             p3 == Cat(p2, <<a>>)
             p4 == Cat(p3, release("ptable"))
             s1 == Rel("ptable", <<>>)
             s2 == Cons(a, s1)
             s3 == Acq("ptable", s2)
  <1>0. a \in Instr /\ 0 \in Thread /\ <<>> \in Code
    BY InstrMake, ThreadFacts, EmptyFacts
  <1>1. fork(q) = p4 /\ StartThen(q, <<>>) = s3 /\ userinit = fork(initproc)
    BY DEF fork, allocproc, StartThen, Cat, userinit
  <1> HIDE DEF a
  <1>2. s1 \in Code BY <1>0, UnfoldAcqRel, Locks3
  <1>3. s2 \in Code BY <1>2, <1>0, ConsSeq
  <1>4. s3 \in Code BY <1>3, UnfoldAcqRel, Locks3
  <1> HIDE DEF s1, s2, s3
  <1>5. p1 \in Code /\ Cat(p1, s3) = AllocThen(0, s3)
    BY <1>0, <1>4, UnfoldCalls DEF AllocThen
  <1> HIDE DEF p1
  <1>6. p2 \in Code /\ Cat(p2, s2) = Cat(p1, s3)
    BY <1>5, <1>3, UnfoldAcqRel, Locks3 DEF s3
  <1> HIDE DEF p2
  <1>7. p3 \in Code /\ Cat(p3, s1) = Cat(p2, s2)
    BY <1>6, <1>2, <1>0, UnfoldOne DEF s2
  <1> HIDE DEF p3
  <1>8. p4 \in Code /\ Cat(p4, <<>>) = Cat(p3, s1)
    BY <1>7, <1>0, UnfoldAcqRel, Locks3 DEF s1
  <1> HIDE DEF p4
  <1>9. Cat(p4, <<>>) = p4
    BY <1>8, Assoc
  <1> QED BY <1>1, <1>5, <1>6, <1>7, <1>8, <1>9

LEMMA UnfoldForkret == forkret = Rel("ptable", Cons(<<"trapret">>, <<>>))
  <1> DEFINE a == <<"trapret">>
             p == release("ptable")
  <1>1. a \in Instr /\ <<>> \in Code /\ p \in Code
    BY InstrMake, EmptyFacts, UnfoldCalls, Locks3
  <1>2. forkret = Cat(p, <<a>>)
    BY DEF forkret, Cat
  <1> HIDE DEF a
  <1>3. /\ Cat(p, <<a>>) \in Code /\ Cons(a, <<>>) \in Code
        /\ Cat(Cat(p, <<a>>), <<>>) = Cat(p, Cons(a, <<>>))
    BY <1>1, UnfoldOne
  <1>4. Cat(p, Cons(a, <<>>)) = Rel("ptable", Cons(a, <<>>))
    BY <1>3, UnfoldCalls, Locks3
  <1>5. Cat(Cat(p, <<a>>), <<>>) = Cat(p, <<a>>)
    BY <1>3, Assoc
  <1>6. forkret = Rel("ptable", Cons(a, <<>>))
    BY <1>2, <1>3, <1>4, <1>5
  <1> QED BY <1>6 DEF a

LEMMA UnfoldMem ==
    /\ \A t \in Thread : kalloc(t) = AllocThen(t, <<>>)
    /\ \A v \in Page : kfree(v) = FreeThen(v, <<>>)
  <1>1. <<>> \in Code
    BY EmptyFacts
  <1>2. /\ \A t \in Thread : kalloc(t) \in Code /\ Cat(kalloc(t), <<>>) = AllocThen(t, <<>>)
        /\ \A v \in Page : kfree(v) \in Code /\ Cat(kfree(v), <<>>) = FreeThen(v, <<>>)
    BY <1>1, UnfoldCalls DEF AllocThen, FreeThen
  <1> QED BY <1>2, Assoc

LEMMA UnfoldFreeRange ==
    ASSUME NEW v \in Page, NEW A \in SUBSET Page, NEW s \in Code
    PROVE  kfree(v) \o <<<<"freerange", A>>>> \o s = FreeThen(v, Cons(<<"freerange", A>>, s))
  <1> DEFINE a == <<"freerange", A>>
             p == kfree(v)
  <1>1. a \in Instr /\ p \in Code
    BY InstrMake, UnfoldCalls
  <1>2. kfree(v) \o <<<<"freerange", A>>>> \o s = Cat(Cat(p, <<a>>), s)
    BY DEF Cat
  <1> HIDE DEF a
  <1>3. Cons(a, s) \in Code /\ Cat(Cat(p, <<a>>), s) = Cat(p, Cons(a, s))
    BY <1>1, UnfoldOne
  <1>4. Cat(p, Cons(a, s)) = FreeThen(v, Cons(a, s))
    BY <1>3, UnfoldCalls DEF FreeThen
  <1>5. kfree(v) \o <<<<"freerange", A>>>> \o s = FreeThen(v, Cons(a, s))
    BY <1>2, <1>3, <1>4
  <1> QED BY <1>5 DEF a

LEMMA UnfoldStartOthers ==
    ASSUME NEW d \in CPU, d + 1 \in 1 .. NCPU, NEW s \in Code
    PROVE  kalloc(0) \o <<<<"startap", d>>, <<"started", d>>, <<"startothers", d + 1>>>> \o s
             = AllocThen(0, Cons(<<"startap", d>>, Cons(<<"started", d>>,
                              Cons(<<"startothers", d + 1>>, s))))
  <1> DEFINE a == <<"startap", d>>
             b == <<"started", d>>
             e == <<"startothers", d + 1>>
             p == kalloc(0)
             q == <<a, b, e>>
             w == Cons(a, Cons(b, Cons(e, s)))
  <1>1. a \in Instr /\ b \in Instr /\ e \in Instr /\ p \in Code
    BY InstrMake, UnfoldCalls, ThreadFacts
  <1>2. kalloc(0) \o <<<<"startap", d>>, <<"started", d>>, <<"startothers", d + 1>>>> \o s
          = Cat(Cat(p, q), s)
    BY DEF Cat
  <1> HIDE DEF a, b, e, p
  <1>3. q \in Code
    BY <1>1 DEF Code
  <1>4. Cat(q, s) = w
    BY <1>1, Unfold
  <1>5. w \in Code
    BY <1>1, ConsSeq
  <1> HIDE DEF q, w
  <1>6. Cat(Cat(p, q), s) = Cat(p, w)
    BY <1>1, <1>3, <1>4, <1>5, Then
  <1>7. Cat(p, w) = AllocThen(0, w)
    BY <1>5, UnfoldCalls, ThreadFacts DEF AllocThen, p
  <1>8. kalloc(0) \o <<<<"startap", d>>, <<"started", d>>, <<"startothers", d + 1>>>> \o s
          = AllocThen(0, w)
    BY <1>2, <1>6, <1>7
  <1> QED BY <1>8 DEF a, b, e, w

MainProg(late) ==
    Cons(<<"freerange", Early>>, AllocThen(0, Cons(<<"startothers", 1>>,
        Cons(<<"freerange", late>>, Cons(<<"uselock">>,
            AllocThen(0, StartThen(initproc, <<>>)))))))

LEMMA UnfoldMain ==
    ASSUME NEW late \in SUBSET Page
    PROVE  main(late) = MainProg(late)
  <1> DEFINE a == <<"freerange", Early>>
             b == <<"startothers", 1>>
             d == <<"freerange", late>>
             e == <<"uselock">>
             p1 == <<a>>
             p2 == Cat(p1, kalloc(0))
             p3 == Cat(p2, <<b>>)
             q == <<d, e>>
             p4 == Cat(p3, q)
             u == userinit
             s2 == Cons(d, Cons(e, u))
             s3 == Cons(b, s2)
             s4 == AllocThen(0, s3)
  <1>1. a \in Instr /\ b \in Instr /\ d \in Instr /\ e \in Instr
    <2>1. Early \in SUBSET Page /\ 1 \in 1 .. NCPU
      BY KmemAssumption DEF Page
    <2> QED BY <2>1, InstrMake
  <1>2. u \in Code /\ u = AllocThen(0, StartThen(initproc, <<>>))
    BY UnfoldFork, ThreadFacts
  <1>3. main(late) = Cat(p4, u)
    BY DEF main, Cat
  <1> HIDE DEF u
  <1>4. MainProg(late) = Cons(a, s4)
    BY <1>2 DEF MainProg
  <1> HIDE DEF a, b, d, e
  <1>5. q \in Code
    BY <1>1 DEF Code
  <1>6. Cat(q, u) = s2 /\ s2 \in Code
    BY <1>1, <1>2, Unfold, ConsSeq
  <1> HIDE DEF q, s2
  <1>7. s3 \in Code
    BY <1>6, <1>1, ConsSeq
  <1> HIDE DEF s3
  <1>8. kalloc(0) \in Code /\ Cat(kalloc(0), s3) = s4
    BY <1>7, UnfoldCalls, ThreadFacts DEF AllocThen
  <1> HIDE DEF s4
  <1>9. s4 \in Code
    BY <1>7, <1>8, Assoc
  <1>10. p1 \in Code /\ Cat(p1, s4) = Cons(a, s4)
    BY <1>1, <1>9, UnfoldCalls
  <1> HIDE DEF p1
  <1>11. p2 \in Code /\ Cat(p2, s3) = Cat(p1, s4)
    BY <1>10, <1>8, <1>7, <1>9, Then
  <1> HIDE DEF p2
  <1>12. p3 \in Code /\ Cat(p3, s2) = Cat(p2, s3)
    BY <1>11, <1>6, <1>1, UnfoldOne DEF s3
  <1> HIDE DEF p3
  <1>13. Cat(p4, u) = Cat(p3, s2)
    BY <1>12, <1>5, <1>6, <1>2, Then
  <1> QED BY <1>3, <1>4, <1>10, <1>11, <1>12, <1>13

(***************************************************************************)
(* What is known of a program once its end is known                        *)
(***************************************************************************)
LEMMA ConsOK ==
    ASSUME NEW t, NEW x \in Instr, NEW s, CodeOK(t, s), Fits(x, s), Mine(t, x)
    PROVE  CodeOK(t, Cons(x, s))
  BY ConsSeq, ConsElems, ConsWF DEF CodeOK

LEMMA UnconsOK ==
    ASSUME NEW t, NEW s, CodeOK(t, s), s # <<>>
    PROVE  /\ Head(s) \in Instr /\ Fits(Head(s), Tail(s)) /\ Mine(t, Head(s))
           /\ CodeOK(t, Tail(s)) /\ s = Cons(Head(s), Tail(s))
           /\ Elems(s) = {Head(s)} \cup Elems(Tail(s))
           /\ \A op : Has(s, op) <=> Head(s)[1] = op \/ Has(Tail(s), op)
           /\ \A l : In(s, l) <=> \/ Leaves(Head(s), l)
                                  \/ ~Enters(Head(s), l) /\ In(Tail(s), l)
  <1>1. Head(s) \in Instr /\ Tail(s) \in Code /\ s = Cons(Head(s), Tail(s)) /\ s \in Code
    BY Uncons DEF CodeOK
  <1>2. PICK x \in Instr : x = Head(s)
    BY <1>1
  <1>3. PICK r \in Code : r = Tail(s)
    BY <1>1
  <1>4. s = Cons(x, r)
    BY <1>1, <1>2, <1>3
  <1>5. Elems(s) = {x} \cup Elems(r)
    BY <1>4, ConsElems
  <1>6. Fits(x, r) /\ WF(r)
    BY <1>4, ConsWF DEF CodeOK
  <1>7. \A op : Has(s, op) <=> x[1] = op \/ Has(r, op)
    BY <1>4, ConsHas
  <1>8. \A l : In(s, l) <=> Leaves(x, l) \/ (~Enters(x, l) /\ In(r, l))
    BY <1>4, ConsIn
  <1>9. Mine(t, x) /\ CodeOK(t, r)
    BY <1>5, <1>6, <1>3 DEF CodeOK
  <1> QED BY <1>2, <1>3, <1>4, <1>5, <1>6, <1>7, <1>8, <1>9

LEMMA EmptyOK == \A t : CodeOK(t, <<>>) /\ Free(<<>>) /\ Plain(<<>>) /\ Own(<<>>)
                        /\ NoKmem(<<>>)
  BY EmptyFacts DEF CodeOK, Free, Plain, Own, NoKmem

LEMMA AcqOK ==
    ASSUME NEW t, NEW l \in Lock, NEW s, CodeOK(t, s), Plain(s), In(s, l),
           l = "kmem" => t = 0 \/ t \in Proc
    PROVE  /\ CodeOK(t, Acq(l, s)) /\ Plain(Acq(l, s))
           /\ \A k : In(Acq(l, s), k) <=> k # l /\ In(s, k)
           /\ \A op : HeadIs(Acq(l, s), op) <=> op = "pushcli"
           /\ \A op : op \notin LockOp => (Has(Acq(l, s), op) <=> Has(s, op))
           /\ Elems(Acq(l, s)) = {<<"pushcli", l>>, <<"xchg", l>>} \cup Elems(s)
  <1> DEFINE a == <<"pushcli", l>>
             b == <<"xchg", l>>
             r == Cons(b, s)
             w == Cons(a, r)
  <1>1. a \in Instr /\ b \in Instr /\ s \in Code
    BY InstrMake DEF LockOp, CodeOK
  <1>2. a[1] = "pushcli" /\ a[2] = l /\ b[1] = "xchg" /\ b[2] = l
    OBVIOUS
  <1> HIDE DEF a, b
  <1>3. Frees(a) = {} /\ Frees(b) = {}
    BY <1>2 DEF Frees
  <1>4. Mine(t, a) /\ Mine(t, b)
    BY <1>2 DEF Mine, MainOp, ListOp, LockOp
  <1>5. Fits(b, s)
    BY <1>2, <1>3 DEF Fits, MainOp, ListOp
  <1>6. CodeOK(t, r)
    BY <1>1, <1>4, <1>5, ConsOK
  <1>7. r \in Code /\ r # <<>> /\ Head(r) = b /\ Elems(r) = {b} \cup Elems(s)
    BY <1>1, ConsSeq, ConsElems
  <1>8. /\ \A op : HeadIs(r, op) <=> b[1] = op
        /\ \A op : Has(r, op) <=> b[1] = op \/ Has(s, op)
        /\ \A k : In(r, k) <=> Leaves(b, k) \/ (~Enters(b, k) /\ In(s, k))
    BY <1>1, ConsHas, ConsIn
  <1> HIDE DEF r
  <1>9. Fits(a, r)
    BY <1>2, <1>3, <1>7, <1>8 DEF Fits, MainOp, ListOp, Pair
  <1>10. CodeOK(t, w)
    BY <1>1, <1>4, <1>6, <1>9, ConsOK
  <1>11. /\ \A op : HeadIs(w, op) <=> a[1] = op
         /\ \A op : Has(w, op) <=> a[1] = op \/ Has(r, op)
         /\ \A k : In(w, k) <=> Leaves(a, k) \/ (~Enters(a, k) /\ In(r, k))
         /\ Elems(w) = {a} \cup Elems(r)
    BY <1>1, <1>7, ConsHas, ConsIn, ConsElems
  <1> HIDE DEF w
  <1>12. Plain(w) /\ \A op : HeadIs(w, op) <=> op = "pushcli"
    BY <1>11, <1>2 DEF Plain
  <1>13. \A k : In(w, k) <=> k # l /\ In(s, k)
    BY <1>8, <1>11, <1>2 DEF Leaves, Enters
  <1>14. \A op : op \notin LockOp => (Has(w, op) <=> Has(s, op))
    BY <1>8, <1>11, <1>2 DEF LockOp
  <1> QED BY <1>10, <1>12, <1>13, <1>14, <1>11, <1>7 DEF Acq, a, b, r, w

LEMMA RelOK ==
    ASSUME NEW t, NEW l \in Lock, NEW s, CodeOK(t, s), Plain(s), ~In(s, l),
           ~In(s, "kmem"), l = "kmem" => t = 0 \/ t \in Proc
    PROVE  /\ CodeOK(t, Rel(l, s)) /\ Plain(Rel(l, s))
           /\ \A k : In(Rel(l, s), k) <=> k = l \/ In(s, k)
           /\ \A op : HeadIs(Rel(l, s), op) <=> op = "disown"
           /\ \A op : op \notin LockOp => (Has(Rel(l, s), op) <=> Has(s, op))
           /\ Elems(Rel(l, s)) = {<<"disown", l>>, <<"unlock", l>>} \cup Elems(s)
  <1> DEFINE a == <<"disown", l>>
             b == <<"unlock", l>>
             r == Cons(b, s)
             w == Cons(a, r)
  <1>1. a \in Instr /\ b \in Instr /\ s \in Code
    BY InstrMake DEF LockOp, CodeOK
  <1>2. a[1] = "disown" /\ a[2] = l /\ b[1] = "unlock" /\ b[2] = l
    OBVIOUS
  <1> HIDE DEF a, b
  <1>3. Frees(a) = {} /\ Frees(b) = {}
    BY <1>2 DEF Frees
  <1>4. Mine(t, a) /\ Mine(t, b)
    BY <1>2 DEF Mine, MainOp, ListOp, LockOp
  <1>5. Fits(b, s)
    BY <1>2, <1>3 DEF Fits, MainOp, ListOp
  <1>6. CodeOK(t, r)
    BY <1>1, <1>4, <1>5, ConsOK
  <1>7. r \in Code /\ r # <<>> /\ Head(r) = b /\ Elems(r) = {b} \cup Elems(s)
    BY <1>1, ConsSeq, ConsElems
  <1>8. /\ \A op : HeadIs(r, op) <=> b[1] = op
        /\ \A op : Has(r, op) <=> b[1] = op \/ Has(s, op)
        /\ \A k : In(r, k) <=> Leaves(b, k) \/ (~Enters(b, k) /\ In(s, k))
    BY <1>1, ConsHas, ConsIn
  <1> HIDE DEF r
  <1>9. Fits(a, r)
    BY <1>2, <1>3, <1>7, <1>8 DEF Fits, MainOp, ListOp, Pair
  <1>10. CodeOK(t, w)
    BY <1>1, <1>4, <1>6, <1>9, ConsOK
  <1>11. /\ \A op : HeadIs(w, op) <=> a[1] = op
         /\ \A op : Has(w, op) <=> a[1] = op \/ Has(r, op)
         /\ \A k : In(w, k) <=> Leaves(a, k) \/ (~Enters(a, k) /\ In(r, k))
         /\ Elems(w) = {a} \cup Elems(r)
    BY <1>1, <1>7, ConsHas, ConsIn, ConsElems
  <1> HIDE DEF w
  <1>12. Plain(w) /\ \A op : HeadIs(w, op) <=> op = "disown"
    BY <1>11, <1>2 DEF Plain
  <1>13. \A k : In(w, k) <=> k = l \/ In(s, k)
    BY <1>8, <1>11, <1>2 DEF Leaves, Enters
  <1>14. \A op : op \notin LockOp => (Has(w, op) <=> Has(s, op))
    BY <1>8, <1>11, <1>2 DEF LockOp
  <1> QED BY <1>10, <1>12, <1>13, <1>14, <1>11, <1>7 DEF Rel, a, b, r, w

\* An instruction that has nothing to do with a lock and frees nothing.
LEMMA OneOK ==
    ASSUME NEW t, NEW x \in Instr, NEW s, CodeOK(t, s), Fits(x, s), Mine(t, x),
           x[1] \notin LockOp, x[1] \notin {"iflock", "ifunlock"}
    PROVE  /\ CodeOK(t, Cons(x, s))
           /\ \A k : In(Cons(x, s), k) <=> In(s, k)
           /\ \A op : HeadIs(Cons(x, s), op) <=> x[1] = op
           /\ \A op : Has(Cons(x, s), op) <=> x[1] = op \/ Has(s, op)
           /\ Elems(Cons(x, s)) = {x} \cup Elems(s)
           /\ x[1] \notin {"push", "take"} => Plain(Cons(x, s))
  <1>1. s \in Code
    BY DEF CodeOK
  <1>2. CodeOK(t, Cons(x, s))
    BY ConsOK
  <1>3. /\ \A op : HeadIs(Cons(x, s), op) <=> x[1] = op
        /\ \A op : Has(Cons(x, s), op) <=> x[1] = op \/ Has(s, op)
        /\ \A k : In(Cons(x, s), k) <=> Leaves(x, k) \/ (~Enters(x, k) /\ In(s, k))
        /\ Elems(Cons(x, s)) = {x} \cup Elems(s)
    BY <1>1, ConsHas, ConsIn, ConsElems
  <1>4. \A k : ~Leaves(x, k) /\ ~Enters(x, k)
    BY DEF Leaves, Enters, LockOp
  <1>5. x[1] \notin {"push", "take"} => Plain(Cons(x, s))
    BY <1>3 DEF Plain, LockOp
  <1> QED BY <1>2, <1>3, <1>4, <1>5

\* The instruction has no place in what main does before uselock, starts no
\* process and does not touch the page allocator.
Quiet(x) == /\ x[1] \notin MainOp /\ x[1] # "start"
            /\ x[1] \in LockOp => x[2] # "kmem"

LEMMA QuietFrees == \A x : Quiet(x) => Frees(x) = {}
  BY DEF Quiet, Frees, MainOp, ListOp

LEMMA QuietLock ==
    \A op \in LockOp, l \in Lock : l # "kmem" => Quiet(<<op, l>>)
  BY DEF Quiet, MainOp, ListOp, LockOp

LEMMA AcqQuiet ==
    ASSUME NEW l \in Lock, l # "kmem"
    PROVE  /\ Quiet(<<"pushcli", l>>) /\ Quiet(<<"xchg", l>>)
           /\ Quiet(<<"disown", l>>) /\ Quiet(<<"unlock", l>>)
  BY QuietLock DEF LockOp

LEMMA SchedulerOK ==
    ASSUME NEW c \in CPU
    PROVE  /\ CodeOK(c, scheduler) /\ Free(scheduler) /\ Plain(scheduler)
           /\ ~Has(scheduler, "iret") /\ \A x \in Elems(scheduler) : Quiet(x)
           /\ \A op : HeadIs(scheduler, op) <=> op = "pushcli"
  <1> DEFINE a == <<"pick">>
             s1 == Rel("ptable", <<>>)
             s2 == Cons(a, s1)
             s3 == Acq("ptable", s2)
  <1>1. a \in Instr /\ a[1] = "pick"
    BY InstrMake
  <1> HIDE DEF a
  <1>2. /\ CodeOK(c, s1) /\ Plain(s1) /\ ~Has(s1, "iret")
        /\ \A k : In(s1, k) <=> k = "ptable"
        /\ \A x \in Elems(s1) : Quiet(x)
    <2>1. /\ CodeOK(c, <<>>) /\ Plain(<<>>) /\ Elems(<<>>) = {}
          /\ (\A k : ~In(<<>>, k)) /\ ~Has(<<>>, "iret")
      BY EmptyOK, EmptyFacts
    <2>2. /\ CodeOK(c, s1) /\ Plain(s1) /\ ~Has(s1, "iret")
          /\ \A k : In(s1, k) <=> k = "ptable"
          /\ Elems(s1) = {<<"disown", "ptable">>, <<"unlock", "ptable">>} \cup Elems(<<>>)
      BY <2>1, RelOK, Locks3 DEF LockOp
    <2> QED BY <2>1, <2>2, Locks3, AcqQuiet
  <1> HIDE DEF s1
  <1>3. Fits(a, s1) /\ Mine(c, a) /\ Quiet(a) /\ a[1] \notin LockOp
    <2>1. Frees(a) = {}
      BY <1>1 DEF Frees
    <2> QED BY <1>1, <1>2, <2>1, ThreadFacts DEF Fits, Only, MainOp, ListOp, LockOp, Mine, Quiet
  <1>4. /\ CodeOK(c, s2) /\ Plain(s2) /\ ~Has(s2, "iret")
        /\ \A k : In(s2, k) <=> k = "ptable"
        /\ Elems(s2) = {a} \cup Elems(s1)
    BY <1>1, <1>2, <1>3, OneOK
  <1> HIDE DEF s2
  <1>5. /\ CodeOK(c, s3) /\ Plain(s3) /\ ~Has(s3, "iret")
        /\ \A k : ~In(s3, k)
        /\ \A op : HeadIs(s3, op) <=> op = "pushcli"
        /\ Elems(s3) = {<<"pushcli", "ptable">>, <<"xchg", "ptable">>} \cup Elems(s2)
    BY <1>4, AcqOK, Locks3 DEF LockOp
  <1>6. scheduler = s3
    BY UnfoldScheduler DEF a, s1, s2
  <1> HIDE DEF s3
  <1>7. \A x \in Elems(s3) : Quiet(x)
    BY <1>2, <1>3, <1>4, <1>5, Locks3, AcqQuiet
  <1> QED BY <1>5, <1>6, <1>7 DEF Free

\* yield, before code that is in no section.
LEMMA YieldOK ==
    ASSUME NEW t \in Proc, NEW s, CodeOK(t, s), Plain(s), Free(s)
    PROVE  /\ CodeOK(t, YieldThen(s)) /\ Plain(YieldThen(s)) /\ Free(YieldThen(s))
           /\ \A op : HeadIs(YieldThen(s), op) <=> op = "pushcli"
           /\ \A op \in {"iret", "trapret"} : Has(YieldThen(s), op) <=> Has(s, op)
           /\ \A x \in Elems(YieldThen(s)) : Quiet(x) \/ x \in Elems(s)
           /\ Elems(s) \subseteq Elems(YieldThen(s))
  <1> DEFINE a == <<"sched", "RUNNABLE">>
             s1 == Rel("ptable", s)
             s2 == Cons(a, s1)
             s3 == Acq("ptable", s2)
  <1>0. a \in Instr /\ a[1] = "sched"
    BY InstrMake
  <1>1. YieldThen(s) = s3
    BY DEF YieldThen
  <1> HIDE DEF a
  <1>2. /\ CodeOK(t, s1) /\ Plain(s1) /\ \A k \in Lock : In(s1, k) <=> k = "ptable"
        /\ \A op : op \notin LockOp => (Has(s1, op) <=> Has(s, op))
        /\ Elems(s1) = {<<"disown", "ptable">>, <<"unlock", "ptable">>} \cup Elems(s)
    BY RelOK, Locks3 DEF Free
  <1> HIDE DEF s1
  <1>3. Fits(a, s1) /\ Mine(t, a) /\ Quiet(a) /\ a[1] \notin LockOp
    <2>1. Frees(a) = {}
      BY <1>0 DEF Frees
    <2> QED BY <1>0, <1>2, <2>1 DEF Fits, Only, MainOp, ListOp, LockOp, Mine, Quiet
  <1>4. /\ CodeOK(t, s2) /\ Plain(s2) /\ \A k \in Lock : In(s2, k) <=> k = "ptable"
        /\ \A op : Has(s2, op) <=> a[1] = op \/ Has(s1, op)
        /\ Elems(s2) = {a} \cup Elems(s1)
    BY <1>0, <1>2, <1>3, OneOK
  <1> HIDE DEF s2
  <1>5. /\ CodeOK(t, s3) /\ Plain(s3) /\ \A k \in Lock : ~In(s3, k)
        /\ \A op : HeadIs(s3, op) <=> op = "pushcli"
        /\ \A op : op \notin LockOp => (Has(s3, op) <=> Has(s2, op))
        /\ Elems(s3) = {<<"pushcli", "ptable">>, <<"xchg", "ptable">>} \cup Elems(s2)
    BY <1>4, AcqOK, Locks3
  <1> HIDE DEF s3
  <1>6. \A op \in {"iret", "trapret"} : Has(s3, op) <=> Has(s, op)
    BY <1>0, <1>2, <1>4, <1>5 DEF LockOp
  <1>7. \A x \in Elems(s3) : Quiet(x) \/ x \in Elems(s)
    BY <1>2, <1>3, <1>4, <1>5, Locks3, AcqQuiet
  <1>8. Elems(s) \subseteq Elems(s3)
    BY <1>2, <1>4, <1>5
  <1> QED BY <1>1, <1>5, <1>6, <1>7, <1>8 DEF Free

LEMMA TickOK ==
    ASSUME NEW t, NEW s, CodeOK(t, s), Plain(s), Free(s)
    PROVE  /\ CodeOK(t, TickThen(s)) /\ Plain(TickThen(s)) /\ Free(TickThen(s))
           /\ \A op : HeadIs(TickThen(s), op) <=> op = "pushcli"
           /\ \A op \in {"iret", "trapret"} : Has(TickThen(s), op) <=> Has(s, op)
           /\ \A x \in Elems(TickThen(s)) : Quiet(x) \/ x \in Elems(s)
           /\ Elems(s) \subseteq Elems(TickThen(s))
  <1> DEFINE a == <<"wakeup">>
             s1 == Rel("ticks", s)
             s2 == Rel("ptable", s1)
             s3 == Cons(a, s2)
             s4 == Acq("ptable", s3)
             s5 == Acq("ticks", s4)
  <1>0. a \in Instr /\ a[1] = "wakeup"
    BY InstrMake
  <1>1. TickThen(s) = s5
    BY DEF TickThen
  <1> HIDE DEF a
  <1>2. /\ CodeOK(t, s1) /\ Plain(s1) /\ \A k \in Lock : In(s1, k) <=> k = "ticks"
        /\ \A op : op \notin LockOp => (Has(s1, op) <=> Has(s, op))
        /\ Elems(s1) = {<<"disown", "ticks">>, <<"unlock", "ticks">>} \cup Elems(s)
    BY RelOK, Locks3 DEF Free
  <1> HIDE DEF s1
  <1>3. /\ CodeOK(t, s2) /\ Plain(s2)
        /\ \A k \in Lock : In(s2, k) <=> k = "ptable" \/ k = "ticks"
        /\ \A op : op \notin LockOp => (Has(s2, op) <=> Has(s1, op))
        /\ Elems(s2) = {<<"disown", "ptable">>, <<"unlock", "ptable">>} \cup Elems(s1)
    BY <1>2, RelOK, Locks3
  <1> HIDE DEF s2
  <1>4. Fits(a, s2) /\ Mine(t, a) /\ Quiet(a) /\ a[1] \notin LockOp
    <2>1. Frees(a) = {}
      BY <1>0 DEF Frees
    <2> QED BY <1>0, <1>3, <2>1 DEF Fits, MainOp, ListOp, LockOp, Mine, Quiet
  <1>5. /\ CodeOK(t, s3) /\ Plain(s3)
        /\ \A k \in Lock : In(s3, k) <=> k = "ptable" \/ k = "ticks"
        /\ \A op : Has(s3, op) <=> a[1] = op \/ Has(s2, op)
        /\ Elems(s3) = {a} \cup Elems(s2)
    BY <1>0, <1>3, <1>4, OneOK
  <1> HIDE DEF s3
  <1>6. /\ CodeOK(t, s4) /\ Plain(s4) /\ \A k \in Lock : In(s4, k) <=> k = "ticks"
        /\ \A op : op \notin LockOp => (Has(s4, op) <=> Has(s3, op))
        /\ Elems(s4) = {<<"pushcli", "ptable">>, <<"xchg", "ptable">>} \cup Elems(s3)
    BY <1>5, AcqOK, Locks3
  <1> HIDE DEF s4
  <1>7. /\ CodeOK(t, s5) /\ Plain(s5) /\ \A k \in Lock : ~In(s5, k)
        /\ \A op : HeadIs(s5, op) <=> op = "pushcli"
        /\ \A op : op \notin LockOp => (Has(s5, op) <=> Has(s4, op))
        /\ Elems(s5) = {<<"pushcli", "ticks">>, <<"xchg", "ticks">>} \cup Elems(s4)
    BY <1>6, AcqOK, Locks3
  <1> HIDE DEF s5
  <1>8. \A op \in {"iret", "trapret"} : Has(s5, op) <=> Has(s, op)
    BY <1>0, <1>2, <1>3, <1>5, <1>6, <1>7 DEF LockOp
  <1>9. \A x \in Elems(s5) : Quiet(x) \/ x \in Elems(s)
    BY <1>2, <1>3, <1>4, <1>5, <1>6, <1>7, Locks3, AcqQuiet
  <1>10. Elems(s) \subseteq Elems(s5)
    BY <1>2, <1>3, <1>5, <1>6, <1>7
  <1> QED BY <1>1, <1>7, <1>8, <1>9, <1>10 DEF Free

\* The handler of the timer interrupt, before what it interrupts.
LEMMA TrapOK ==
    ASSUME NEW c, NEW t \in Thread, NEW s, CodeOK(t, s), Plain(s), Free(s), ~Has(s, "iret")
    PROVE  /\ CodeOK(t, TrapThen(c, t, s)) /\ Free(TrapThen(c, t, s))
           /\ Plain(TrapThen(c, t, s)) /\ ~HeadIs(TrapThen(c, t, s), "resume")
           /\ Has(TrapThen(c, t, s), "iret")
           /\ \A x \in Elems(TrapThen(c, t, s)) : Quiet(x) \/ x \in Elems(s)
           /\ Elems(s) \subseteq Elems(TrapThen(c, t, s))
  <1> DEFINE a == <<"iret">>
             r == Cons(a, s)
             h == HandleThen(t, s)
  <1>0. a \in Instr /\ a[1] = "iret"
    BY InstrMake
  <1>1. h = IF t \in Proc THEN YieldThen(r) ELSE r
    BY DEF HandleThen
  <1>2. TrapThen(c, t, s) = IF c = 0 THEN TickThen(h) ELSE h
    BY DEF TrapThen
  <1> HIDE DEF a, h
  <1>3. Fits(a, s) /\ Mine(t, a) /\ Quiet(a) /\ a[1] \notin LockOp
    <2>1. Frees(a) = {}
      BY <1>0 DEF Frees
    <2> QED BY <1>0, <2>1 DEF Fits, MainOp, ListOp, LockOp, Mine, Quiet
  <1>4. /\ CodeOK(t, r) /\ Plain(r) /\ Free(r) /\ Has(r, "iret") /\ ~HeadIs(r, "resume")
        /\ Elems(r) = {a} \cup Elems(s)
    BY <1>0, <1>3, OneOK DEF Free
  <1> HIDE DEF r
  <1>5. /\ CodeOK(t, h) /\ Plain(h) /\ Free(h) /\ Has(h, "iret") /\ ~HeadIs(h, "resume")
        /\ \A x \in Elems(h) : Quiet(x) \/ x \in Elems(s)
        /\ Elems(s) \subseteq Elems(h)
    <2>1. CASE t \in Proc
      BY <1>1, <1>3, <1>4, <2>1, YieldOK
    <2>2. CASE t \notin Proc
      BY <1>1, <1>3, <1>4, <2>2
    <2> QED BY <2>1, <2>2
  <1>6. CASE c = 0
    BY <1>2, <1>5, <1>6, TickOK
  <1>7. CASE c # 0
    BY <1>2, <1>5, <1>7
  <1> QED BY <1>6, <1>7

LEMMA SleepOK ==
    ASSUME NEW t \in Proc
    PROVE  /\ CodeOK(t, SleepProg) /\ Free(SleepProg) /\ Own(SleepProg)
           /\ \A op : HeadIs(SleepProg, op) <=> op = "pushcli"
           /\ \A x \in Elems(SleepProg) : Quiet(x)
  <1> DEFINE a == <<"sched", "SLEEPING">>
             s0 == <<>>
             s1 == Rel("ticks", s0)
             s2 == Acq("ticks", s1)
             s3 == Rel("ptable", s2)
             s4 == Cons(a, s3)
             s5 == Rel("ticks", s4)
             s6 == Acq("ptable", s5)
             s7 == Acq("ticks", s6)
  <1>0. a \in Instr /\ a[1] = "sched"
    BY InstrMake
  <1>1. SleepProg = s7
    BY DEF SleepProg
  <1> HIDE DEF a
  <1>2. /\ CodeOK(t, s0) /\ Plain(s0) /\ Elems(s0) = {} /\ \A k \in Lock : ~In(s0, k)
    BY EmptyOK, EmptyFacts
  <1> HIDE DEF s0
  <1>3. /\ CodeOK(t, s1) /\ Plain(s1) /\ \A k \in Lock : In(s1, k) <=> k = "ticks"
        /\ Elems(s1) = {<<"disown", "ticks">>, <<"unlock", "ticks">>} \cup Elems(s0)
    BY <1>2, RelOK, Locks3
  <1> HIDE DEF s1
  <1>4. /\ CodeOK(t, s2) /\ Plain(s2) /\ \A k \in Lock : ~In(s2, k)
        /\ Elems(s2) = {<<"pushcli", "ticks">>, <<"xchg", "ticks">>} \cup Elems(s1)
    BY <1>3, AcqOK, Locks3
  <1> HIDE DEF s2
  <1>5. /\ CodeOK(t, s3) /\ Plain(s3) /\ \A k \in Lock : In(s3, k) <=> k = "ptable"
        /\ Elems(s3) = {<<"disown", "ptable">>, <<"unlock", "ptable">>} \cup Elems(s2)
    BY <1>4, RelOK, Locks3
  <1> HIDE DEF s3
  <1>6. Fits(a, s3) /\ Mine(t, a) /\ Quiet(a) /\ a[1] \notin LockOp
    <2>1. Frees(a) = {}
      BY <1>0 DEF Frees
    <2> QED BY <1>0, <1>5, <2>1 DEF Fits, Only, MainOp, ListOp, LockOp, Mine, Quiet
  <1>7. /\ CodeOK(t, s4) /\ Plain(s4) /\ \A k \in Lock : In(s4, k) <=> k = "ptable"
        /\ Elems(s4) = {a} \cup Elems(s3)
    BY <1>0, <1>5, <1>6, OneOK
  <1> HIDE DEF s4
  <1>8. /\ CodeOK(t, s5) /\ Plain(s5)
        /\ \A k \in Lock : In(s5, k) <=> k = "ticks" \/ k = "ptable"
        /\ Elems(s5) = {<<"disown", "ticks">>, <<"unlock", "ticks">>} \cup Elems(s4)
    BY <1>7, RelOK, Locks3
  <1> HIDE DEF s5
  <1>9. /\ CodeOK(t, s6) /\ Plain(s6) /\ \A k \in Lock : In(s6, k) <=> k = "ticks"
        /\ Elems(s6) = {<<"pushcli", "ptable">>, <<"xchg", "ptable">>} \cup Elems(s5)
    BY <1>8, AcqOK, Locks3
  <1> HIDE DEF s6
  <1>10. /\ CodeOK(t, s7) /\ Plain(s7) /\ \A k \in Lock : ~In(s7, k)
         /\ \A op : HeadIs(s7, op) <=> op = "pushcli"
         /\ Elems(s7) = {<<"pushcli", "ticks">>, <<"xchg", "ticks">>} \cup Elems(s6)
    BY <1>9, AcqOK, Locks3
  <1> HIDE DEF s7
  <1>11. \A x \in Elems(s7) : Quiet(x) /\ (x[1] \in LockOp \/ x[1] = "sched")
    <2> DEFINE G(x) == Quiet(x) /\ (x[1] \in LockOp \/ x[1] = "sched")
    <2>1. \A l \in Lock : l # "kmem" =>
             /\ G(<<"pushcli", l>>) /\ G(<<"xchg", l>>)
             /\ G(<<"disown", l>>) /\ G(<<"unlock", l>>)
      BY AcqQuiet DEF LockOp
    <2>2. G(a)
      BY <1>0, <1>6
    <2> HIDE DEF G
    <2>3. \A x \in Elems(s7) : G(x)
      BY <2>1, <2>2, <1>2, <1>3, <1>4, <1>5, <1>7, <1>8, <1>9, <1>10, Locks3
    <2> QED BY <2>3 DEF G
  <1>12. Own(s7)
    BY <1>11 DEF Own, Has, LockOp
  <1> QED BY <1>1, <1>10, <1>11, <1>12 DEF Free

LEMMA ForkretOK ==
    ASSUME NEW t \in Proc
    PROVE  /\ CodeOK(t, forkret) /\ Parked(forkret)
           /\ \A x \in Elems(forkret) : Quiet(x)
  <1> DEFINE a == <<"trapret">>
             s0 == <<>>
             s1 == Cons(a, s0)
             s2 == Rel("ptable", s1)
  <1>0. a \in Instr /\ a[1] = "trapret"
    BY InstrMake
  <1>1. forkret = s2
    BY UnfoldForkret
  <1> HIDE DEF a
  <1>2. /\ CodeOK(t, s0) /\ Plain(s0) /\ Elems(s0) = {} /\ Free(s0) /\ ~Has(s0, "iret")
    BY EmptyOK, EmptyFacts
  <1> HIDE DEF s0
  <1>3. Fits(a, s0) /\ Mine(t, a) /\ Quiet(a) /\ a[1] \notin LockOp
    BY <1>0, <1>2 DEF Fits, MainOp, ListOp, LockOp, Mine, Quiet
  <1>4. /\ CodeOK(t, s1) /\ Plain(s1) /\ Free(s1) /\ Elems(s1) = {a} \cup Elems(s0)
        /\ \A op : Has(s1, op) <=> a[1] = op \/ Has(s0, op)
    BY <1>0, <1>2, <1>3, OneOK DEF Free
  <1> HIDE DEF s1
  <1>5. /\ CodeOK(t, s2) /\ \A k \in Lock : In(s2, k) <=> k = "ptable"
        /\ \A op : op \notin LockOp => (Has(s2, op) <=> Has(s1, op))
        /\ \A op : HeadIs(s2, op) <=> op = "disown"
        /\ Elems(s2) = {<<"disown", "ptable">>, <<"unlock", "ptable">>} \cup Elems(s1)
    BY <1>4, RelOK, Locks3 DEF Free
  <1> HIDE DEF s2
  <1>6. ~Has(s2, "iret") /\ Has(s2, "trapret")
    BY <1>0, <1>2, <1>4, <1>5 DEF LockOp
  <1>7. \A x \in Elems(s2) : Quiet(x)
    BY <1>2, <1>3, <1>4, <1>5, Locks3, AcqQuiet
  <1> QED BY <1>1, <1>5, <1>6, <1>7 DEF Parked, Only, Own

LEMMA IfUnlockOK ==
    ASSUME NEW t, t = 0 \/ t \in Proc, NEW s, CodeOK(t, s), Plain(s), ~In(s, "kmem"),
           HasMain(s) => HeadMain(s)
    PROVE  LET u == Cons(<<"ifunlock">>, s)
           IN  /\ CodeOK(t, u) /\ Plain(u) /\ HeadMain(u)
               /\ \A k : In(u, k) <=> k = "kmem" \/ In(s, k)
               /\ \A op : HeadIs(u, op) <=> op = "ifunlock"
               /\ \A op : Has(u, op) <=> op = "ifunlock" \/ Has(s, op)
               /\ Elems(u) = {<<"ifunlock">>} \cup Elems(s)
  <1> DEFINE a == <<"ifunlock">>
             u == Cons(a, s)
  <1>0. a \in Instr /\ a[1] = "ifunlock" /\ s \in Code
    BY InstrMake DEF CodeOK
  <1> SUFFICES /\ CodeOK(t, u) /\ Plain(u) /\ HeadMain(u)
               /\ \A k : In(u, k) <=> k = "kmem" \/ In(s, k)
               /\ \A op : HeadIs(u, op) <=> op = "ifunlock"
               /\ \A op : Has(u, op) <=> op = "ifunlock" \/ Has(s, op)
               /\ Elems(u) = {a} \cup Elems(s)
    OBVIOUS
  <1> HIDE DEF a
  <1>1. Fits(a, s) /\ Mine(t, a)
    <2>1. Frees(a) = {}
      BY <1>0 DEF Frees
    <2> QED BY <1>0, <2>1 DEF Fits, MainOp, ListOp, LockOp, Mine
  <1>2. CodeOK(t, u)
    BY <1>0, <1>1, ConsOK
  <1>3. /\ \A op : HeadIs(u, op) <=> a[1] = op
        /\ \A op : Has(u, op) <=> a[1] = op \/ Has(s, op)
        /\ \A k : In(u, k) <=> Leaves(a, k) \/ (~Enters(a, k) /\ In(s, k))
        /\ Elems(u) = {a} \cup Elems(s)
    BY <1>0, ConsHas, ConsIn, ConsElems
  <1> HIDE DEF u
  <1>4. \A k : In(u, k) <=> k = "kmem" \/ In(s, k)
    BY <1>0, <1>3 DEF Leaves, Enters
  <1>5. Plain(u) /\ HeadMain(u)
    BY <1>0, <1>3 DEF Plain, HeadMain, MainOp, ListOp
  <1> QED BY <1>0, <1>2, <1>3, <1>4, <1>5

LEMMA IfLockOK ==
    ASSUME NEW t, t = 0 \/ t \in Proc, NEW s, CodeOK(t, s), Plain(s), In(s, "kmem"),
           HasMain(s) => HeadMain(s)
    PROVE  LET u == Cons(<<"iflock">>, s)
           IN  /\ CodeOK(t, u) /\ Plain(u) /\ HeadMain(u)
               /\ \A k : In(u, k) <=> k # "kmem" /\ In(s, k)
               /\ \A op : HeadIs(u, op) <=> op = "iflock"
               /\ \A op : Has(u, op) <=> op = "iflock" \/ Has(s, op)
               /\ Elems(u) = {<<"iflock">>} \cup Elems(s)
  <1> DEFINE a == <<"iflock">>
             u == Cons(a, s)
  <1>0. a \in Instr /\ a[1] = "iflock" /\ s \in Code
    BY InstrMake DEF CodeOK
  <1> SUFFICES /\ CodeOK(t, u) /\ Plain(u) /\ HeadMain(u)
               /\ \A k : In(u, k) <=> k # "kmem" /\ In(s, k)
               /\ \A op : HeadIs(u, op) <=> op = "iflock"
               /\ \A op : Has(u, op) <=> op = "iflock" \/ Has(s, op)
               /\ Elems(u) = {a} \cup Elems(s)
    OBVIOUS
  <1> HIDE DEF a
  <1>1. Fits(a, s) /\ Mine(t, a)
    <2>1. Frees(a) = {}
      BY <1>0 DEF Frees
    <2> QED BY <1>0, <2>1 DEF Fits, MainOp, ListOp, LockOp, Mine
  <1>2. CodeOK(t, u)
    BY <1>0, <1>1, ConsOK
  <1>3. /\ \A op : HeadIs(u, op) <=> a[1] = op
        /\ \A op : Has(u, op) <=> a[1] = op \/ Has(s, op)
        /\ \A k : In(u, k) <=> Leaves(a, k) \/ (~Enters(a, k) /\ In(s, k))
        /\ Elems(u) = {a} \cup Elems(s)
    BY <1>0, ConsHas, ConsIn, ConsElems
  <1> HIDE DEF u
  <1>4. \A k : In(u, k) <=> k # "kmem" /\ In(s, k)
    BY <1>0, <1>3 DEF Leaves, Enters
  <1>5. Plain(u) /\ HeadMain(u)
    BY <1>0, <1>3 DEF Plain, HeadMain, MainOp, ListOp
  <1> QED BY <1>0, <1>2, <1>3, <1>4, <1>5

\* kalloc after its iflock.
AllocBody(u, s) == Cons(<<"head", u>>, Cons(<<"ifunlock">>, s))
FreeBody(v, s) == Cons(<<"link", v>>, Cons(<<"push", v>>, Cons(<<"ifunlock">>, s)))

LEMMA AllocOK ==
    ASSUME NEW t, t = 0 \/ t \in Proc, NEW s, CodeOK(t, s), Plain(s), Free(s), Own(s),
           HasMain(s) => HeadMain(s), NEW p \in Thread
    PROVE  LET w == AllocBody(p, s)
               u == AllocThen(p, s)
           IN  /\ CodeOK(t, w) /\ Only(w, "kmem") /\ Own(w) /\ Plain(w)
               /\ HeadIs(w, "head")
               /\ Elems(w) = {<<"head", p>>, <<"ifunlock">>} \cup Elems(s)
               /\ u = Cons(<<"iflock">>, w)
               /\ CodeOK(t, u) /\ Free(u) /\ Own(u) /\ Plain(u) /\ HeadMain(u)
               /\ \A op : HeadIs(u, op) <=> op = "iflock"
               /\ Elems(u) = {<<"iflock">>, <<"head", p>>, <<"ifunlock">>} \cup Elems(s)
  <1> DEFINE a == <<"head", p>>
             r == Cons(<<"ifunlock">>, s)
             w == Cons(a, r)
             u == Cons(<<"iflock">>, w)
  <1>0. a \in Instr /\ a[1] = "head"
    BY InstrMake
  <1>1. AllocBody(p, s) = w /\ AllocThen(p, s) = u
    BY DEF AllocBody, AllocThen
  <1> HIDE DEF a
  <1>2. /\ CodeOK(t, r) /\ Plain(r) /\ HeadMain(r)
        /\ \A k \in Lock : In(r, k) <=> k = "kmem"
        /\ \A op : HeadIs(r, op) <=> op = "ifunlock"
        /\ \A op : Has(r, op) <=> op = "ifunlock" \/ Has(s, op)
        /\ Elems(r) = {<<"ifunlock">>} \cup Elems(s)
    BY IfUnlockOK, Locks3 DEF Free
  <1> HIDE DEF r
  <1>3. Fits(a, r) /\ Mine(t, a) /\ a[1] \notin LockOp
    <2>1. Frees(a) = {}
      BY <1>0 DEF Frees
    <2> QED BY <1>0, <1>2, <2>1 DEF Fits, Only, Own, MainOp, ListOp, LockOp, Mine
  <1>4. /\ CodeOK(t, w) /\ Plain(w) /\ \A k \in Lock : In(w, k) <=> k = "kmem"
        /\ \A op : HeadIs(w, op) <=> op = "head"
        /\ \A op : Has(w, op) <=> op = "head" \/ Has(r, op)
        /\ Elems(w) = {a} \cup Elems(r)
    BY <1>0, <1>2, <1>3, OneOK
  <1>5. HeadMain(w)
    BY <1>4 DEF HeadMain, MainOp, ListOp
  <1> HIDE DEF w
  <1>6. /\ CodeOK(t, u) /\ Plain(u) /\ HeadMain(u) /\ \A k \in Lock : ~In(u, k)
        /\ \A op : HeadIs(u, op) <=> op = "iflock"
        /\ \A op : Has(u, op) <=> op = "iflock" \/ Has(w, op)
        /\ Elems(u) = {<<"iflock">>} \cup Elems(w)
    BY <1>4, <1>5, IfLockOK, Locks3
  <1>7. Own(w) /\ Own(u)
    BY <1>2, <1>4, <1>6 DEF Own
  <1>8. /\ CodeOK(t, w) /\ Only(w, "kmem") /\ Own(w) /\ Plain(w) /\ HeadIs(w, "head")
        /\ CodeOK(t, u) /\ Free(u) /\ Own(u) /\ Plain(u) /\ HeadMain(u)
        /\ \A op : HeadIs(u, op) <=> op = "iflock"
    BY <1>4, <1>6, <1>7 DEF Only, Free
  <1>9. Elems(w) = {a, <<"ifunlock">>} \cup Elems(s)
    BY <1>2, <1>4
  <1>10. Elems(u) = {<<"iflock">>, a, <<"ifunlock">>} \cup Elems(s)
    BY <1>9, <1>6
  <1> QED BY <1>1, <1>8, <1>9, <1>10 DEF a

LEMMA FreeOK ==
    ASSUME NEW t, t = 0 \/ t \in Proc, NEW s, CodeOK(t, s), Plain(s), Free(s), Own(s),
           HasMain(s) => HeadMain(s), NEW v \in Page, \A y \in Elems(s) : v \notin Frees(y)
    PROVE  LET w == FreeBody(v, s)
               u == FreeThen(v, s)
           IN  /\ CodeOK(t, w) /\ Only(w, "kmem") /\ Own(w) /\ Plain(w)
               /\ HeadIs(w, "link")
               /\ Elems(w) = {<<"link", v>>, <<"push", v>>, <<"ifunlock">>} \cup Elems(s)
               /\ u = Cons(<<"iflock">>, w)
               /\ CodeOK(t, u) /\ Free(u) /\ Own(u) /\ Plain(u) /\ HeadMain(u)
               /\ \A op : HeadIs(u, op) <=> op = "iflock"
               /\ Elems(u) = {<<"iflock">>, <<"link", v>>, <<"push", v>>, <<"ifunlock">>}
                               \cup Elems(s)
  <1> DEFINE a == <<"link", v>>
             b == <<"push", v>>
             r == Cons(<<"ifunlock">>, s)
             q == Cons(b, r)
             w == Cons(a, q)
             u == Cons(<<"iflock">>, w)
  <1>0. /\ a \in Instr /\ a[1] = "link" /\ a[2] = v
        /\ b \in Instr /\ b[1] = "push" /\ b[2] = v
    BY InstrMake
  <1>1. FreeBody(v, s) = w /\ FreeThen(v, s) = u
    BY DEF FreeBody, FreeThen
  <1> HIDE DEF a, b
  <1>2. /\ CodeOK(t, r) /\ Plain(r) /\ HeadMain(r)
        /\ \A k \in Lock : In(r, k) <=> k = "kmem"
        /\ \A op : HeadIs(r, op) <=> op = "ifunlock"
        /\ \A op : Has(r, op) <=> op = "ifunlock" \/ Has(s, op)
        /\ Elems(r) = {<<"ifunlock">>} \cup Elems(s)
    BY IfUnlockOK, Locks3 DEF Free
  <1> HIDE DEF r
  <1>3. Frees(a) = {} /\ Frees(b) = {v} /\ Frees(<<"ifunlock">>) = {}
    BY <1>0 DEF Frees
  <1>4. Fits(b, r) /\ Mine(t, b) /\ b[1] \notin LockOp
    <2>1. \A y \in Elems(r) : Frees(b) \cap Frees(y) = {}
      BY <1>3, <1>2
    <2> QED BY <1>0, <1>2, <2>1, Locks3 DEF Fits, MainOp, ListOp, LockOp, Mine
  <1>5. /\ CodeOK(t, q) /\ \A k \in Lock : In(q, k) <=> k = "kmem"
        /\ \A op : HeadIs(q, op) <=> op = "push"
        /\ \A op : Has(q, op) <=> op = "push" \/ Has(r, op)
        /\ Elems(q) = {b} \cup Elems(r)
    BY <1>0, <1>2, <1>4, OneOK
  <1>6. HeadMain(q) /\ Head(q) = b
    <2>1. r \in Code
      BY <1>2 DEF CodeOK
    <2> QED BY <1>0, <1>5, <2>1, ConsSeq DEF HeadMain, MainOp, ListOp
  <1> HIDE DEF q
  <1>7. Fits(a, q) /\ Mine(t, a) /\ a[1] \notin LockOp
    BY <1>0, <1>3, <1>5, <1>6, Locks3 DEF Fits, Pair, MainOp, ListOp, LockOp, Mine
  <1>8. /\ CodeOK(t, w) /\ Plain(w) /\ \A k \in Lock : In(w, k) <=> k = "kmem"
        /\ \A op : HeadIs(w, op) <=> op = "link"
        /\ \A op : Has(w, op) <=> op = "link" \/ Has(q, op)
        /\ Elems(w) = {a} \cup Elems(q)
    BY <1>0, <1>5, <1>7, OneOK
  <1>9. HeadMain(w)
    BY <1>8 DEF HeadMain, MainOp, ListOp
  <1> HIDE DEF w
  <1>10. /\ CodeOK(t, u) /\ Plain(u) /\ HeadMain(u) /\ \A k \in Lock : ~In(u, k)
         /\ \A op : HeadIs(u, op) <=> op = "iflock"
         /\ \A op : Has(u, op) <=> op = "iflock" \/ Has(w, op)
         /\ Elems(u) = {<<"iflock">>} \cup Elems(w)
    BY <1>8, <1>9, IfLockOK, Locks3
  <1>11. Own(w) /\ Own(u)
    BY <1>2, <1>5, <1>8, <1>10 DEF Own
  <1>12. /\ CodeOK(t, w) /\ Only(w, "kmem") /\ Own(w) /\ Plain(w) /\ HeadIs(w, "link")
         /\ CodeOK(t, u) /\ Free(u) /\ Own(u) /\ Plain(u) /\ HeadMain(u)
         /\ \A op : HeadIs(u, op) <=> op = "iflock"
    BY <1>8, <1>10, <1>11 DEF Only, Free
  <1>13. Elems(w) = {a, b, <<"ifunlock">>} \cup Elems(s)
    BY <1>2, <1>5, <1>8
  <1>14. Elems(u) = {<<"iflock">>, a, b, <<"ifunlock">>} \cup Elems(s)
    BY <1>13, <1>10
  <1> QED BY <1>1, <1>12, <1>13, <1>14 DEF a, b

LEMMA StartOK ==
    ASSUME NEW t, NEW q \in Proc, IF q = initproc THEN t = 0 ELSE t = initproc
    PROVE  LET u == StartThen(q, <<>>)
           IN  /\ CodeOK(t, u) /\ Free(u) /\ Own(u) /\ Plain(u) /\ ~HasMain(u)
               /\ \A x \in Elems(u) : Quiet(x) \/ x = <<"start", q>>
  <1> DEFINE a == <<"start", q>>
             s0 == <<>>
             s1 == Rel("ptable", s0)
             s2 == Cons(a, s1)
             u == Acq("ptable", s2)
  <1>0. a \in Instr /\ a[1] = "start" /\ a[2] = q
    BY InstrMake
  <1>1. StartThen(q, <<>>) = u
    BY DEF StartThen
  <1> HIDE DEF a
  <1>2. /\ CodeOK(t, s0) /\ Plain(s0) /\ Elems(s0) = {} /\ \A k \in Lock : ~In(s0, k)
        /\ \A op : ~Has(s0, op)
    BY EmptyOK, EmptyFacts
  <1> HIDE DEF s0
  <1>3. /\ CodeOK(t, s1) /\ Plain(s1) /\ \A k \in Lock : In(s1, k) <=> k = "ptable"
        /\ \A op : op \notin LockOp => ~Has(s1, op)
        /\ Elems(s1) = {<<"disown", "ptable">>, <<"unlock", "ptable">>}
    BY <1>2, RelOK, Locks3
  <1> HIDE DEF s1
  <1>4. Fits(a, s1) /\ Mine(t, a) /\ a[1] \notin LockOp
    <2>1. Frees(a) = {}
      BY <1>0 DEF Frees
    <2> QED BY <1>0, <1>3, <2>1 DEF Fits, MainOp, ListOp, LockOp, Mine
  <1>5. /\ CodeOK(t, s2) /\ Plain(s2) /\ \A k \in Lock : In(s2, k) <=> k = "ptable"
        /\ \A op : Has(s2, op) <=> op = "start" \/ Has(s1, op)
        /\ Elems(s2) = {a} \cup Elems(s1)
    BY <1>0, <1>3, <1>4, OneOK
  <1> HIDE DEF s2
  <1>6. /\ CodeOK(t, u) /\ Plain(u) /\ \A k \in Lock : ~In(u, k)
        /\ \A op : op \notin LockOp => (Has(u, op) <=> Has(s2, op))
        /\ Elems(u) = {<<"pushcli", "ptable">>, <<"xchg", "ptable">>} \cup Elems(s2)
    BY <1>5, AcqOK, Locks3
  <1> HIDE DEF u
  <1>7. \A op : op \notin LockOp /\ op # "start" => ~Has(u, op)
    BY <1>3, <1>5, <1>6
  <1>8. Own(u) /\ ~HasMain(u) /\ Free(u)
    BY <1>6, <1>7 DEF Own, HasMain, MainOp, ListOp, LockOp, Free
  <1>9. \A x \in Elems(u) : Quiet(x) \/ x = a
    BY <1>3, <1>5, <1>6, Locks3, AcqQuiet
  <1> QED BY <1>1, <1>6, <1>8, <1>9 DEF a

\* An instruction of main, before code that is in no section.
LEMMA BootOK ==
    ASSUME NEW x \in Instr, x[1] \in MainOp \ ListOp,
           NEW s, CodeOK(0, s), Free(s), Own(s), Plain(s), HasMain(s) => HeadMain(s),
           \A y \in Elems(s) : Frees(x) \cap Frees(y) = {}
    PROVE  LET u == Cons(x, s)
           IN  /\ CodeOK(0, u) /\ Free(u) /\ Own(u) /\ Plain(u) /\ HeadMain(u)
               /\ \A op : HeadIs(u, op) <=> x[1] = op
               /\ \A op : Has(u, op) <=> x[1] = op \/ Has(s, op)
               /\ Elems(u) = {x} \cup Elems(s)
  <1> DEFINE u == Cons(x, s)
  <1>1. Fits(x, s) /\ Mine(0, x) /\ x[1] \notin LockOp
        /\ x[1] \notin {"iflock", "ifunlock", "push", "take", "iret", "trapret"}
    BY Locks3 DEF Fits, Mine, MainOp, ListOp, LockOp, Free
  <1>2. /\ CodeOK(0, u) /\ Plain(u) /\ \A k : In(u, k) <=> In(s, k)
        /\ \A op : HeadIs(u, op) <=> x[1] = op
        /\ \A op : Has(u, op) <=> x[1] = op \/ Has(s, op)
        /\ Elems(u) = {x} \cup Elems(s)
    BY <1>1, OneOK
  <1> HIDE DEF u
  <1>3. Free(u) /\ Own(u) /\ HeadMain(u)
    BY <1>1, <1>2 DEF Free, Own, HeadMain
  <1> QED BY <1>2, <1>3 DEF u

LEMMA MainOK ==
    ASSUME NEW late \in SUBSET Late
    PROVE  LET u == main(late)
           IN  /\ CodeOK(0, u) /\ Free(u) /\ Plain(u) /\ HeadMain(u)
               /\ ~HeadIs(u, "unlock") /\ ~HeadIs(u, "xchg") /\ Has(u, "uselock")
               /\ ~HeadIs(u, "push") /\ ~HeadIs(u, "take")
               /\ \A x \in Elems(u) : /\ x[1] \notin LockOp \/ x[2] # "kmem"
                                      /\ Frees(x) \subseteq Early \cup late
  <1> DEFINE a1 == <<"freerange", Early>>
             a2 == <<"startothers", 1>>
             a3 == <<"freerange", late>>
             a4 == <<"uselock">>
             s1 == StartThen(initproc, <<>>)
             s2 == AllocThen(0, s1)
             s3 == Cons(a4, s2)
             s4 == Cons(a3, s3)
             s5 == Cons(a2, s4)
             s6 == AllocThen(0, s5)
             s7 == Cons(a1, s6)
             G(x) == /\ x[1] \notin LockOp \/ x[2] # "kmem"
                     /\ Frees(x) = {}
  <1>0. late \in SUBSET Page /\ Early \in SUBSET Page /\ 1 \in 1 .. NCPU /\ 0 \in Thread
        /\ Early \cap late = {}
    BY KmemAssumption, ThreadFacts DEF Page
  <1>1. /\ a1 \in Instr /\ a2 \in Instr /\ a3 \in Instr /\ a4 \in Instr
    BY <1>0, InstrMake
  <1>2. /\ a1[1] = "freerange" /\ a2[1] = "startothers" /\ a3[1] = "freerange"
        /\ a4[1] = "uselock" /\ a1[2] = Early /\ a3[2] = late
    OBVIOUS
  <1>3. main(late) = s7
    BY <1>0, UnfoldMain DEF MainProg
  <1> HIDE DEF a1, a2, a3, a4
  <1>4. /\ \A i \in Thread : G(<<"head", i>>)
        /\ G(<<"iflock">>) /\ G(<<"ifunlock">>) /\ G(<<"start", initproc>>)
        /\ \A x : Quiet(x) => G(x)
        /\ G(a2) /\ G(a4) /\ Frees(a1) = Early /\ Frees(a3) = late
        /\ a1[1] \notin LockOp /\ a3[1] \notin LockOp
    <2>1. \A i \in Thread : G(<<"head", i>>)
      BY DEF Frees, LockOp
    <2>2. G(<<"iflock">>) /\ G(<<"ifunlock">>) /\ G(<<"start", initproc>>)
      BY DEF Frees, LockOp
    <2>3. \A x : Quiet(x) => G(x)
      BY QuietFrees DEF Quiet
    <2>4. G(a2) /\ G(a4) /\ Frees(a1) = Early /\ Frees(a3) = late
          /\ a1[1] \notin LockOp /\ a3[1] \notin LockOp
      BY <1>2 DEF Frees, LockOp
    <2> QED BY <2>1, <2>2, <2>3, <2>4
  <1>5. /\ CodeOK(0, s1) /\ Free(s1) /\ Own(s1) /\ Plain(s1) /\ ~HasMain(s1)
        /\ \A x \in Elems(s1) : G(x)
    BY <1>4, StartOK, ThreadFacts
  <1>a. \A x : G(x) => Frees(x) = {}
    OBVIOUS
  <1> HIDE DEF s1, G
  <1>6. /\ CodeOK(0, s2) /\ Free(s2) /\ Own(s2) /\ Plain(s2) /\ HeadMain(s2)
        /\ Elems(s2) = {<<"iflock">>, <<"head", 0>>, <<"ifunlock">>} \cup Elems(s1)
    BY <1>0, <1>5, AllocOK
  <1>7. \A x \in Elems(s2) : G(x)
    BY <1>0, <1>4, <1>5, <1>6
  <1> HIDE DEF s2
  <1>8. /\ CodeOK(0, s3) /\ Free(s3) /\ Own(s3) /\ Plain(s3) /\ HeadMain(s3)
        /\ Has(s3, "uselock") /\ Elems(s3) = {a4} \cup Elems(s2)
    <2>1. \A y \in Elems(s2) : Frees(a4) \cap Frees(y) = {}
      BY <1>4, <1>7, <1>a
    <2>2. a4[1] \in MainOp \ ListOp
      BY <1>2 DEF MainOp, ListOp
    <2> QED BY <2>1, <2>2, <1>1, <1>2, <1>6, BootOK
  <1> HIDE DEF s3
  <1>9. /\ CodeOK(0, s4) /\ Free(s4) /\ Own(s4) /\ Plain(s4) /\ HeadMain(s4)
        /\ Has(s4, "uselock") /\ Elems(s4) = {a3} \cup Elems(s3)
    <2>1. \A y \in Elems(s3) : Frees(a3) \cap Frees(y) = {}
      BY <1>4, <1>7, <1>8, <1>a
    <2>2. a3[1] \in MainOp \ ListOp
      BY <1>2 DEF MainOp, ListOp
    <2> QED BY <2>1, <2>2, <1>1, <1>8, BootOK
  <1> HIDE DEF s4
  <1>10. /\ CodeOK(0, s5) /\ Free(s5) /\ Own(s5) /\ Plain(s5) /\ HeadMain(s5)
         /\ Has(s5, "uselock") /\ Elems(s5) = {a2} \cup Elems(s4)
    <2>1. \A y \in Elems(s4) : Frees(a2) \cap Frees(y) = {}
      BY <1>4, <1>a
    <2>2. a2[1] \in MainOp \ ListOp
      BY <1>2 DEF MainOp, ListOp
    <2> QED BY <2>1, <2>2, <1>1, <1>9, BootOK
  <1> HIDE DEF s5
  <1>11. /\ CodeOK(0, s6) /\ Free(s6) /\ Own(s6) /\ Plain(s6) /\ HeadMain(s6)
         /\ Elems(s6) = {<<"iflock">>, <<"head", 0>>, <<"ifunlock">>} \cup Elems(s5)
    BY <1>0, <1>10, AllocOK
  <1>12. Has(s6, "uselock")
    BY <1>10, <1>11 DEF Has
  <1> HIDE DEF s6
  <1>13. \A x \in Elems(s6) : G(x) \/ x = a3
    BY <1>0, <1>4, <1>7, <1>8, <1>9, <1>10, <1>11
  <1>14. /\ CodeOK(0, s7) /\ Free(s7) /\ Plain(s7) /\ HeadMain(s7)
         /\ \A op : HeadIs(s7, op) <=> op = "freerange"
         /\ Has(s7, "uselock") /\ Elems(s7) = {a1} \cup Elems(s6)
    <2>1. \A y \in Elems(s6) : Frees(a1) \cap Frees(y) = {}
      BY <1>0, <1>4, <1>13, <1>a
    <2>2. a1[1] \in MainOp \ ListOp
      BY <1>2 DEF MainOp, ListOp
    <2> QED BY <2>1, <2>2, <1>1, <1>2, <1>11, <1>12, BootOK
  <1> HIDE DEF s7
  <1>15. \A x \in Elems(s7) : /\ x[1] \notin LockOp \/ x[2] # "kmem"
                              /\ Frees(x) \subseteq Early \cup late
    BY <1>4, <1>13, <1>14 DEF G
  <1> QED BY <1>3, <1>14, <1>15

LEMMA StartOthersOK ==
    ASSUME NEW d \in CPU, d + 1 \in 1 .. NCPU,
           NEW s, CodeOK(0, s), Free(s), Own(s), Plain(s), HasMain(s) => HeadMain(s)
    PROVE  LET u == AllocThen(0, Cons(<<"startap", d>>, Cons(<<"started", d>>,
                                 Cons(<<"startothers", d + 1>>, s))))
           IN  /\ CodeOK(0, u) /\ Free(u) /\ Own(u) /\ Plain(u) /\ HeadMain(u)
               /\ ~HeadIs(u, "resume")
               /\ Elems(s) \subseteq Elems(u)
               /\ \A x \in Elems(u) : x \in Elems(s) \/ x[1] \in MainOp
               /\ \A x \in Elems(u) : x \in Elems(s) \/ Frees(x) = {}
  <1> DEFINE a1 == <<"startothers", d + 1>>
             a2 == <<"started", d>>
             a3 == <<"startap", d>>
             s1 == Cons(a1, s)
             s2 == Cons(a2, s1)
             s3 == Cons(a3, s2)
             u == AllocThen(0, s3)
  <1>1. a1 \in Instr /\ a2 \in Instr /\ a3 \in Instr
    BY InstrMake
  <1>2. a1[1] = "startothers" /\ a2[1] = "started" /\ a3[1] = "startap"
    OBVIOUS
  <1> HIDE DEF a1, a2, a3
  <1>3. /\ a1[1] \in MainOp \ ListOp /\ a2[1] \in MainOp \ ListOp
        /\ a3[1] \in MainOp \ ListOp
        /\ Frees(a1) = {} /\ Frees(a2) = {} /\ Frees(a3) = {}
    BY <1>2 DEF MainOp, ListOp, Frees
  <1>4. /\ CodeOK(0, s1) /\ Free(s1) /\ Own(s1) /\ Plain(s1) /\ HeadMain(s1)
        /\ Elems(s1) = {a1} \cup Elems(s)
    BY <1>1, <1>3, BootOK
  <1> HIDE DEF s1
  <1>5. /\ CodeOK(0, s2) /\ Free(s2) /\ Own(s2) /\ Plain(s2) /\ HeadMain(s2)
        /\ Elems(s2) = {a2} \cup Elems(s1)
    BY <1>1, <1>3, <1>4, BootOK
  <1> HIDE DEF s2
  <1>6. /\ CodeOK(0, s3) /\ Free(s3) /\ Own(s3) /\ Plain(s3) /\ HeadMain(s3)
        /\ Elems(s3) = {a3} \cup Elems(s2)
    BY <1>1, <1>3, <1>5, BootOK
  <1> HIDE DEF s3
  <1>7. /\ CodeOK(0, u) /\ Free(u) /\ Own(u) /\ Plain(u) /\ HeadMain(u)
        /\ \A op : HeadIs(u, op) <=> op = "iflock"
        /\ Elems(u) = {<<"iflock">>, <<"head", 0>>, <<"ifunlock">>} \cup Elems(s3)
    BY <1>6, AllocOK, ThreadFacts
  <1> HIDE DEF u
  <1>8. \A x \in {<<"iflock">>, <<"head", 0>>, <<"ifunlock">>} :
           x[1] \in MainOp /\ Frees(x) = {}
    BY DEF MainOp, ListOp, Frees
  <1>9. /\ Elems(s) \subseteq Elems(u)
        /\ \A x \in Elems(u) : x \in Elems(s) \/ x[1] \in MainOp
        /\ \A x \in Elems(u) : x \in Elems(s) \/ Frees(x) = {}
    BY <1>3, <1>4, <1>5, <1>6, <1>7, <1>8
  <1> QED BY <1>7, <1>9 DEF a1, a2, a3, s1, s2, s3, u

(***************************************************************************)
(* A step of one thread                                                    *)
(***************************************************************************)
\* wakeup1 apart, a step leaves the states of the processes alone.
Woken(st, new) ==
    /\ new \in [Proc -> {"UNUSED", "RUNNABLE", "RUNNING", "SLEEPING"}]
    /\ \A p \in Proc : new[p] = st[p] \/ (st[p] = "SLEEPING" /\ new[p] = "RUNNABLE")

\* What thread 0 may execute before uselock, with interrupts on or off.
Boots(s, on) == /\ HasMain(s) => ~on /\ HeadMain(s)
                /\ Has(s, "start") => Has(s, "uselock")

LEMMA MoveCode ==
    ASSUME TypeOK, CodeInv, ThreadInv, NEW c \in CPU, NEW s, CodeOK(Cur(c), s),
           code' = [code EXCEPT ![Cur(c)] = s], Woken(state, state'),
           \A d \in CPU : cpu'[d].cur = cpu[d].cur,
           \A x \in Elems(s) : x[1] = "start" => state[x[2]] = "UNUSED"
    PROVE  /\ CodeInv' /\ ThreadInv' /\ Now(c)' = s
           /\ \A d \in CPU : d # c => Now(d)' = Now(d)
           /\ \A t \in Thread : t # Cur(c) => code'[t] = code[t]
  <1>1. Cur(c) \in Thread
    BY DEF TypeOK, Cur
  <1>2. /\ code' \in [Thread -> Code] /\ code'[Cur(c)] = s
        /\ \A t \in Thread : t # Cur(c) => code'[t] = code[t]
    BY <1>1 DEF CodeInv, CodeOK
  <1>3. \A d \in CPU : Cur(d)' = Cur(d) /\ Cur(d) \in Thread
    BY DEF Cur, TypeOK
  <1>4. Now(c)' = s /\ \A d \in CPU : d # c => Now(d)' = Now(d)
    BY <1>2, <1>3 DEF Now, ThreadInv
  <1>5. CodeInv'
    BY <1>1, <1>2 DEF CodeInv
  <1>6. \A d \in CPU : \/ Cur(d)' = d
                       \/ /\ Cur(d)' \in Proc /\ state'[Cur(d)'] = "RUNNING"
                          /\ HeadIs(code'[d], "pick")
    <2> SUFFICES ASSUME NEW d \in CPU, Cur(d) # d
                 PROVE  /\ Cur(d) \in Proc /\ state'[Cur(d)] = "RUNNING"
                        /\ HeadIs(code'[d], "pick")
      BY <1>3
    <2>1. Cur(d) \in Proc /\ state[Cur(d)] = "RUNNING" /\ HeadIs(code[d], "pick")
      BY DEF ThreadInv
    <2>2. state'[Cur(d)] = "RUNNING"
      BY <2>1 DEF Woken
    <2>3. d # Cur(c) /\ d \in Thread
      BY ThreadFacts DEF ThreadInv
    <2> QED BY <1>2, <2>1, <2>2, <2>3
  <1>7. \A p \in Proc : state[p] \in {"RUNNABLE", "SLEEPING", "UNUSED"} => p # Cur(c)
    BY ThreadFacts DEF ThreadInv
  <1>8. ThreadInv'
    <2>1. \A d, e \in CPU : Cur(d)' = Cur(e)' => d = e
      BY <1>3 DEF ThreadInv
    <2>2. \A p \in Proc : state'[p] = "RUNNING" => \E d \in CPU : Cur(d)' = p
      BY <1>3 DEF ThreadInv, Woken
    <2>3. \A p \in Proc : state'[p] = "UNUSED" => code'[p] = <<>>
      BY <1>2, <1>7, ThreadFacts DEF ThreadInv, Woken
    <2>4. \A p \in Proc : state'[p] \in {"RUNNABLE", "SLEEPING"} => Parked(code'[p])
      BY <1>2, <1>7, ThreadFacts DEF ThreadInv, Woken
    <2>5. ASSUME NEW t \in Thread, NEW x \in Elems(code'[t]), x[1] = "start"
          PROVE  state'[x[2]] = "UNUSED"
      <3>1. CodeOK(t, code'[t])
        BY <1>5 DEF CodeInv
      <3>2. x \in Instr
        BY <3>1 DEF CodeOK, Elems, Code
      <3>3. x[2] \in Proc
        BY <3>2, <2>5, InstrArgs
      <3>4. state[x[2]] = "UNUSED"
        BY <1>2, <2>5 DEF ThreadInv
      <3> QED BY <3>3, <3>4 DEF Woken
    <2> QED BY <1>6, <2>1, <2>2, <2>3, <2>4, <2>5 DEF ThreadInv, Cur
  <1> QED BY <1>2, <1>4, <1>5, <1>8

\* The locks, when a step of c neither takes nor opens one.
LEMMA MoveLocks ==
    ASSUME LockInv, NEW c \in CPU, NEW s, lock' = lock, use_lock' = use_lock,
           Now(c)' = s, \A d \in CPU : d # c => Now(d)' = Now(d),
           \A l \in Lock : Took(s, l, use_lock) <=> Got(c, l),
           ~HeadIs(Now(c), "unlock"), ~HeadIs(s, "unlock")
    PROVE  LockInv'
  <1>1. \A d \in CPU, l \in Lock : Got(d, l)' <=> Got(d, l)
    BY DEF Got
  <1>2. \A d \in CPU, l \in Lock : Opening(Now(d), l)' <=> Opening(Now(d), l)
    BY DEF Opening
  <1> HIDE DEF Got
  <1> QED BY <1>1, <1>2 DEF LockInv

LEMMA MoveCpus ==
    ASSUME CpuInv, NEW c \in CPU, NEW s, use_lock' = use_lock, Now(c)' = s,
           \A d \in CPU : d # c => Now(d)' = Now(d),
           \A d \in CPU : d # c => /\ cpu'[d].if = cpu[d].if /\ cpu'[d].ncli = cpu[d].ncli
                                   /\ cpu'[d].intena = cpu[d].intena
                                   /\ cpu'[d].cur = cpu[d].cur,
           CpuOK(cpu'[c], s, use_lock)
    PROVE  CpuInv'
  <1> SUFFICES ASSUME NEW d \in CPU PROVE CpuOK(cpu'[d], Now(d)', use_lock)
    BY DEF CpuInv
  <1>1. CASE d = c
    BY <1>1
  <1>2. CASE d # c
    <2>1. CpuOK(cpu[d], Now(d), use_lock) /\ Now(d)' = Now(d)
      BY <1>2 DEF CpuInv
    <2>2. PICK n : n = Now(d)
      OBVIOUS
    <2>3. CpuOK(cpu'[d], n, use_lock)
      BY <2>1, <2>2, <1>2 DEF CpuOK
    <2> QED BY <2>1, <2>2, <2>3
  <1> QED BY <1>1, <1>2

LEMMA MoveBoot ==
    ASSUME TypeOK, BootInv, ThreadInv, NEW c \in CPU, NEW s, use_lock' = use_lock,
           Woken(state, state'), code'[Cur(c)] = s,
           \A t \in Thread : t # Cur(c) => code'[t] = code[t],
           \A d \in CPU : d # c => cpu'[d].if = cpu[d].if,
           ~use_lock => NoKmem(s),
           ~use_lock /\ c = 0 /\ Cur(c) = 0 => Boots(s, cpu'[c].if)
    PROVE  BootInv'
  <1> SUFFICES ASSUME ~use_lock
               PROVE  /\ \A p \in Proc : state'[p] = "UNUSED"
                      /\ \A t \in Thread : NoKmem(code'[t])
                      /\ Boots(code'[0], cpu'[0].if)
    BY DEF BootInv, Boots
  <1>1. \A p \in Proc : state[p] = "UNUSED"
    BY DEF BootInv
  <1>2. \A p \in Proc : state'[p] = "UNUSED"
    BY <1>1 DEF Woken
  <1>3. \A t \in Thread : NoKmem(code'[t])
    BY DEF BootInv
  <1>4. Cur(c) = c
    BY <1>1 DEF ThreadInv
  <1>5. CASE c = 0
    BY <1>4, <1>5, <1>2, <1>3
  <1>6. CASE c # 0
    <2>1. code'[0] = code[0] /\ cpu'[0].if = cpu[0].if
      BY <1>4, <1>6, ThreadFacts
    <2>2. Boots(code[0], cpu[0].if)
      BY DEF BootInv, Boots
    <2> QED BY <1>2, <1>3, <2>1, <2>2
  <1> QED BY <1>5, <1>6

LEMMA Move ==
    ASSUME LocksInv, TypeOK', NEW c \in CPU, NEW s, CodeOK(Cur(c), s),
           code' = [code EXCEPT ![Cur(c)] = s], lock' = lock, use_lock' = use_lock,
           panic' = panic, Woken(state, state'), cpu'[c].cur = cpu[c].cur,
           \A d \in CPU : d # c => /\ cpu'[d].if = cpu[d].if /\ cpu'[d].ncli = cpu[d].ncli
                                   /\ cpu'[d].intena = cpu[d].intena
                                   /\ cpu'[d].cur = cpu[d].cur,
           CpuOK(cpu'[c], s, use_lock),
           \A l \in Lock : Took(s, l, use_lock) <=> Got(c, l),
           ~HeadIs(Now(c), "unlock"), ~HeadIs(s, "unlock"),
           \A x \in Elems(s) : x[1] = "start" => state[x[2]] = "UNUSED",
           ~use_lock => NoKmem(s),
           ~use_lock /\ c = 0 /\ Cur(c) = 0 => Boots(s, cpu'[c].if)
    PROVE  LocksInv'
  <1>0. TypeOK /\ CodeInv /\ BootInv /\ ThreadInv /\ LockInv /\ CpuInv /\ panic = "none"
    BY DEF LocksInv
  <1>1. \A d \in CPU : cpu'[d].cur = cpu[d].cur
    OBVIOUS
  <1>2. /\ CodeInv' /\ ThreadInv' /\ Now(c)' = s
        /\ \A d \in CPU : d # c => Now(d)' = Now(d)
        /\ \A t \in Thread : t # Cur(c) => code'[t] = code[t]
    BY <1>0, <1>1, MoveCode
  <1>3. LockInv'
    BY <1>0, <1>2, MoveLocks
  <1>4. CpuInv'
    BY <1>0, <1>2, MoveCpus
  <1>5. code'[Cur(c)] = s
    BY <1>0 DEF TypeOK, Cur, CodeInv
  <1>6. BootInv'
    BY <1>0, <1>2, <1>5, MoveBoot
  <1> QED BY <1>0, <1>2, <1>3, <1>4, <1>6 DEF LocksInv

\* What is known where c executes its next instruction.
LEMMA Here ==
    ASSUME LocksInv, NEW c \in CPU, Now(c) # <<>>
    PROVE  LET n == Now(c)
               x == Head(n)
               r == Tail(n)
           IN  /\ Cur(c) \in Thread /\ CodeOK(Cur(c), n) /\ CpuOK(cpu[c], n, use_lock)
               /\ x \in Instr /\ Fits(x, r) /\ Mine(Cur(c), x) /\ CodeOK(Cur(c), r)
               /\ Elems(n) = {x} \cup Elems(r)
               /\ \A op : HeadIs(n, op) <=> x[1] = op
               /\ \A op : Has(n, op) <=> x[1] = op \/ Has(r, op)
               /\ \A l : In(n, l) <=> Leaves(x, l) \/ (~Enters(x, l) /\ In(r, l))
               /\ \A y \in Elems(n) : y[1] = "start" => state[y[2]] = "UNUSED"
               /\ ~use_lock => NoKmem(n)
  <1>1. Cur(c) \in Thread /\ CodeOK(Cur(c), Now(c))
    BY DEF LocksInv, TypeOK, CodeInv, Cur, Now
  <1>2. CpuOK(cpu[c], Now(c), use_lock)
    BY DEF LocksInv, CpuInv
  <1>3. \A y \in Elems(Now(c)) : y[1] = "start" => state[y[2]] = "UNUSED"
    BY <1>1 DEF LocksInv, ThreadInv, Now
  <1>4. ~use_lock => NoKmem(Now(c))
    BY <1>1 DEF LocksInv, BootInv, Now
  <1>5. \A op : HeadIs(Now(c), op) <=> Head(Now(c))[1] = op
    BY DEF HeadIs
  <1> QED BY <1>1, <1>2, <1>3, <1>4, <1>5, UnconsOK

\* While use_lock is off, CPU 0 executes main and no process runs.
LEMMA HereBoot ==
    ASSUME LocksInv, ~use_lock
    PROVE  /\ \A d \in CPU : Cur(d) = d
           /\ Boots(code[0], cpu[0].if)
           /\ \A p \in Proc : state[p] = "UNUSED" /\ code[p] = <<>>
  BY DEF LocksInv, BootInv, ThreadInv, Boots

\* The interrupts, when a step changes neither them nor what the code says.
LEMMA CpuSame ==
    ASSUME NEW R, NEW n, NEW s, NEW u, CpuOK(R, n, u),
           \A l \in Lock : Took(s, l, u) <=> Took(n, l, u),
           HeadIs(s, "xchg") <=> HeadIs(n, "xchg"),
           Has(s, "iret") <=> Has(n, "iret"), Has(s, "trapret") <=> Has(n, "trapret"),
           ~HeadIs(n, "resume"), R.if => Free(s)
    PROVE  CpuOK(R, s, u)
  <1>1. Depth(s, u) = Depth(n, u)
    BY Locks3 DEF Depth, Num
  <1>2. Own(s) <=> Own(n)
    BY DEF Own
  <1> QED BY <1>1, <1>2 DEF CpuOK

LEMMA CpuFields ==
    ASSUME NEW R, NEW Q, NEW s, NEW u, CpuOK(R, s, u),
           Q.if = R.if, Q.ncli = R.ncli, Q.intena = R.intena, Q.cur = R.cur
    PROVE  CpuOK(Q, s, u)
  BY DEF CpuOK

\* main goes on with the next instruction of the same kind.
LEMMA BootTail ==
    ASSUME NEW n, NEW x, NEW r, NEW on, NEW off, Boots(n, on), Fits(x, r), x[1] # "uselock",
           \A op : HeadIs(n, op) <=> x[1] = op,
           \A op : Has(n, op) <=> x[1] = op \/ Has(r, op),
           x[1] \in MainOp => off = on
    PROVE  Boots(r, off)
  <1>1. Has(r, "start") => Has(r, "uselock")
    BY DEF Boots
  <1>2. ASSUME HasMain(r) PROVE ~off /\ HeadMain(r)
    <2>1. HasMain(n)
      BY <1>2 DEF HasMain
    <2>2. ~on /\ x[1] \in MainOp
      BY <2>1 DEF Boots, HeadMain
    <2> QED BY <2>2, <1>2 DEF Fits
  <1> QED BY <1>1, <1>2 DEF Boots

LEMMA TypeSame ==
    ASSUME TypeOK, UNCHANGED <<cpu, state, lock, use_lock, freelist, next, held>>
    PROVE  TypeOK'
  BY DEF TypeOK

\* An instruction that has to do with neither locks nor interrupts.
LEMMA TailMove ==
    ASSUME LocksInv, TypeOK', NEW c \in CPU, Now(c) # <<>>,
           code' = [code EXCEPT ![Cur(c)] = Tail(Now(c))],
           lock' = lock, use_lock' = use_lock, panic' = panic, Woken(state, state'),
           \A d \in CPU : /\ cpu'[d].if = cpu[d].if /\ cpu'[d].ncli = cpu[d].ncli
                          /\ cpu'[d].intena = cpu[d].intena
                          /\ cpu'[d].cur = cpu[d].cur,
           Head(Now(c))[1] \notin LockOp,
           Head(Now(c))[1] \notin {"iflock", "ifunlock", "uselock", "resume",
                                   "iret", "trapret"}
    PROVE  LocksInv'
  <1> DEFINE n == Now(c)
             x == Head(n)
             r == Tail(n)
  <1>1. /\ Cur(c) \in Thread /\ CodeOK(Cur(c), n) /\ CpuOK(cpu[c], n, use_lock)
        /\ x \in Instr /\ Fits(x, r) /\ Mine(Cur(c), x) /\ CodeOK(Cur(c), r)
        /\ Elems(n) = {x} \cup Elems(r)
        /\ \A op : HeadIs(n, op) <=> x[1] = op
        /\ \A op : Has(n, op) <=> x[1] = op \/ Has(r, op)
        /\ \A l : In(n, l) <=> Leaves(x, l) \/ (~Enters(x, l) /\ In(r, l))
        /\ \A y \in Elems(n) : y[1] = "start" => state[y[2]] = "UNUSED"
        /\ ~use_lock => NoKmem(n)
    BY Here
  <1>a. /\ x[1] \notin LockOp
        /\ x[1] \notin {"iflock", "ifunlock", "uselock", "resume", "iret", "trapret"}
        /\ code' = [code EXCEPT ![Cur(c)] = r]
        /\ n = code[Cur(c)]
    BY DEF Now
  <1> HIDE DEF n, x, r
  <1>2. \A l : In(r, l) <=> In(n, l)
    BY <1>1, <1>a DEF Leaves, Enters, LockOp
  <1>3. ~HeadIs(r, "xchg") /\ ~HeadIs(r, "unlock") /\ ~HeadIs(n, "unlock")
        /\ ~HeadIs(n, "xchg") /\ ~HeadIs(n, "resume")
    <2>1. CASE x[1] = "link"
      BY <1>1, <2>1 DEF Fits, Pair, HeadIs
    <2>2. CASE x[1] # "link"
      BY <1>1, <1>a, <2>2 DEF Fits, Plain, LockOp
    <2>3. ~HeadIs(n, "unlock") /\ ~HeadIs(n, "xchg") /\ ~HeadIs(n, "resume")
      BY <1>1, <1>a DEF LockOp
    <2> QED BY <2>1, <2>2, <2>3
  <1>4. \A l \in Lock : Took(r, l, use_lock) <=> Took(n, l, use_lock)
    BY <1>2 DEF Took
  <1>5. CpuOK(cpu[c], r, use_lock)
    <2>1. cpu[c].if => Free(r)
      BY <1>1, <1>2 DEF CpuOK, Free
    <2>2. (Has(r, "iret") <=> Has(n, "iret")) /\ (Has(r, "trapret") <=> Has(n, "trapret"))
      BY <1>1, <1>a
    <2> QED BY <2>1, <2>2, <1>1, <1>3, <1>4, CpuSame
  <1>6. CpuOK(cpu'[c], r, use_lock)
    BY <1>5, CpuFields
  <1>7. \A l \in Lock : Took(r, l, use_lock) <=> Got(c, l)
    BY <1>4 DEF Got, n
  <1>8. ~use_lock => NoKmem(r)
    BY <1>1 DEF NoKmem
  <1>9. ~use_lock /\ c = 0 /\ Cur(c) = 0 => Boots(r, cpu'[c].if)
    <2> SUFFICES ASSUME ~use_lock, c = 0, Cur(c) = 0 PROVE Boots(r, cpu'[c].if)
      OBVIOUS
    <2>1. Boots(n, cpu[c].if)
      BY <1>a, HereBoot
    <2>2. cpu'[c].if = cpu[c].if /\ x[1] # "uselock"
      BY <1>a
    <2> QED BY <2>1, <2>2, <1>1, BootTail
  <1>10. /\ \A y \in Elems(r) : y[1] = "start" => state[y[2]] = "UNUSED"
         /\ ~HeadIs(Now(c), "unlock")
    BY <1>1, <1>3 DEF n
  <1> QED BY <1>1, <1>3, <1>6, <1>7, <1>8, <1>9, <1>10, <1>a, Move

\* The next instruction of c, in the words of the actions.
LEMMA AtFacts ==
    ASSUME NEW c \in CPU, NEW op, At(c, op)
    PROVE  /\ Now(c) # <<>> /\ Head(Now(c))[1] = op /\ Rest(c) = Tail(Now(c))
           /\ Arg(c) = Head(Now(c))[2] /\ panic = "none" /\ Now(c) = code[Cur(c)]
           /\ \A s : Goes(c, s) <=> code' = [code EXCEPT ![Cur(c)] = s]
  BY DEF At, Now, Rest, Arg, Goes

LEMMA AtArgs ==
    ASSUME LocksInv, NEW c \in CPU, NEW op, At(c, op)
    PROVE  /\ op \in LockOp => Arg(c) \in Lock
           /\ op = "head" => Arg(c) \in Thread
           /\ op = "take" => Arg(c) \in Page /\ Head(code[Cur(c)])[3] \in Thread
           /\ op \in {"link", "push"} => Arg(c) \in Page
           /\ op = "freerange" => Arg(c) \in SUBSET Page
           /\ op = "startothers" => Arg(c) \in 1 .. NCPU
           /\ op \in {"startap", "started"} => Arg(c) \in CPU
           /\ op = "sched" => Arg(c) \in {"RUNNABLE", "SLEEPING"}
           /\ op = "resume" => Arg(c) \in BOOLEAN
           /\ op = "start" => Arg(c) \in Proc
           /\ Cur(c) \in Thread
  <1>1. /\ Now(c) # <<>> /\ Head(Now(c))[1] = op /\ Arg(c) = Head(Now(c))[2]
        /\ Now(c) = code[Cur(c)]
    BY AtFacts
  <1>2. Head(Now(c)) \in Instr /\ Cur(c) \in Thread
    BY <1>1, Here
  <1>3. PICK x \in Instr : x = Head(Now(c))
    BY <1>2
  <1> QED BY <1>1, <1>2, <1>3, InstrArgs

LEMMA SameState == ASSUME TypeOK PROVE Woken(state, state)
  BY DEF TypeOK, Woken

LEMMA KeepsLocks_Link ==
    ASSUME LocksInv, NEW c \in CPU, Link(c) PROVE LocksInv'
  <1>1. At(c, "link")
    BY DEF Link
  <1>2. TypeOK /\ Woken(state, state')
    BY SameState DEF LocksInv, Link
  <1>3. Arg(c) \in Page
    BY <1>1, AtArgs
  <1>4. TypeOK'
    BY <1>2, <1>3 DEF Link, TypeOK
  <1>5. /\ code' = [code EXCEPT ![Cur(c)] = Tail(Now(c))] /\ Now(c) # <<>>
        /\ Head(Now(c))[1] = "link"
    BY <1>1, AtFacts DEF Link
  <1>6. /\ lock' = lock /\ use_lock' = use_lock /\ panic' = panic /\ cpu' = cpu
    BY DEF Link
  <1>7. Head(Now(c))[1] \notin LockOp
    BY <1>5 DEF LockOp
  <1> QED BY <1>2, <1>4, <1>5, <1>6, <1>7, TailMove

LEMMA KeepsLocks_Push ==
    ASSUME LocksInv, NEW c \in CPU, Push(c) PROVE LocksInv'
  <1>1. At(c, "push")
    BY DEF Push
  <1>2. TypeOK /\ Woken(state, state')
    BY SameState DEF LocksInv, Push
  <1>3. Arg(c) \in Page /\ Cur(c) \in Thread
    BY <1>1, AtArgs
  <1>4. TypeOK'
    BY <1>2, <1>3 DEF Push, TypeOK
  <1>5. /\ code' = [code EXCEPT ![Cur(c)] = Tail(Now(c))] /\ Now(c) # <<>>
        /\ Head(Now(c))[1] = "push"
    BY <1>1, AtFacts DEF Push
  <1>6. /\ lock' = lock /\ use_lock' = use_lock /\ panic' = panic /\ cpu' = cpu
    BY DEF Push
  <1>7. Head(Now(c))[1] \notin LockOp
    BY <1>5 DEF LockOp
  <1> QED BY <1>2, <1>4, <1>5, <1>6, <1>7, TailMove

LEMMA KeepsLocks_Take ==
    ASSUME LocksInv, NEW c \in CPU, Take(c) PROVE LocksInv'
  <1>1. At(c, "take")
    BY DEF Take
  <1>2. TypeOK /\ Woken(state, state')
    BY SameState DEF LocksInv, Take
  <1>3. Arg(c) \in Page /\ Head(code[Cur(c)])[3] \in Thread
    BY <1>1, AtArgs
  <1>4. TypeOK'
    BY <1>2, <1>3 DEF Take, TypeOK
  <1>5. /\ code' = [code EXCEPT ![Cur(c)] = Tail(Now(c))] /\ Now(c) # <<>>
        /\ Head(Now(c))[1] = "take"
    BY <1>1, AtFacts DEF Take
  <1>6. /\ lock' = lock /\ use_lock' = use_lock /\ panic' = panic /\ cpu' = cpu
    BY DEF Take
  <1>7. Head(Now(c))[1] \notin LockOp
    BY <1>5 DEF LockOp
  <1> QED BY <1>2, <1>4, <1>5, <1>6, <1>7, TailMove

LEMMA KeepsLocks_StartAP ==
    ASSUME LocksInv, NEW c \in CPU, StartAP(c) PROVE LocksInv'
  <1>1. At(c, "startap")
    BY DEF StartAP
  <1>2. TypeOK /\ Woken(state, state')
    BY SameState DEF LocksInv, StartAP
  <1>3. Arg(c) \in CPU
    BY <1>1, AtArgs
  <1>4. TypeOK'
    BY <1>2, <1>3 DEF StartAP, TypeOK
  <1>5. /\ code' = [code EXCEPT ![Cur(c)] = Tail(Now(c))] /\ Now(c) # <<>>
        /\ Head(Now(c))[1] = "startap"
    BY <1>1, AtFacts DEF StartAP
  <1>6. /\ lock' = lock /\ use_lock' = use_lock /\ panic' = panic
        /\ cpu' = [cpu EXCEPT ![Arg(c)].boots = TRUE]
    BY DEF StartAP
  <1>7. \A d \in CPU : /\ cpu'[d].if = cpu[d].if /\ cpu'[d].ncli = cpu[d].ncli
                       /\ cpu'[d].intena = cpu[d].intena
                       /\ cpu'[d].cur = cpu[d].cur
    BY <1>2, <1>3, <1>6 DEF TypeOK
  <1>8. Head(Now(c))[1] \notin LockOp
    BY <1>5 DEF LockOp
  <1> QED BY <1>2, <1>4, <1>5, <1>6, <1>7, <1>8, TailMove

LEMMA KeepsLocks_Started ==
    ASSUME LocksInv, NEW c \in CPU, Started(c) PROVE LocksInv'
  <1>1. At(c, "started")
    BY DEF Started
  <1>2. TypeOK /\ Woken(state, state')
    BY SameState DEF LocksInv, Started
  <1>4. TypeOK'
    BY <1>2, TypeSame DEF Started
  <1>5. /\ code' = [code EXCEPT ![Cur(c)] = Tail(Now(c))] /\ Now(c) # <<>>
        /\ Head(Now(c))[1] = "started"
    BY <1>1, AtFacts DEF Started
  <1>6. /\ lock' = lock /\ use_lock' = use_lock /\ panic' = panic /\ cpu' = cpu
    BY DEF Started
  <1>7. Head(Now(c))[1] \notin LockOp
    BY <1>5 DEF LockOp
  <1> QED BY <1>2, <1>4, <1>5, <1>6, <1>7, TailMove

LEMMA KeepsLocks_Wakeup ==
    ASSUME LocksInv, NEW c \in CPU, Wakeup(c) PROVE LocksInv'
  <1>1. At(c, "wakeup")
    BY DEF Wakeup
  <1>2. TypeOK
    BY DEF LocksInv
  <1>3. Woken(state, state')
    BY <1>2 DEF Wakeup, TypeOK, Woken
  <1>4. TypeOK'
    BY <1>2, <1>3 DEF Wakeup, TypeOK, Woken
  <1>5. /\ code' = [code EXCEPT ![Cur(c)] = Tail(Now(c))] /\ Now(c) # <<>>
        /\ Head(Now(c))[1] = "wakeup"
    BY <1>1, AtFacts DEF Wakeup
  <1>6. /\ lock' = lock /\ use_lock' = use_lock /\ panic' = panic /\ cpu' = cpu
    BY DEF Wakeup
  <1>7. Head(Now(c))[1] \notin LockOp
    BY <1>5 DEF LockOp
  <1> QED BY <1>3, <1>4, <1>5, <1>6, <1>7, TailMove

\* A step that only replaces the code, with something that takes and opens no
\* lock that the old code does not.
LEMMA SpliceMove ==
    ASSUME LocksInv, NEW c \in CPU, NEW s, CodeOK(Cur(c), s),
           code' = [code EXCEPT ![Cur(c)] = s],
           UNCHANGED <<cpu, state, lock, use_lock, freelist, next, held, panic>>,
           \A l \in Lock : Took(s, l, use_lock) <=> Took(Now(c), l, use_lock),
           ~HeadIs(s, "xchg"), ~HeadIs(Now(c), "xchg"),
           ~HeadIs(s, "unlock"), ~HeadIs(Now(c), "unlock"), ~HeadIs(Now(c), "resume"),
           Has(s, "iret") <=> Has(Now(c), "iret"),
           Has(s, "trapret") <=> Has(Now(c), "trapret"), cpu[c].if => Free(s),
           \A x \in Elems(s) : x[1] = "start" => state[x[2]] = "UNUSED",
           ~use_lock => NoKmem(s),
           ~use_lock /\ c = 0 /\ Cur(c) = 0 => Boots(s, cpu[c].if)
    PROVE  LocksInv'
  <1>1. TypeOK /\ TypeOK' /\ Woken(state, state')
    BY TypeSame, SameState DEF LocksInv
  <1>2. CpuOK(cpu[c], Now(c), use_lock)
    BY DEF LocksInv, CpuInv
  <1>3. CpuOK(cpu'[c], s, use_lock)
    BY <1>2, CpuSame
  <1>4. \A l \in Lock : Took(s, l, use_lock) <=> Got(c, l)
    BY DEF Got
  <1> QED BY <1>1, <1>3, <1>4, Move

LEMMA KeepsLocks_PushCli ==
    ASSUME LocksInv, NEW c \in CPU, PushCli(c) PROVE LocksInv'
  <1> DEFINE n == Now(c)
             x == Head(n)
             r == Tail(n)
             a == <<"cli", Arg(c)>>
             s == Cons(a, r)
  <1>1. At(c, "pushcli") /\ cpu[c].if
    BY DEF PushCli
  <1>2. /\ n # <<>> /\ x[1] = "pushcli" /\ x[2] = Arg(c) /\ Rest(c) = r /\ n = code[Cur(c)]
        /\ \A z : Goes(c, z) <=> code' = [code EXCEPT ![Cur(c)] = z]
    BY <1>1, AtFacts
  <1>3. /\ CodeOK(Cur(c), n) /\ CpuOK(cpu[c], n, use_lock)
        /\ x \in Instr /\ Fits(x, r) /\ Mine(Cur(c), x) /\ CodeOK(Cur(c), r)
        /\ Elems(n) = {x} \cup Elems(r)
        /\ \A op : HeadIs(n, op) <=> x[1] = op
        /\ \A op : Has(n, op) <=> x[1] = op \/ Has(r, op)
        /\ \A l : In(n, l) <=> Leaves(x, l) \/ (~Enters(x, l) /\ In(r, l))
        /\ \A y \in Elems(n) : y[1] = "start" => state[y[2]] = "UNUSED"
        /\ ~use_lock => NoKmem(n)
    BY <1>2, Here
  <1>4. code' = [code EXCEPT ![Cur(c)] = s]
    BY <1>2 DEF PushCli, Cons
  <1>5. Arg(c) \in Lock
    BY <1>1, AtArgs DEF LockOp
  <1>6. a \in Instr /\ a[1] = "cli" /\ a[2] = x[2]
    BY <1>5, <1>2, InstrMake DEF LockOp
  <1> HIDE DEF n, x, r, a
  <1>7. ~Has(r, "iret") /\ Free(n)
    BY <1>1, <1>3 DEF CpuOK
  <1>8. Fits(a, r) /\ Mine(Cur(c), a)
    <2>1. Frees(a) = {}
      BY <1>6 DEF Frees
    <2>2. Pair(a, r, "xchg")
      BY <1>2, <1>3, <1>6 DEF Fits, Pair
    <2> QED BY <1>2, <1>3, <1>6, <1>7, <2>1, <2>2 DEF Fits, Mine, MainOp, ListOp, LockOp
  <1>9. CodeOK(Cur(c), s)
    BY <1>3, <1>6, <1>8, ConsOK
  <1>10. /\ \A op : HeadIs(s, op) <=> a[1] = op
         /\ \A op : Has(s, op) <=> a[1] = op \/ Has(r, op)
         /\ \A l : In(s, l) <=> Leaves(a, l) \/ (~Enters(a, l) /\ In(r, l))
         /\ Elems(s) = {a} \cup Elems(r)
    <2>1. r \in Code
      BY <1>3 DEF CodeOK
    <2> QED BY <2>1, <1>6, ConsHas, ConsIn, ConsElems
  <1> HIDE DEF s
  <1>11. \A l : In(s, l) <=> In(n, l)
    BY <1>2, <1>3, <1>6, <1>10 DEF Leaves, Enters
  <1>12. \A l \in Lock : Took(s, l, use_lock) <=> Took(n, l, use_lock)
    BY <1>11 DEF Took
  <1>13. /\ ~HeadIs(s, "xchg") /\ ~HeadIs(n, "xchg") /\ ~HeadIs(s, "unlock")
         /\ ~HeadIs(n, "unlock") /\ ~HeadIs(n, "resume")
         /\ (Has(s, "iret") <=> Has(n, "iret"))
         /\ (Has(s, "trapret") <=> Has(n, "trapret"))
    BY <1>2, <1>3, <1>6, <1>10
  <1>14. cpu[c].if => Free(s)
    BY <1>7, <1>11 DEF Free
  <1>15. /\ \A y \in Elems(s) : y[1] = "start" => state[y[2]] = "UNUSED"
         /\ ~use_lock => NoKmem(s)
    BY <1>2, <1>3, <1>6, <1>10 DEF NoKmem, LockOp
  <1>16. ~use_lock /\ c = 0 /\ Cur(c) = 0 => Boots(s, cpu[c].if)
    <2> SUFFICES ASSUME ~use_lock, c = 0, Cur(c) = 0 PROVE Boots(s, cpu[c].if)
      OBVIOUS
    <2>1. Boots(n, cpu[c].if)
      BY <1>2, HereBoot
    <2>2. ~HasMain(n)
      BY <2>1, <1>1 DEF Boots
    <2>3. ~HasMain(s)
      BY <2>2, <1>2, <1>3, <1>6, <1>10 DEF HasMain, MainOp, ListOp
    <2>4. Has(s, "start") => Has(s, "uselock")
      BY <2>1, <1>2, <1>3, <1>6, <1>10 DEF Boots
    <2> QED BY <2>3, <2>4 DEF Boots
  <1>17. UNCHANGED <<cpu, state, lock, use_lock, freelist, next, held, panic>>
    BY DEF PushCli
  <1> QED BY <1>4, <1>9, <1>12, <1>13, <1>14, <1>15, <1>16, <1>17, SpliceMove DEF n

LEMMA DepthBound ==
    ASSUME NEW n, NEW u, NEW t, CodeOK(t, n)
    PROVE  Depth(n, u) \in 0 .. 3
  <1>1. CASE HeadIs(n, "xchg")
    <2>1. n # <<>> /\ Head(n)[1] = "xchg" /\ Head(n) \in Instr
      BY <1>1, UnconsOK DEF HeadIs
    <2>2. Head(n)[2] \in Lock
      BY <2>1, InstrArgs DEF LockOp
    <2>3. ~In(n, Head(n)[2])
      BY <2>1, UnconsOK DEF Leaves, Enters
    <2> QED BY <2>2, <2>3, Locks3 DEF Depth, Took, Num
  <1>2. CASE ~HeadIs(n, "xchg")
    BY <1>2 DEF Depth, Num
  <1> QED BY <1>1, <1>2

CpuRec == [if : BOOLEAN, ncli : 0 .. 3, intena : BOOLEAN,
           boots : BOOLEAN, started : BOOLEAN, cur : Thread]

LEMMA CliRecord ==
    ASSUME NEW R \in CpuRec, NEW k \in 0 .. 3, R.ncli + 1 = k, NEW e \in BOOLEAN
    PROVE  LET w == [R EXCEPT !.if = FALSE, !.ncli = @ + 1,
                              !.intena = IF R.ncli = 0 THEN e ELSE @]
           IN  /\ w \in CpuRec /\ w.if = FALSE /\ w.ncli = k /\ w.cur = R.cur
               /\ w.intena = IF R.ncli = 0 THEN e ELSE R.intena
  BY DEF CpuRec

LEMMA KeepsLocks_Cli ==
    ASSUME LocksInv, NEW c \in CPU, Cli(c) PROVE LocksInv'
  <1> DEFINE n == Now(c)
             x == Head(n)
             r == Tail(n)
             e == At(c, "cli")
  <1>1. e \/ (At(c, "pushcli") /\ ~cpu[c].if)
    BY DEF Cli
  <1>2. /\ n # <<>> /\ x[1] \in {"pushcli", "cli"} /\ (e <=> x[1] = "cli")
        /\ x[2] = Arg(c) /\ Rest(c) = r /\ n = code[Cur(c)]
        /\ \A z : Goes(c, z) <=> code' = [code EXCEPT ![Cur(c)] = z]
    <2>1. CASE e
      BY <2>1, AtFacts
    <2>2. CASE At(c, "pushcli")
      <3>1. ~e
        BY <2>2 DEF At
      <3> QED BY <2>2, <3>1, AtFacts
    <2> QED BY <1>1, <2>1, <2>2
  <1>3. /\ CodeOK(Cur(c), n) /\ CpuOK(cpu[c], n, use_lock)
        /\ x \in Instr /\ Fits(x, r) /\ Mine(Cur(c), x) /\ CodeOK(Cur(c), r)
        /\ Elems(n) = {x} \cup Elems(r)
        /\ \A op : HeadIs(n, op) <=> x[1] = op
        /\ \A op : Has(n, op) <=> x[1] = op \/ Has(r, op)
        /\ \A l : In(n, l) <=> Leaves(x, l) \/ (~Enters(x, l) /\ In(r, l))
        /\ \A y \in Elems(n) : y[1] = "start" => state[y[2]] = "UNUSED"
        /\ ~use_lock => NoKmem(n)
    BY <1>2, Here
  <1>4. TypeOK /\ LockInv /\ Woken(state, state)
    BY SameState DEF LocksInv
  <1>a. e \in BOOLEAN
    BY DEF At
  <1>b. e \/ ~cpu[c].if
    BY <1>1
  <1>c. Cli(c) <=> /\ e \/ (At(c, "pushcli") /\ ~cpu[c].if)
                   /\ IF Holding(c, Arg(c)) THEN Fail("acquire")
                      ELSE /\ cpu' = [cpu EXCEPT ![c].if = FALSE, ![c].ncli = @ + 1,
                                ![c].intena = IF cpu[c].ncli = 0 THEN e ELSE @]
                           /\ Goes(c, Rest(c))
                           /\ UNCHANGED <<state, lock, use_lock, freelist, next, held, panic>>
    BY DEF Cli
  <1> HIDE DEF n, x, r, e
  <1>5. x[2] \in Lock /\ HeadIs(r, "xchg") /\ Head(r)[2] = x[2]
    BY <1>2, <1>3, InstrArgs DEF Fits, Pair, LockOp
  <1>6. ~In(r, x[2]) /\ ~In(n, x[2])
    <2>1. r # <<>> /\ Head(r)[1] = "xchg"
      BY <1>5 DEF HeadIs
    <2>2. In(r, x[2]) <=> \/ Leaves(Head(r), x[2])
                          \/ ~Enters(Head(r), x[2]) /\ In(Tail(r), x[2])
      BY <1>3, <2>1, UnconsOK
    <2>3. ~In(r, x[2])
      BY <2>1, <2>2, <1>5 DEF Leaves, Enters
    <2> QED BY <2>3, <1>2, <1>3 DEF Leaves
  <1>7. ~Holding(c, Arg(c))
    <2>1. ~Got(c, Arg(c))
      BY <1>2, <1>6 DEF Got, Took, n
    <2> QED BY <2>1, <1>2, <1>4, <1>5 DEF LockInv, Holding
  <1>8. /\ cpu' = [cpu EXCEPT ![c].if = FALSE, ![c].ncli = @ + 1,
                      ![c].intena = IF cpu[c].ncli = 0 THEN e ELSE @]
        /\ code' = [code EXCEPT ![Cur(c)] = r]
        /\ UNCHANGED <<state, lock, use_lock, freelist, next, held, panic>>
    BY <1>2, <1>7, <1>c
  <1>9. \A l : In(r, l) <=> In(n, l)
    BY <1>2, <1>3 DEF Leaves, Enters
  <1>10. \A l \in Lock : Took(r, l, use_lock) <=> Took(n, l, use_lock)
    BY <1>9 DEF Took
  <1>11. Depth(r, use_lock) = Depth(n, use_lock) + 1 /\ Depth(r, use_lock) \in 0 .. 3
    <2>1. Depth(r, use_lock) \in 0 .. 3
      BY <1>3, DepthBound
    <2>2. ~HeadIs(n, "xchg")
      BY <1>2, <1>3
    <2> QED BY <2>1, <2>2, <1>5, <1>10, Locks3 DEF Depth, Num
  <1>12. /\ cpu[c].ncli = Depth(n, use_lock)
         /\ cpu[c] \in CpuRec
    BY <1>3, <1>4 DEF CpuOK, TypeOK, CpuRec
  <1> DEFINE w == [cpu[c] EXCEPT !.if = FALSE, !.ncli = @ + 1,
                                 !.intena = IF cpu[c].ncli = 0 THEN e ELSE @]
  <1>13. /\ cpu' = [cpu EXCEPT ![c] = w]
         /\ w \in CpuRec
         /\ w.if = FALSE /\ w.ncli = Depth(r, use_lock) /\ w.cur = cpu[c].cur
         /\ w.intena = IF cpu[c].ncli = 0 THEN e ELSE cpu[c].intena
    <2>1. cpu' = [cpu EXCEPT ![c] = w]
      BY <1>8
    <2>2. cpu[c].ncli + 1 = Depth(r, use_lock)
      BY <1>11, <1>12
    <2>3. /\ w \in CpuRec /\ w.if = FALSE /\ w.ncli = Depth(r, use_lock)
          /\ w.cur = cpu[c].cur
          /\ w.intena = IF cpu[c].ncli = 0 THEN e ELSE cpu[c].intena
      BY <1>11, <1>12, <1>a, <2>2, CliRecord
    <2> QED BY <2>1, <2>3
  <1> HIDE DEF w
  <1>14. TypeOK'
    BY <1>4, <1>8, <1>13 DEF TypeOK, CpuRec
  <1>15. /\ cpu'[c] = w /\ \A d \in CPU : d # c => cpu'[d] = cpu[d]
    BY <1>4, <1>13 DEF TypeOK
  <1>16. CpuOK(w, r, use_lock)
    <2>1. w.intena => ~Has(r, "iret")
      BY <1>2, <1>3, <1>12, <1>13 DEF Fits, CpuOK
    <2>2. w.cur \in Proc /\ Own(r) => w.intena
      <3>1. Own(r) => Own(n)
        BY <1>2, <1>3 DEF Own
      <3>2. ~HeadIs(n, "resume")
        BY <1>2, <1>3
      <3> QED BY <3>1, <3>2, <1>b, <1>3, <1>13 DEF CpuOK
    <2>3. w.ncli # 0
      BY <1>11, <1>12, <1>13 DEF CpuRec
    <2> QED BY <2>1, <2>2, <2>3, <1>13 DEF CpuOK
  <1>17. /\ \A y \in Elems(r) : y[1] = "start" => state[y[2]] = "UNUSED"
         /\ ~use_lock => NoKmem(r)
    BY <1>3 DEF NoKmem
  <1>18. ~use_lock /\ c = 0 /\ Cur(c) = 0 => Boots(r, w.if)
    <2> SUFFICES ASSUME ~use_lock, c = 0, Cur(c) = 0 PROVE Boots(r, w.if)
      OBVIOUS
    <2>1. Boots(n, cpu[c].if)
      BY <1>2, HereBoot
    <2>2. x[1] # "uselock" /\ x[1] \notin MainOp
      BY <1>2 DEF MainOp, ListOp
    <2> QED BY <2>1, <2>2, <1>3, BootTail
  <1>19. ~HeadIs(Now(c), "unlock") /\ ~HeadIs(r, "unlock")
         /\ \A l \in Lock : Took(r, l, use_lock) <=> Got(c, l)
    BY <1>2, <1>3, <1>5, <1>10 DEF n, HeadIs, Got
  <1>20. Woken(state, state') /\ lock' = lock /\ use_lock' = use_lock /\ panic' = panic
    BY <1>4, <1>8
  <1> QED BY <1>3, <1>8, <1>13, <1>14, <1>15, <1>16, <1>17, <1>18, <1>19, <1>20, Move

\* The locks, said of what the CPUs execute after the step.
LEMMA LocksAfter ==
    ASSUME NEW M, \A d \in CPU : Now(d)' = M[d],
           \A k \in Lock :
              /\ \A d, e \in CPU :
                    Took(M[d], k, use_lock') /\ Took(M[e], k, use_lock') => d = e
              /\ lock'[k].locked <=> \E d \in CPU : Took(M[d], k, use_lock')
              /\ \A d \in CPU :
                    lock'[k].cpu = d <=> Took(M[d], k, use_lock') /\ ~Opening(M[d], k)
    PROVE  LockInv'
  BY DEF LockInv, Got

LEMMA KeepsLocks_Xchg ==
    ASSUME LocksInv, NEW c \in CPU, Xchg(c) PROVE LocksInv'
  <1> DEFINE n == Now(c)
             x == Head(n)
             r == Tail(n)
             l == x[2]
  <1>1. At(c, "xchg") /\ ~lock[Arg(c)].locked
    BY DEF Xchg
  <1>2. /\ n # <<>> /\ x[1] = "xchg" /\ l = Arg(c) /\ Rest(c) = r /\ n = code[Cur(c)]
        /\ \A z : Goes(c, z) <=> code' = [code EXCEPT ![Cur(c)] = z]
    BY <1>1, AtFacts
  <1>3. /\ Cur(c) \in Thread /\ CodeOK(Cur(c), n) /\ CpuOK(cpu[c], n, use_lock)
        /\ x \in Instr /\ Fits(x, r) /\ CodeOK(Cur(c), r)
        /\ Elems(n) = {x} \cup Elems(r)
        /\ \A op : HeadIs(n, op) <=> x[1] = op
        /\ \A op : Has(n, op) <=> x[1] = op \/ Has(r, op)
        /\ \A k : In(n, k) <=> Leaves(x, k) \/ (~Enters(x, k) /\ In(r, k))
        /\ \A y \in Elems(n) : y[1] = "start" => state[y[2]] = "UNUSED"
        /\ ~use_lock => NoKmem(n)
    BY <1>2, Here
  <1>4. /\ TypeOK /\ CodeInv /\ BootInv /\ ThreadInv /\ LockInv /\ CpuInv
        /\ Woken(state, state) /\ panic = "none"
    BY SameState DEF LocksInv
  <1>5. /\ code' = [code EXCEPT ![Cur(c)] = r]
        /\ lock' = [lock EXCEPT ![l] = [locked |-> TRUE, cpu |-> c]]
        /\ UNCHANGED <<cpu, state, use_lock, freelist, next, held, panic>>
    BY <1>2 DEF Xchg
  <1>6. l \in Lock /\ ~lock[l].locked
    BY <1>1, <1>2, AtArgs DEF LockOp
  <1> HIDE DEF n, x, r, l
  <1>7. TypeOK'
    BY <1>4, <1>5, <1>6 DEF TypeOK
  <1>8. /\ \A y \in Elems(r) : y[1] = "start" => state[y[2]] = "UNUSED"
        /\ ~use_lock => NoKmem(r)
    BY <1>3 DEF NoKmem
  <1>9. /\ CodeInv' /\ ThreadInv' /\ Now(c)' = r
        /\ \A d \in CPU : d # c => Now(d)' = Now(d)
        /\ \A t \in Thread : t # Cur(c) => code'[t] = code[t]
    <2>1. /\ \A d \in CPU : cpu'[d].cur = cpu[d].cur
          /\ Woken(state, state')
      BY <1>4, <1>5
    <2> QED BY <1>3, <1>4, <1>5, <1>8, <2>1, MoveCode
  <1>10. In(r, l) /\ ~In(n, l) /\ (l = "kmem" => use_lock)
         /\ \A k : k # l => (In(r, k) <=> In(n, k))
    <2>1. In(r, l)
      BY <1>2, <1>3 DEF Fits, l
    <2>2. ~In(n, l) /\ \A k : k # l => (In(r, k) <=> In(n, k))
      BY <1>2, <1>3 DEF Leaves, Enters, l
    <2>3. l = "kmem" => use_lock
      BY <1>2, <1>3 DEF NoKmem, LockOp, l
    <2> QED BY <2>1, <2>2, <2>3
  <1>11. ~HeadIs(r, "xchg") /\ ~HeadIs(r, "unlock") /\ HeadIs(n, "xchg")
         /\ ~HeadIs(n, "unlock") /\ ~HeadIs(n, "resume")
    BY <1>2, <1>3 DEF Fits, Plain
  <1>12. LockInv'
    <2> DEFINE M == [d \in CPU |-> IF d = c THEN r ELSE Now(d)]
               u == use_lock
    <2>0. M[c] = r /\ \A d \in CPU : d # c => M[d] = Now(d)
      OBVIOUS
    <2>a. \A d \in CPU : Now(d)' = M[d]
      BY <1>9
    <2> HIDE DEF M
    <2>1. /\ \A d \in CPU, k \in Lock : d # c \/ k # l => (Took(M[d], k, u) <=> Got(d, k))
          /\ Took(M[c], l, u)
      BY <2>0, <1>10 DEF Got, Took, n
    <2>2. \A d \in CPU, k \in Lock : Opening(M[d], k) <=> Opening(Now(d), k)
      BY <2>0, <1>11 DEF Opening, n
    <2>3. \A d \in CPU : ~Got(d, l)
      BY <1>4, <1>6 DEF LockInv
    <2>4. /\ lock'[l].locked = TRUE /\ lock'[l].cpu = c
          /\ \A k \in Lock : k # l => lock'[k] = lock[k]
      BY <1>4, <1>5, <1>6 DEF TypeOK
    <2>5. ~Opening(M[c], l)
      BY <2>0, <1>11 DEF Opening
    <2>8. ASSUME NEW k \in Lock
          PROVE  /\ \A d, e \in CPU : Took(M[d], k, u) /\ Took(M[e], k, u) => d = e
                 /\ lock'[k].locked <=> \E d \in CPU : Took(M[d], k, u)
                 /\ \A d \in CPU :
                       lock'[k].cpu = d <=> Took(M[d], k, u) /\ ~Opening(M[d], k)
      <3>6. CASE k = l
        BY <2>1, <2>3, <2>4, <2>5, <3>6
      <3>7. CASE k # l
        BY <2>1, <2>2, <2>4, <3>7, <1>4 DEF LockInv
      <3> QED BY <3>6, <3>7
    <2>9. use_lock' = u
      BY <1>5
    <2> HIDE DEF u
    <2> QED BY <2>8, <2>9, <2>a, LocksAfter
  <1>13. CpuOK(cpu'[c], r, use_lock)
    <2>1. Depth(r, use_lock) = Depth(n, use_lock) /\ Depth(n, use_lock) # 0
      <3>1. /\ Took(r, l, use_lock) /\ ~Took(n, l, use_lock)
            /\ \A k : k # l => (Took(r, k, use_lock) <=> Took(n, k, use_lock))
        BY <1>10 DEF Took
      <3> QED BY <3>1, <1>6, <1>11, Locks3 DEF Depth, Num
    <2>2. (Has(r, "iret") <=> Has(n, "iret")) /\ (Own(r) <=> Own(n))
      BY <1>2, <1>3 DEF Own
    <2>3. cpu'[c] = cpu[c]
      BY <1>5
    <2> QED BY <2>1, <2>2, <2>3, <1>3, <1>11 DEF CpuOK
  <1>14. CpuInv'
    BY <1>4, <1>5, <1>9, <1>13, MoveCpus
  <1>15. ~use_lock /\ c = 0 /\ Cur(c) = 0 => Boots(r, cpu'[c].if)
    <2> SUFFICES ASSUME ~use_lock, c = 0, Cur(c) = 0 PROVE Boots(r, cpu'[c].if)
      OBVIOUS
    <2>1. Boots(n, cpu[c].if)
      BY <1>2, HereBoot
    <2>2. x[1] # "uselock" /\ x[1] \notin MainOp
      BY <1>2 DEF MainOp, ListOp
    <2> QED BY <2>1, <2>2, <1>3, BootTail
  <1>16. BootInv'
    <2>1. code'[Cur(c)] = r /\ use_lock' = use_lock /\ Woken(state, state')
          /\ \A d \in CPU : cpu'[d].if = cpu[d].if
      BY <1>3, <1>4, <1>5 DEF CodeInv
    <2> QED BY <2>1, <1>4, <1>8, <1>9, <1>15, MoveBoot
  <1> QED BY <1>4, <1>5, <1>7, <1>9, <1>12, <1>14, <1>16 DEF LocksInv

LEMMA KeepsLocks_Disown ==
    ASSUME LocksInv, NEW c \in CPU, Disown(c) PROVE LocksInv'
  <1> DEFINE n == Now(c)
             x == Head(n)
             r == Tail(n)
             l == x[2]
  <1>1. At(c, "disown")
    BY DEF Disown
  <1>2. /\ n # <<>> /\ x[1] = "disown" /\ l = Arg(c) /\ Rest(c) = r /\ n = code[Cur(c)]
        /\ \A z : Goes(c, z) <=> code' = [code EXCEPT ![Cur(c)] = z]
    BY <1>1, AtFacts
  <1>3. /\ Cur(c) \in Thread /\ CodeOK(Cur(c), n) /\ CpuOK(cpu[c], n, use_lock)
        /\ x \in Instr /\ Fits(x, r) /\ CodeOK(Cur(c), r)
        /\ Elems(n) = {x} \cup Elems(r)
        /\ \A op : HeadIs(n, op) <=> x[1] = op
        /\ \A op : Has(n, op) <=> x[1] = op \/ Has(r, op)
        /\ \A k : In(n, k) <=> Leaves(x, k) \/ (~Enters(x, k) /\ In(r, k))
        /\ \A y \in Elems(n) : y[1] = "start" => state[y[2]] = "UNUSED"
        /\ ~use_lock => NoKmem(n)
    BY <1>2, Here
  <1>4. /\ TypeOK /\ CodeInv /\ BootInv /\ ThreadInv /\ LockInv /\ CpuInv
        /\ Woken(state, state) /\ panic = "none"
    BY SameState DEF LocksInv
  <1>5. l \in Lock
    BY <1>1, <1>2, AtArgs DEF LockOp
  <1> HIDE DEF n, x, r, l
  <1>6. HeadIs(r, "unlock") /\ Head(r)[2] = l /\ ~HeadIs(r, "xchg") /\ r # <<>>
    BY <1>2, <1>3 DEF Fits, Pair, HeadIs, l
  <1>7. In(r, l) /\ (l = "kmem" => use_lock) /\ \A k : In(r, k) <=> In(n, k)
    <2>1. \A k : In(r, k) <=> In(n, k)
      BY <1>2, <1>3 DEF Leaves, Enters
    <2>2. In(r, l)
      <3>1. In(r, l) <=> \/ Leaves(Head(r), l)
                         \/ ~Enters(Head(r), l) /\ In(Tail(r), l)
        BY <1>3, <1>6, UnconsOK
      <3> QED BY <3>1, <1>6 DEF HeadIs, Leaves
    <2>3. l = "kmem" => use_lock
      BY <1>2, <1>3 DEF NoKmem, LockOp, l
    <2> QED BY <2>1, <2>2, <2>3
  <1>8. Got(c, l) /\ ~Opening(n, l) /\ Holding(c, l)
    <2>1. Got(c, l)
      BY <1>7 DEF Got, Took, n
    <2>2. ~Opening(n, l)
      BY <1>2, <1>3 DEF Opening
    <2> QED BY <2>1, <2>2, <1>4, <1>5 DEF LockInv, Holding, n
  <1>9. /\ code' = [code EXCEPT ![Cur(c)] = r]
        /\ lock' = [lock EXCEPT ![l].cpu = NoCpu]
        /\ UNCHANGED <<cpu, state, use_lock, freelist, next, held, panic>>
    BY <1>2, <1>8 DEF Disown
  <1>10. TypeOK'
    BY <1>4, <1>5, <1>9 DEF TypeOK
  <1>11. /\ \A y \in Elems(r) : y[1] = "start" => state[y[2]] = "UNUSED"
         /\ ~use_lock => NoKmem(r)
    BY <1>3 DEF NoKmem
  <1>12. /\ CodeInv' /\ ThreadInv' /\ Now(c)' = r
         /\ \A d \in CPU : d # c => Now(d)' = Now(d)
         /\ \A t \in Thread : t # Cur(c) => code'[t] = code[t]
    <2>1. /\ \A d \in CPU : cpu'[d].cur = cpu[d].cur
          /\ Woken(state, state')
      BY <1>4, <1>9
    <2> QED BY <1>3, <1>4, <1>9, <1>11, <2>1, MoveCode
  <1>13. LockInv'
    <2> DEFINE M == [d \in CPU |-> IF d = c THEN r ELSE Now(d)]
               u == use_lock
    <2>0. M[c] = r /\ \A d \in CPU : d # c => M[d] = Now(d)
      OBVIOUS
    <2>a. \A d \in CPU : Now(d)' = M[d]
      BY <1>12
    <2> HIDE DEF M
    <2>1. \A d \in CPU, k \in Lock : Took(M[d], k, u) <=> Got(d, k)
      BY <2>0, <1>7 DEF Got, Took, n
    <2>2. /\ \A d \in CPU, k \in Lock :
               d # c \/ k # l => (Opening(M[d], k) <=> Opening(Now(d), k))
          /\ Opening(M[c], l)
      <3>1. \A k \in Lock : Opening(r, k) <=> k = l
        BY <1>6 DEF Opening
      <3>2. \A k \in Lock : ~Opening(n, k)
        BY <1>2, <1>3 DEF Opening
      <3> QED BY <3>1, <3>2, <2>0, <1>5 DEF n
    <2>3. /\ lock'[l].locked = lock[l].locked /\ lock'[l].cpu = NoCpu
          /\ \A k \in Lock : k # l => lock'[k] = lock[k]
      BY <1>4, <1>5, <1>9 DEF TypeOK
    <2>8. ASSUME NEW k \in Lock
          PROVE  /\ \A d, e \in CPU : Took(M[d], k, u) /\ Took(M[e], k, u) => d = e
                 /\ lock'[k].locked <=> \E d \in CPU : Took(M[d], k, u)
                 /\ \A d \in CPU :
                       lock'[k].cpu = d <=> Took(M[d], k, u) /\ ~Opening(M[d], k)
      <3>6. CASE k = l
        <4>1. \A d \in CPU : d # c => ~Got(d, l)
          BY <1>4, <1>5, <1>8 DEF LockInv
        <4>2. \A d \in CPU : lock'[l].cpu # d
          BY <2>3, ThreadFacts
        <4>3. \A d \in CPU : ~(Took(M[d], l, u) /\ ~Opening(M[d], l))
          BY <4>1, <2>1, <2>2, <1>5
        <4> QED BY <2>1, <2>3, <3>6, <4>2, <4>3, <1>4, <1>5 DEF LockInv
      <3>7. CASE k # l
        BY <2>1, <2>2, <2>3, <3>7, <1>4 DEF LockInv
      <3> QED BY <3>6, <3>7
    <2>9. use_lock' = u
      BY <1>9
    <2> HIDE DEF u
    <2> QED BY <2>8, <2>9, <2>a, LocksAfter
  <1>14. CpuOK(cpu'[c], r, use_lock)
    <2>1. \A k \in Lock : Took(r, k, use_lock) <=> Took(n, k, use_lock)
      BY <1>7 DEF Took
    <2>2. (Has(r, "iret") <=> Has(n, "iret")) /\ (Has(r, "trapret") <=> Has(n, "trapret"))
      BY <1>2, <1>3
    <2>3. cpu'[c] = cpu[c]
      BY <1>9
    <2>4. cpu[c].if => Free(r)
      BY <1>3, <1>7 DEF CpuOK, Free
    <2>5. ~HeadIs(n, "xchg") /\ ~HeadIs(n, "resume")
      BY <1>2, <1>3
    <2> QED BY <2>1, <2>2, <2>3, <2>4, <2>5, <1>3, <1>6, CpuSame
  <1>15. CpuInv'
    BY <1>4, <1>9, <1>12, <1>14, MoveCpus
  <1>16. ~use_lock /\ c = 0 /\ Cur(c) = 0 => Boots(r, cpu'[c].if)
    <2> SUFFICES ASSUME ~use_lock, c = 0, Cur(c) = 0 PROVE Boots(r, cpu'[c].if)
      OBVIOUS
    <2>1. Boots(n, cpu[c].if)
      BY <1>2, HereBoot
    <2>2. x[1] # "uselock" /\ x[1] \notin MainOp
      BY <1>2 DEF MainOp, ListOp
    <2> QED BY <2>1, <2>2, <1>3, BootTail
  <1>17. BootInv'
    <2>1. code'[Cur(c)] = r /\ use_lock' = use_lock /\ Woken(state, state')
          /\ \A d \in CPU : cpu'[d].if = cpu[d].if
      BY <1>3, <1>4, <1>9 DEF CodeInv
    <2> QED BY <2>1, <1>4, <1>11, <1>12, <1>16, MoveBoot
  <1> QED BY <1>4, <1>9, <1>10, <1>12, <1>13, <1>15, <1>17 DEF LocksInv

LEMMA PopRecord ==
    ASSUME NEW R \in CpuRec, NEW k \in 0 .. 3, R.ncli - 1 = k
    PROVE  /\ PopCli(R) \in CpuRec /\ PopCli(R).ncli = k /\ PopCli(R).cur = R.cur
           /\ PopCli(R).intena = R.intena
           /\ PopCli(R).if <=> R.ncli = 1 /\ R.intena
  BY DEF CpuRec, PopCli

LEMMA KeepsLocks_Unlock ==
    ASSUME LocksInv, NEW c \in CPU, Unlock(c) PROVE LocksInv'
  <1> DEFINE n == Now(c)
             x == Head(n)
             r == Tail(n)
             l == x[2]
  <1>1. At(c, "unlock")
    BY DEF Unlock
  <1>2. /\ n # <<>> /\ x[1] = "unlock" /\ l = Arg(c) /\ Rest(c) = r /\ n = code[Cur(c)]
        /\ \A z : Goes(c, z) <=> code' = [code EXCEPT ![Cur(c)] = z]
    BY <1>1, AtFacts
  <1>3. /\ Cur(c) \in Thread /\ CodeOK(Cur(c), n) /\ CpuOK(cpu[c], n, use_lock)
        /\ x \in Instr /\ Fits(x, r) /\ CodeOK(Cur(c), r)
        /\ Elems(n) = {x} \cup Elems(r)
        /\ \A op : HeadIs(n, op) <=> x[1] = op
        /\ \A op : Has(n, op) <=> x[1] = op \/ Has(r, op)
        /\ \A k : In(n, k) <=> Leaves(x, k) \/ (~Enters(x, k) /\ In(r, k))
        /\ \A y \in Elems(n) : y[1] = "start" => state[y[2]] = "UNUSED"
        /\ ~use_lock => NoKmem(n)
    BY <1>2, Here
  <1>4. /\ TypeOK /\ CodeInv /\ BootInv /\ ThreadInv /\ LockInv /\ CpuInv
        /\ Woken(state, state) /\ panic = "none"
    BY SameState DEF LocksInv
  <1>5. l \in Lock
    BY <1>1, <1>2, AtArgs DEF LockOp
  <1>a. HeadIs(n, "unlock") /\ Head(n)[2] = l
    BY <1>2, <1>3
  <1> HIDE DEF n, x, r, l
  <1>6. /\ ~HeadIs(r, "xchg") /\ ~HeadIs(r, "unlock") /\ ~In(r, l) /\ ~In(r, "kmem")
        /\ ~HeadIs(n, "xchg") /\ ~HeadIs(n, "resume")
    BY <1>2, <1>3 DEF Fits, Plain, l
  <1>7. In(n, l) /\ (l = "kmem" => use_lock) /\ \A k : k # l => (In(r, k) <=> In(n, k))
    <2>1. In(n, l) /\ \A k : k # l => (In(r, k) <=> In(n, k))
      BY <1>2, <1>3 DEF Leaves, Enters, l
    <2>3. l = "kmem" => use_lock
      BY <1>2, <1>3 DEF NoKmem, LockOp, l
    <2> QED BY <2>1, <2>3
  <1>8. /\ cpu[c].ncli = Depth(n, use_lock) /\ cpu[c] \in CpuRec
        /\ Depth(r, use_lock) = Depth(n, use_lock) - 1
        /\ Depth(r, use_lock) \in 0 .. 3
    <2>1. Depth(r, use_lock) \in 0 .. 3
      BY <1>3, DepthBound
    <2>2. /\ ~Took(r, l, use_lock) /\ Took(n, l, use_lock)
          /\ \A k : k # l => (Took(r, k, use_lock) <=> Took(n, k, use_lock))
      BY <1>6, <1>7 DEF Took
    <2>3. Depth(r, use_lock) = Depth(n, use_lock) - 1
      BY <2>2, <1>5, <1>6, Locks3 DEF Depth, Num
    <2>4. cpu[c].ncli = Depth(n, use_lock) /\ cpu[c] \in CpuRec
      BY <1>3, <1>4 DEF CpuOK, TypeOK, CpuRec
    <2> QED BY <2>1, <2>3, <2>4
  <1>9. cpu[c].ncli # 0 /\ ~cpu[c].if /\ cpu[c].ncli - 1 = Depth(r, use_lock)
    <2>1. cpu[c].ncli \in 0 .. 3
      BY <1>8 DEF CpuRec
    <2>2. cpu[c].ncli # 0 /\ cpu[c].ncli - 1 = Depth(r, use_lock)
      BY <2>1, <1>8
    <2> QED BY <2>2, <1>3 DEF CpuOK
  <1> DEFINE w == PopCli(cpu[c])
  <1>10. /\ code' = [code EXCEPT ![Cur(c)] = r]
         /\ lock' = [lock EXCEPT ![l].locked = FALSE]
         /\ cpu' = [cpu EXCEPT ![c] = w]
         /\ UNCHANGED <<state, use_lock, freelist, next, held, panic>>
    BY <1>2, <1>9 DEF Unlock
  <1>11. /\ w \in CpuRec /\ w.ncli = Depth(r, use_lock) /\ w.cur = cpu[c].cur
         /\ w.intena = cpu[c].intena
         /\ w.if <=> cpu[c].ncli = 1 /\ cpu[c].intena
    BY <1>8, <1>9, PopRecord
  <1> HIDE DEF w
  <1>12. TypeOK'
    BY <1>4, <1>5, <1>10, <1>11 DEF TypeOK, CpuRec
  <1>13. cpu'[c] = w /\ \A d \in CPU : d # c => cpu'[d] = cpu[d]
    BY <1>4, <1>10 DEF TypeOK
  <1>14. /\ \A y \in Elems(r) : y[1] = "start" => state[y[2]] = "UNUSED"
         /\ ~use_lock => NoKmem(r)
    BY <1>3 DEF NoKmem
  <1>15. /\ CodeInv' /\ ThreadInv' /\ Now(c)' = r
         /\ \A d \in CPU : d # c => Now(d)' = Now(d)
         /\ \A t \in Thread : t # Cur(c) => code'[t] = code[t]
    <2>1. /\ \A d \in CPU : cpu'[d].cur = cpu[d].cur
          /\ Woken(state, state')
      BY <1>4, <1>10, <1>11, <1>13
    <2> QED BY <1>3, <1>4, <1>10, <1>14, <2>1, MoveCode
  <1>16. LockInv'
    <2> DEFINE M == [d \in CPU |-> IF d = c THEN r ELSE Now(d)]
               u == use_lock
    <2>0. M[c] = r /\ \A d \in CPU : d # c => M[d] = Now(d)
      OBVIOUS
    <2>a. \A d \in CPU : Now(d)' = M[d]
      BY <1>15
    <2> HIDE DEF M
    <2>1. /\ \A d \in CPU, k \in Lock : d # c \/ k # l => (Took(M[d], k, u) <=> Got(d, k))
          /\ ~Took(M[c], l, u) /\ Got(c, l)
      BY <2>0, <1>6, <1>7 DEF Got, Took, n
    <2>2. /\ \A d \in CPU, k \in Lock :
               d # c \/ k # l => (Opening(M[d], k) <=> Opening(Now(d), k))
          /\ Opening(Now(c), l)
      <3>1. \A k \in Lock : ~Opening(r, k)
        BY <1>6 DEF Opening
      <3>2. \A k \in Lock : Opening(n, k) <=> k = l
        BY <1>a DEF Opening
      <3> QED BY <3>1, <3>2, <2>0, <1>5 DEF n
    <2>3. /\ lock'[l].locked = FALSE /\ lock'[l].cpu = lock[l].cpu
          /\ \A k \in Lock : k # l => lock'[k] = lock[k]
      BY <1>4, <1>5, <1>10 DEF TypeOK
    <2>8. ASSUME NEW k \in Lock
          PROVE  /\ \A d, e \in CPU : Took(M[d], k, u) /\ Took(M[e], k, u) => d = e
                 /\ lock'[k].locked <=> \E d \in CPU : Took(M[d], k, u)
                 /\ \A d \in CPU :
                       lock'[k].cpu = d <=> Took(M[d], k, u) /\ ~Opening(M[d], k)
      <3>6. CASE k = l
        <4>1. \A d \in CPU : d # c => ~Got(d, l)
          BY <1>4, <1>5, <2>1 DEF LockInv
        <4>2. \A d \in CPU : ~Took(M[d], l, u)
          BY <4>1, <2>1, <1>5
        <4>3. \A d \in CPU : lock[l].cpu # d
          BY <4>1, <2>2, <1>4, <1>5 DEF LockInv
        <4> QED BY <2>3, <3>6, <4>2, <4>3
      <3>7. CASE k # l
        BY <2>1, <2>2, <2>3, <3>7, <1>4 DEF LockInv
      <3> QED BY <3>6, <3>7
    <2>9. use_lock' = u
      BY <1>10
    <2> HIDE DEF u
    <2> QED BY <2>8, <2>9, <2>a, LocksAfter
  <1>17. CpuOK(w, r, use_lock)
    <2>1. (Has(r, "iret") <=> Has(n, "iret")) /\ (Own(r) <=> Own(n))
      BY <1>2, <1>3 DEF Own
    <2>2. /\ cpu[c].intena => ~Has(r, "iret")
          /\ cpu[c].cur \in Proc /\ Own(r) => cpu[c].intena
      BY <2>1, <1>3, <1>6, <1>9 DEF CpuOK
    <2>3. w.ncli = 0 <=> cpu[c].ncli = 1
      BY <1>8, <1>9, <1>11 DEF CpuRec
    <2>4. w.if => Free(r)
      <3> SUFFICES ASSUME w.ncli = 0 PROVE Free(r)
        BY <2>3, <1>11
      <3>1. Depth(r, use_lock) = 0
        BY <1>11
      <3>2. ~Took(r, "ticks", use_lock) /\ ~Took(r, "ptable", use_lock)
        BY <3>1 DEF Depth, Num
      <3> QED BY <3>2, <1>6, Locks3 DEF Free, Took
    <2> QED BY <2>2, <2>3, <2>4, <1>11 DEF CpuOK
  <1>18. CpuInv'
    <2>1. use_lock' = use_lock /\ CpuOK(cpu'[c], r, use_lock)
      BY <1>10, <1>13, <1>17
    <2> QED BY <2>1, <1>4, <1>13, <1>15, MoveCpus
  <1>19. ~use_lock /\ c = 0 /\ Cur(c) = 0 => Boots(r, cpu'[c].if)
    <2> SUFFICES ASSUME ~use_lock, c = 0, Cur(c) = 0 PROVE Boots(r, cpu'[c].if)
      OBVIOUS
    <2>1. Boots(n, cpu[c].if)
      BY <1>2, HereBoot
    <2>2. x[1] # "uselock" /\ x[1] \notin MainOp
      BY <1>2 DEF MainOp, ListOp
    <2> QED BY <2>1, <2>2, <1>3, BootTail
  <1>20. BootInv'
    <2>1. code'[Cur(c)] = r /\ use_lock' = use_lock /\ Woken(state, state')
          /\ \A d \in CPU : d # c => cpu'[d].if = cpu[d].if
      BY <1>3, <1>4, <1>10, <1>13 DEF CodeInv
    <2> QED BY <2>1, <1>4, <1>14, <1>15, <1>19, MoveBoot
  <1> QED BY <1>4, <1>10, <1>12, <1>15, <1>16, <1>18, <1>20 DEF LocksInv

\* Before uselock whoever is in main, or uses the list, is CPU 0 with
\* interrupts off.
LEMMA BootCpu ==
    ASSUME LocksInv, NEW c \in CPU, ~use_lock, Now(c) # <<>>, Head(Now(c))[1] \in MainOp
    PROVE  c = 0 /\ Cur(c) = 0 /\ ~cpu[c].if /\ Boots(Now(c), cpu[c].if)
  <1>1. /\ \A d \in CPU : Cur(d) = d
        /\ Boots(code[0], cpu[0].if)
    BY HereBoot
  <1>2. Mine(Cur(c), Head(Now(c)))
    BY Here
  <1>3. c = 0 /\ Cur(c) = 0
    BY <1>1, <1>2, ThreadFacts DEF Mine, MainOp
  <1>4. Now(c) = code[0]
    BY <1>3 DEF Now
  <1>5. HasMain(Now(c))
    BY Here DEF HasMain
  <1> QED BY <1>1, <1>3, <1>4, <1>5 DEF Boots

LEMMA BootSplice ==
    ASSUME NEW n, NEW x, NEW r, NEW s, NEW on, Boots(n, on), HasMain(n), x[1] # "uselock",
           x[1] # "start", \A op : Has(n, op) <=> x[1] = op \/ Has(r, op),
           HeadMain(s), Has(s, "start") => Has(r, "start"),
           Has(r, "uselock") => Has(s, "uselock")
    PROVE  Boots(s, on)
  BY DEF Boots

LEMMA KeepsLocks_IfLock ==
    ASSUME LocksInv, NEW c \in CPU, IfLock(c) PROVE LocksInv'
  <1> DEFINE n == Now(c)
             x == Head(n)
             r == Tail(n)
  <1>1. At(c, "iflock")
    BY DEF IfLock
  <1>2. /\ n # <<>> /\ x[1] = "iflock" /\ Rest(c) = r /\ n = code[Cur(c)]
        /\ \A z : Goes(c, z) <=> code' = [code EXCEPT ![Cur(c)] = z]
    BY <1>1, AtFacts
  <1>3. /\ CodeOK(Cur(c), n) /\ CpuOK(cpu[c], n, use_lock)
        /\ x \in Instr /\ Fits(x, r) /\ Mine(Cur(c), x) /\ CodeOK(Cur(c), r)
        /\ Elems(n) = {x} \cup Elems(r)
        /\ \A op : HeadIs(n, op) <=> x[1] = op
        /\ \A op : Has(n, op) <=> x[1] = op \/ Has(r, op)
        /\ \A l : In(n, l) <=> Leaves(x, l) \/ (~Enters(x, l) /\ In(r, l))
        /\ \A y \in Elems(n) : y[1] = "start" => state[y[2]] = "UNUSED"
        /\ ~use_lock => NoKmem(n)
    BY <1>2, Here
  <1>4. code' = [code EXCEPT ![Cur(c)] = Cat(CheckedLock, r)]
    BY <1>2 DEF IfLock, Cat
  <1>5. UNCHANGED <<cpu, state, lock, use_lock, freelist, next, held, panic>>
    BY DEF IfLock
  <1>6. /\ Plain(r) /\ In(r, "kmem") /\ (Cur(c) = 0 \/ Cur(c) \in Proc)
        /\ ~HeadIs(n, "xchg") /\ ~HeadIs(n, "unlock") /\ ~HeadIs(n, "resume")
    BY <1>2, <1>3 DEF Fits, Mine, ListOp
  <1>7. \A l : In(n, l) <=> l # "kmem" /\ In(r, l)
    BY <1>2, <1>3 DEF Leaves, Enters
  <1>8. CASE use_lock
    <2> DEFINE s == Acq("kmem", r)
    <2>1. code' = [code EXCEPT ![Cur(c)] = s]
      <3>1. r \in Code
        BY <1>3 DEF CodeOK
      <3>2. Cat(acquire("kmem"), r) = s
        BY <3>1, UnfoldCalls, Locks3
      <3> QED BY <3>2, <1>4, <1>8 DEF CheckedLock
    <2>2. /\ CodeOK(Cur(c), s) /\ Plain(s)
          /\ \A k : In(s, k) <=> k # "kmem" /\ In(r, k)
          /\ \A op : op \notin LockOp => (Has(s, op) <=> Has(r, op))
          /\ Elems(s) = {<<"pushcli", "kmem">>, <<"xchg", "kmem">>} \cup Elems(r)
      BY <1>3, <1>6, AcqOK, Locks3
    <2> HIDE DEF n, x, r, s
    <2>3. \A l \in Lock : Took(s, l, use_lock) <=> Took(n, l, use_lock)
      BY <1>7, <2>2 DEF Took
    <2>4. cpu[c].if => Free(s)
      BY <1>3, <1>7, <2>2 DEF CpuOK, Free
    <2>5. /\ Has(s, "iret") <=> Has(n, "iret")
          /\ Has(s, "trapret") <=> Has(n, "trapret")
      BY <1>2, <1>3, <2>2 DEF LockOp
    <2>6. \A y \in Elems(s) : y[1] = "start" => state[y[2]] = "UNUSED"
      BY <1>3, <2>2
    <2>7. ~HeadIs(s, "xchg") /\ ~HeadIs(s, "unlock")
      BY <2>2 DEF Plain
    <2> QED BY <1>5, <1>6, <1>8, <2>1, <2>2, <2>3, <2>4, <2>5, <2>6, <2>7, SpliceMove DEF n
  <1>9. CASE ~use_lock
    <2>1. code' = [code EXCEPT ![Cur(c)] = r]
      <3>1. r \in Code
        BY <1>3 DEF CodeOK
      <3>2. Cat(<<>>, r) = r
        BY <3>1, Assoc
      <3> QED BY <3>2, <1>4, <1>9 DEF CheckedLock
    <2>2. c = 0 /\ Cur(c) = 0 /\ ~cpu[c].if /\ Boots(n, cpu[c].if)
      BY <1>2, <1>9, BootCpu DEF MainOp, ListOp
    <2> HIDE DEF n, x, r
    <2>3. \A l \in Lock : Took(r, l, use_lock) <=> Took(n, l, use_lock)
      BY <1>7, <1>9 DEF Took
    <2>4. /\ Has(r, "iret") <=> Has(n, "iret")
          /\ Has(r, "trapret") <=> Has(n, "trapret")
          /\ ~HeadIs(r, "xchg") /\ ~HeadIs(r, "unlock")
      BY <1>2, <1>3, <1>6 DEF Plain
    <2>5. /\ \A y \in Elems(r) : y[1] = "start" => state[y[2]] = "UNUSED"
          /\ NoKmem(r)
      BY <1>3, <1>9 DEF NoKmem
    <2>6. Boots(r, cpu[c].if)
      BY <1>2, <1>3, <2>2, BootTail
    <2> QED BY <1>3, <1>5, <1>6, <2>1, <2>2, <2>3, <2>4, <2>5, <2>6, SpliceMove DEF n
  <1> QED BY <1>8, <1>9

LEMMA KeepsLocks_IfUnlock ==
    ASSUME LocksInv, NEW c \in CPU, IfUnlock(c) PROVE LocksInv'
  <1> DEFINE n == Now(c)
             x == Head(n)
             r == Tail(n)
  <1>1. At(c, "ifunlock")
    BY DEF IfUnlock
  <1>2. /\ n # <<>> /\ x[1] = "ifunlock" /\ Rest(c) = r /\ n = code[Cur(c)]
        /\ \A z : Goes(c, z) <=> code' = [code EXCEPT ![Cur(c)] = z]
    BY <1>1, AtFacts
  <1>3. /\ CodeOK(Cur(c), n) /\ CpuOK(cpu[c], n, use_lock)
        /\ x \in Instr /\ Fits(x, r) /\ Mine(Cur(c), x) /\ CodeOK(Cur(c), r)
        /\ Elems(n) = {x} \cup Elems(r)
        /\ \A op : HeadIs(n, op) <=> x[1] = op
        /\ \A op : Has(n, op) <=> x[1] = op \/ Has(r, op)
        /\ \A l : In(n, l) <=> Leaves(x, l) \/ (~Enters(x, l) /\ In(r, l))
        /\ \A y \in Elems(n) : y[1] = "start" => state[y[2]] = "UNUSED"
        /\ ~use_lock => NoKmem(n)
    BY <1>2, Here
  <1>4. code' = [code EXCEPT ![Cur(c)] =
                    Cat(IF use_lock THEN release("kmem") ELSE <<>>, r)]
    BY <1>2 DEF IfUnlock, Cat
  <1>5. UNCHANGED <<cpu, state, lock, use_lock, freelist, next, held, panic>>
    BY DEF IfUnlock
  <1>6. /\ Plain(r) /\ ~In(r, "kmem") /\ (Cur(c) = 0 \/ Cur(c) \in Proc)
        /\ ~HeadIs(n, "xchg") /\ ~HeadIs(n, "unlock") /\ ~HeadIs(n, "resume")
    BY <1>2, <1>3 DEF Fits, Mine, ListOp
  <1>7. \A l : In(n, l) <=> l = "kmem" \/ In(r, l)
    BY <1>2, <1>3 DEF Leaves, Enters
  <1>a. ~cpu[c].if
    BY <1>3, <1>7, Locks3 DEF CpuOK, Free
  <1>8. CASE use_lock
    <2> DEFINE s == Rel("kmem", r)
    <2>1. code' = [code EXCEPT ![Cur(c)] = s]
      <3>1. r \in Code
        BY <1>3 DEF CodeOK
      <3>2. Cat(release("kmem"), r) = s
        BY <3>1, UnfoldCalls, Locks3
      <3> QED BY <3>2, <1>4, <1>8
    <2>2. /\ CodeOK(Cur(c), s) /\ Plain(s)
          /\ \A k : In(s, k) <=> k = "kmem" \/ In(r, k)
          /\ \A op : op \notin LockOp => (Has(s, op) <=> Has(r, op))
          /\ Elems(s) = {<<"disown", "kmem">>, <<"unlock", "kmem">>} \cup Elems(r)
      BY <1>3, <1>6, RelOK, Locks3
    <2> HIDE DEF n, x, r, s
    <2>3. \A l \in Lock : Took(s, l, use_lock) <=> Took(n, l, use_lock)
      BY <1>7, <2>2 DEF Took
    <2>5. /\ Has(s, "iret") <=> Has(n, "iret")
          /\ Has(s, "trapret") <=> Has(n, "trapret")
      BY <1>2, <1>3, <2>2 DEF LockOp
    <2>6. \A y \in Elems(s) : y[1] = "start" => state[y[2]] = "UNUSED"
      BY <1>3, <2>2
    <2>7. ~HeadIs(s, "xchg") /\ ~HeadIs(s, "unlock")
      BY <2>2 DEF Plain
    <2> QED BY <1>5, <1>6, <1>8, <1>a, <2>1, <2>2, <2>3, <2>5, <2>6, <2>7, SpliceMove DEF n
  <1>9. CASE ~use_lock
    <2>1. code' = [code EXCEPT ![Cur(c)] = r]
      <3>1. r \in Code
        BY <1>3 DEF CodeOK
      <3>2. Cat(<<>>, r) = r
        BY <3>1, Assoc
      <3> QED BY <3>2, <1>4, <1>9
    <2>2. c = 0 /\ Cur(c) = 0 /\ ~cpu[c].if /\ Boots(n, cpu[c].if)
      BY <1>2, <1>9, BootCpu DEF MainOp, ListOp
    <2> HIDE DEF n, x, r
    <2>3. \A l \in Lock : Took(r, l, use_lock) <=> Took(n, l, use_lock)
      BY <1>7, <1>9 DEF Took
    <2>4. /\ Has(r, "iret") <=> Has(n, "iret")
          /\ Has(r, "trapret") <=> Has(n, "trapret")
          /\ ~HeadIs(r, "xchg") /\ ~HeadIs(r, "unlock")
      BY <1>2, <1>3, <1>6 DEF Plain
    <2>5. /\ \A y \in Elems(r) : y[1] = "start" => state[y[2]] = "UNUSED"
          /\ NoKmem(r)
      BY <1>3, <1>9 DEF NoKmem
    <2>6. Boots(r, cpu[c].if)
      BY <1>2, <1>3, <2>2, BootTail
    <2> QED BY <1>3, <1>5, <1>6, <2>1, <2>2, <2>3, <2>4, <2>5, <2>6, SpliceMove DEF n
  <1> QED BY <1>8, <1>9

LEMMA IsIfUnlock == \A x \in Instr : x[1] = "ifunlock" => x = <<"ifunlock">>
  BY DEF Instr, LockOp

LEMMA KeepsLocks_ReadHead ==
    ASSUME LocksInv, NEW c \in CPU, ReadHead(c) PROVE LocksInv'
  <1> DEFINE n == Now(c)
             x == Head(n)
             r == Tail(n)
             b == <<"take", freelist, Arg(c)>>
  <1>1. At(c, "head")
    BY DEF ReadHead
  <1>2. /\ n # <<>> /\ x[1] = "head" /\ Rest(c) = r /\ n = code[Cur(c)]
        /\ \A z : Goes(c, z) <=> code' = [code EXCEPT ![Cur(c)] = z]
    BY <1>1, AtFacts
  <1>3. /\ CodeOK(Cur(c), n) /\ CpuOK(cpu[c], n, use_lock)
        /\ x \in Instr /\ Fits(x, r) /\ Mine(Cur(c), x) /\ CodeOK(Cur(c), r)
        /\ Elems(n) = {x} \cup Elems(r)
        /\ \A op : HeadIs(n, op) <=> x[1] = op
        /\ \A op : Has(n, op) <=> x[1] = op \/ Has(r, op)
        /\ \A l : In(n, l) <=> Leaves(x, l) \/ (~Enters(x, l) /\ In(r, l))
        /\ \A y \in Elems(n) : y[1] = "start" => state[y[2]] = "UNUSED"
        /\ ~use_lock => NoKmem(n)
    BY <1>2, Here
  <1>4. code' = [code EXCEPT ![Cur(c)] = IF freelist = Null THEN <<Head(r)>>
                                         ELSE Cons(b, r)]
    BY <1>2 DEF ReadHead, Cons
  <1>5. /\ UNCHANGED <<cpu, state, lock, use_lock, freelist, next, held, panic>>
        /\ freelist \in Page \cup {Null} /\ Arg(c) \in Thread
    BY <1>1, AtArgs DEF ReadHead, LocksInv, TypeOK
  <1>6. /\ HeadIs(r, "ifunlock") /\ Only(r, "kmem") /\ Own(r)
        /\ (Cur(c) = 0 \/ Cur(c) \in Proc)
        /\ ~HeadIs(n, "xchg") /\ ~HeadIs(n, "unlock") /\ ~HeadIs(n, "resume")
        /\ HasMain(n)
    BY <1>2, <1>3 DEF Fits, Mine, MainOp, ListOp, HasMain
  <1>7. /\ \A l \in Lock : In(n, l) <=> l = "kmem"
        /\ \A l \in Lock : In(r, l) <=> l = "kmem"
    BY <1>2, <1>3, <1>6 DEF Leaves, Enters, Only
  <1>8. ~cpu[c].if
    BY <1>3, <1>7, Locks3 DEF CpuOK, Free
  <1>9. ~use_lock => c = 0 /\ Cur(c) = 0 /\ Boots(n, cpu[c].if)
    BY <1>2, BootCpu DEF MainOp, ListOp
  <1>10. CASE freelist = Null
    <2> DEFINE s == Cons(<<"ifunlock">>, <<>>)
    <2>1. <<Head(r)>> = s
      <3>1. r # <<>> /\ Head(r)[1] = "ifunlock" /\ Head(r) \in Instr
        BY <1>3, <1>6, UnconsOK DEF HeadIs
      <3>2. Head(r) = <<"ifunlock">>
        BY <3>1, IsIfUnlock
      <3>3. PICK a \in Instr : a = <<"ifunlock">>
        BY <3>1, <3>2
      <3>4. <<a>> \in Code /\ Cat(<<a>>, <<>>) = Cons(a, <<>>)
        BY UnfoldCalls, EmptyFacts
      <3>5. Cat(<<a>>, <<>>) = <<a>>
        BY <3>4, Assoc
      <3> QED BY <3>2, <3>3, <3>4, <3>5
    <2>2. /\ CodeOK(Cur(c), <<>>) /\ Plain(<<>>) /\ (\A k : ~In(<<>>, k))
          /\ (\A op : ~Has(<<>>, op)) /\ Elems(<<>>) = {} /\ ~HasMain(<<>>)
      BY EmptyOK, EmptyFacts DEF HasMain
    <2>3. /\ CodeOK(Cur(c), s) /\ Plain(s) /\ HeadMain(s)
          /\ \A k : In(s, k) <=> k = "kmem"
          /\ \A op : Has(s, op) <=> op = "ifunlock"
          /\ Elems(s) = {<<"ifunlock">>}
      BY <1>6, <2>2, IfUnlockOK
    <2>4. code' = [code EXCEPT ![Cur(c)] = s]
      BY <1>4, <1>10, <2>1
    <2> HIDE DEF n, x, r, s
    <2>5. \A l \in Lock : Took(s, l, use_lock) <=> Took(n, l, use_lock)
      BY <1>7, <2>3 DEF Took
    <2>6. /\ Has(s, "iret") <=> Has(n, "iret")
          /\ Has(s, "trapret") <=> Has(n, "trapret")
          /\ ~HeadIs(s, "xchg") /\ ~HeadIs(s, "unlock")
      BY <1>2, <1>3, <1>6, <2>3 DEF Own, Plain
    <2>7. /\ \A y \in Elems(s) : y[1] = "start" => state[y[2]] = "UNUSED"
          /\ NoKmem(s)
      BY <2>3 DEF NoKmem, LockOp
    <2>8. ~use_lock => Boots(s, cpu[c].if)
      BY <1>8, <2>3 DEF Boots
    <2> QED BY <1>5, <1>6, <1>8, <2>3, <2>4, <2>5, <2>6, <2>7, <2>8, SpliceMove DEF n
  <1>11. CASE freelist # Null
    <2> DEFINE s == Cons(b, r)
    <2>1. b \in Instr /\ b[1] = "take" /\ b[2] = freelist /\ b[3] = Arg(c)
      BY <1>5, <1>11, InstrMake
    <2> HIDE DEF n, x, r, b
    <2>2. Plain(r) /\ HeadMain(r)
      BY <1>6 DEF Plain, HeadIs, HeadMain, MainOp, ListOp
    <2>3. Fits(b, r) /\ Mine(Cur(c), b) /\ b[1] \notin LockOp
      <3>1. Frees(b) = {}
        BY <2>1 DEF Frees
      <3> QED BY <1>6, <1>7, <2>1, <2>2, <3>1, Locks3
              DEF Fits, Mine, MainOp, ListOp, LockOp
    <2>4. /\ CodeOK(Cur(c), s)
          /\ \A k : In(s, k) <=> In(r, k)
          /\ \A op : HeadIs(s, op) <=> op = "take"
          /\ \A op : Has(s, op) <=> op = "take" \/ Has(r, op)
          /\ Elems(s) = {b} \cup Elems(r)
      BY <1>3, <2>1, <2>3, OneOK
    <2>5. code' = [code EXCEPT ![Cur(c)] = s]
      BY <1>4, <1>11
    <2> HIDE DEF s
    <2>6. \A l \in Lock : Took(s, l, use_lock) <=> Took(n, l, use_lock)
      BY <1>7, <2>4 DEF Took
    <2>7. /\ Has(s, "iret") <=> Has(n, "iret")
          /\ Has(s, "trapret") <=> Has(n, "trapret")
          /\ ~HeadIs(s, "xchg") /\ ~HeadIs(s, "unlock")
      BY <1>2, <1>3, <2>4
    <2>8. /\ \A y \in Elems(s) : y[1] = "start" => state[y[2]] = "UNUSED"
          /\ ~use_lock => NoKmem(s)
      BY <1>3, <2>1, <2>3, <2>4 DEF NoKmem
    <2>9. ~use_lock => Boots(s, cpu[c].if)
      <3>1. HeadMain(s) /\ x[1] # "uselock" /\ x[1] # "start"
            /\ (Has(s, "start") => Has(r, "start")) /\ (Has(r, "uselock") => Has(s, "uselock"))
        BY <1>2, <2>4 DEF HeadMain, MainOp, ListOp
      <3> QED BY <3>1, <1>3, <1>6, <1>9, BootSplice
    <2> QED BY <1>5, <1>6, <1>8, <2>4, <2>5, <2>6, <2>7, <2>8, <2>9, SpliceMove DEF n
  <1> QED BY <1>10, <1>11

LEMMA KeepsLocks_FreeRange ==
    ASSUME LocksInv, NEW c \in CPU, FreeRange(c) PROVE LocksInv'
  <1> DEFINE n == Now(c)
             x == Head(n)
             r == Tail(n)
             A == Arg(c)
  <1>1. At(c, "freerange")
    BY DEF FreeRange
  <1>2. /\ n # <<>> /\ x[1] = "freerange" /\ x[2] = A /\ Rest(c) = r /\ n = code[Cur(c)]
        /\ \A z : Goes(c, z) <=> code' = [code EXCEPT ![Cur(c)] = z]
    BY <1>1, AtFacts
  <1>3. /\ CodeOK(Cur(c), n) /\ CpuOK(cpu[c], n, use_lock)
        /\ x \in Instr /\ Fits(x, r) /\ Mine(Cur(c), x) /\ CodeOK(Cur(c), r)
        /\ Elems(n) = {x} \cup Elems(r)
        /\ \A op : HeadIs(n, op) <=> x[1] = op
        /\ \A op : Has(n, op) <=> x[1] = op \/ Has(r, op)
        /\ \A l : In(n, l) <=> Leaves(x, l) \/ (~Enters(x, l) /\ In(r, l))
        /\ \A y \in Elems(n) : y[1] = "start" => state[y[2]] = "UNUSED"
        /\ ~use_lock => NoKmem(n)
    BY <1>2, Here
  <1>4. /\ UNCHANGED <<cpu, state, lock, use_lock, freelist, next, held, panic>>
        /\ A \in SUBSET Page
    BY <1>1, AtArgs DEF FreeRange
  <1>5. CASE code' = [code EXCEPT ![Cur(c)] = r]
    <2>1. TypeOK /\ TypeOK' /\ Woken(state, state')
      BY <1>4, TypeSame, SameState DEF LocksInv
    <2>2. Head(Now(c))[1] \notin LockOp
      BY <1>2 DEF LockOp
    <2> QED BY <1>2, <1>4, <1>5, <2>1, <2>2, TailMove
  <1>6. ASSUME NEW v \in A,
               code' = [code EXCEPT ![Cur(c)] =
                          kfree(v) \o <<<<"freerange", A \ {v}>>>> \o r]
        PROVE  LocksInv'
    <2> DEFINE b == <<"freerange", A \ {v}>>
               q == Cons(b, r)
               s == FreeThen(v, q)
    <2>1. v \in Page /\ A \ {v} \in SUBSET Page
      BY <1>4
    <2>2. code' = [code EXCEPT ![Cur(c)] = s]
      <3>1. r \in Code
        BY <1>3 DEF CodeOK
      <3> QED BY <1>6, <2>1, <3>1, UnfoldFreeRange
    <2>3. b \in Instr /\ b[1] = "freerange" /\ b[2] = A \ {v}
      BY <2>1, InstrMake
    <2> HIDE DEF n, x, r, b, A
    <2>4. /\ Free(r) /\ Own(r) /\ Plain(r) /\ Cur(c) = 0 /\ (HasMain(r) => HeadMain(r))
          /\ ~HeadIs(n, "xchg") /\ ~HeadIs(n, "unlock") /\ ~HeadIs(n, "resume")
          /\ HasMain(n) /\ \A y \in Elems(r) : A \cap Frees(y) = {}
      <3>1. Frees(x) = A
        BY <1>2 DEF Frees
      <3> QED BY <1>2, <1>3, <3>1 DEF Fits, Mine, MainOp, ListOp, HasMain
    <2>5. Frees(b) = A \ {v} /\ b[1] \in MainOp \ ListOp
      BY <2>3 DEF Frees, MainOp, ListOp
    <2>6. \A y \in Elems(r) : Frees(b) \cap Frees(y) = {} /\ v \notin Frees(y)
      BY <2>4, <2>5
    <2>7. /\ CodeOK(0, q) /\ Free(q) /\ Own(q) /\ Plain(q) /\ HeadMain(q)
          /\ Elems(q) = {b} \cup Elems(r)
      BY <1>3, <2>3, <2>4, <2>5, <2>6, BootOK
    <2>8. \A y \in Elems(q) : v \notin Frees(y)
      BY <2>5, <2>6, <2>7
    <2> HIDE DEF q
    <2>9. /\ CodeOK(0, s) /\ Free(s) /\ Own(s) /\ Plain(s) /\ HeadMain(s)
          /\ Elems(s) = {<<"iflock">>, <<"link", v>>, <<"push", v>>, <<"ifunlock">>}
                          \cup Elems(q)
      BY <2>1, <2>7, <2>8, FreeOK
    <2> HIDE DEF s
    <2>10. Free(n) /\ Own(n)
      BY <1>2, <1>3, <2>4 DEF Free, Own, Leaves, Enters
    <2>11. /\ \A l \in Lock : Took(s, l, use_lock) <=> Took(n, l, use_lock)
           /\ Has(s, "iret") <=> Has(n, "iret")
           /\ Has(s, "trapret") <=> Has(n, "trapret")
           /\ ~HeadIs(s, "xchg") /\ ~HeadIs(s, "unlock")
      BY <2>9, <2>10 DEF Took, Free, Own, Plain
    <2>12. \A y \in Elems(s) : y \in Elems(r) \/ (y[1] # "start" /\ y[1] \notin LockOp)
      BY <2>3, <2>7, <2>9 DEF LockOp
    <2>13. /\ \A y \in Elems(s) : y[1] = "start" => state[y[2]] = "UNUSED"
           /\ ~use_lock => NoKmem(s)
      BY <1>3, <2>12 DEF NoKmem
    <2>14. ~use_lock => Boots(s, cpu[c].if)
      <3> SUFFICES ASSUME ~use_lock PROVE Boots(s, cpu[c].if)
        OBVIOUS
      <3>1. Boots(n, cpu[c].if)
        BY <1>2, BootCpu DEF MainOp, ListOp, n, x
      <3>2. Has(s, "start") => Has(r, "start")
        BY <2>12 DEF Has
      <3>3. Has(r, "uselock") => Has(s, "uselock")
        BY <2>7, <2>9 DEF Has
      <3>4. x[1] # "uselock" /\ x[1] # "start"
        BY <1>2
      <3> QED BY <3>1, <3>2, <3>3, <3>4, <1>3, <2>4, <2>9, BootSplice
    <2> QED BY <1>4, <2>2, <2>4, <2>9, <2>11, <2>13, <2>14, SpliceMove DEF n
  <1> QED BY <1>2, <1>5, <1>6 DEF FreeRange

LEMMA KeepsLocks_StartOthers ==
    ASSUME LocksInv, NEW c \in CPU, StartOthers(c) PROVE LocksInv'
  <1> DEFINE n == Now(c)
             x == Head(n)
             r == Tail(n)
             i == Arg(c)
             w == Cons(<<"startap", i>>, Cons(<<"started", i>>,
                       Cons(<<"startothers", i + 1>>, r)))
             s == AllocThen(0, w)
  <1>1. At(c, "startothers")
    BY DEF StartOthers
  <1>2. /\ n # <<>> /\ x[1] = "startothers" /\ x[2] = i /\ Rest(c) = r /\ n = code[Cur(c)]
        /\ \A z : Goes(c, z) <=> code' = [code EXCEPT ![Cur(c)] = z]
    BY <1>1, AtFacts
  <1>3. /\ CodeOK(Cur(c), n) /\ CpuOK(cpu[c], n, use_lock)
        /\ x \in Instr /\ Fits(x, r) /\ Mine(Cur(c), x) /\ CodeOK(Cur(c), r)
        /\ Elems(n) = {x} \cup Elems(r)
        /\ \A op : HeadIs(n, op) <=> x[1] = op
        /\ \A op : Has(n, op) <=> x[1] = op \/ Has(r, op)
        /\ \A l : In(n, l) <=> Leaves(x, l) \/ (~Enters(x, l) /\ In(r, l))
        /\ \A y \in Elems(n) : y[1] = "start" => state[y[2]] = "UNUSED"
        /\ ~use_lock => NoKmem(n)
    BY <1>2, Here
  <1>4. /\ UNCHANGED <<cpu, state, lock, use_lock, freelist, next, held, panic>>
        /\ i \in 1 .. NCPU
    BY <1>1, AtArgs DEF StartOthers
  <1>5. CASE i = NCPU
    <2>1. TypeOK /\ TypeOK' /\ Woken(state, state')
      BY <1>4, TypeSame, SameState DEF LocksInv
    <2>2. Head(Now(c))[1] \notin LockOp
      BY <1>2 DEF LockOp
    <2>3. code' = [code EXCEPT ![Cur(c)] = r]
      BY <1>2, <1>5 DEF StartOthers
    <2> QED BY <1>2, <1>4, <2>1, <2>2, <2>3, TailMove
  <1>6. CASE i # NCPU
    <2>1. i \in CPU /\ i + 1 \in 1 .. NCPU
      BY <1>4, <1>6, KmemAssumption DEF CPU
    <2>2. code' = [code EXCEPT ![Cur(c)] = s]
      <3>1. r \in Code
        BY <1>3 DEF CodeOK
      <3>2. kalloc(0) \o <<<<"startap", i>>, <<"started", i>>, <<"startothers", i + 1>>>> \o r = s
        BY <2>1, <3>1, UnfoldStartOthers
      <3>3. code' = [code EXCEPT ![Cur(c)] =
               kalloc(0) \o <<<<"startap", i>>, <<"started", i>>, <<"startothers", i + 1>>>> \o r]
        BY <1>2, <1>6 DEF StartOthers
      <3> QED BY <3>2, <3>3
    <2> HIDE DEF n, x, r, i
    <2>4. /\ Free(r) /\ Own(r) /\ Plain(r) /\ Cur(c) = 0 /\ (HasMain(r) => HeadMain(r))
          /\ ~HeadIs(n, "xchg") /\ ~HeadIs(n, "unlock") /\ ~HeadIs(n, "resume")
          /\ HasMain(n)
      BY <1>2, <1>3 DEF Fits, Mine, MainOp, ListOp, HasMain
    <2>9. /\ CodeOK(0, s) /\ Free(s) /\ Own(s) /\ Plain(s) /\ HeadMain(s)
          /\ Elems(r) \subseteq Elems(s)
          /\ \A y \in Elems(s) : y \in Elems(r) \/ y[1] \in MainOp
      BY <1>3, <2>1, <2>4, StartOthersOK
    <2> HIDE DEF s
    <2>10. Free(n) /\ Own(n)
      BY <1>2, <1>3, <2>4 DEF Free, Own, Leaves, Enters
    <2>11. /\ \A l \in Lock : Took(s, l, use_lock) <=> Took(n, l, use_lock)
           /\ Has(s, "iret") <=> Has(n, "iret")
           /\ Has(s, "trapret") <=> Has(n, "trapret")
           /\ ~HeadIs(s, "xchg") /\ ~HeadIs(s, "unlock")
      BY <2>9, <2>10 DEF Took, Free, Own, Plain
    <2>12. \A y \in Elems(s) : y \in Elems(r) \/ (y[1] # "start" /\ y[1] \notin LockOp)
      BY <2>9 DEF LockOp, MainOp, ListOp
    <2>13. /\ \A y \in Elems(s) : y[1] = "start" => state[y[2]] = "UNUSED"
           /\ ~use_lock => NoKmem(s)
      BY <1>3, <2>12 DEF NoKmem
    <2>14. ~use_lock => Boots(s, cpu[c].if)
      <3> SUFFICES ASSUME ~use_lock PROVE Boots(s, cpu[c].if)
        OBVIOUS
      <3>1. Boots(n, cpu[c].if)
        BY <1>2, BootCpu DEF MainOp, ListOp, n, x
      <3>2. Has(s, "start") => Has(r, "start")
        BY <2>12 DEF Has
      <3>3. Has(r, "uselock") => Has(s, "uselock")
        BY <2>9 DEF Has
      <3>4. x[1] # "uselock" /\ x[1] # "start"
        BY <1>2
      <3> QED BY <3>1, <3>2, <3>3, <3>4, <1>3, <2>4, <2>9, BootSplice
    <2> QED BY <1>4, <2>2, <2>4, <2>9, <2>11, <2>13, <2>14, SpliceMove DEF n
  <1> QED BY <1>5, <1>6

LEMMA InLeaves ==
    ASSUME NEW s, NEW l, In(s, l) PROVE \E x \in Elems(s) : Leaves(x, l)
  BY DEF In, Elems

LEMMA KeepsLocks_UseLock ==
    ASSUME LocksInv, NEW c \in CPU, UseLock(c) PROVE LocksInv'
  <1> DEFINE n == Now(c)
             x == Head(n)
             r == Tail(n)
  <1>1. At(c, "uselock")
    BY DEF UseLock
  <1>2. /\ n # <<>> /\ x[1] = "uselock" /\ Rest(c) = r /\ n = code[Cur(c)]
        /\ \A z : Goes(c, z) <=> code' = [code EXCEPT ![Cur(c)] = z]
    BY <1>1, AtFacts
  <1>3. /\ Cur(c) \in Thread /\ CodeOK(Cur(c), n) /\ CpuOK(cpu[c], n, use_lock)
        /\ x \in Instr /\ Fits(x, r) /\ Mine(Cur(c), x) /\ CodeOK(Cur(c), r)
        /\ Elems(n) = {x} \cup Elems(r)
        /\ \A op : HeadIs(n, op) <=> x[1] = op
        /\ \A op : Has(n, op) <=> x[1] = op \/ Has(r, op)
        /\ \A l : In(n, l) <=> Leaves(x, l) \/ (~Enters(x, l) /\ In(r, l))
        /\ \A y \in Elems(n) : y[1] = "start" => state[y[2]] = "UNUSED"
        /\ ~use_lock => NoKmem(n)
    BY <1>2, Here
  <1>4. /\ TypeOK /\ CodeInv /\ BootInv /\ ThreadInv /\ LockInv /\ CpuInv
        /\ Woken(state, state) /\ panic = "none"
    BY SameState DEF LocksInv
  <1>5. /\ code' = [code EXCEPT ![Cur(c)] = r] /\ use_lock' = TRUE
        /\ UNCHANGED <<cpu, state, lock, freelist, next, held, panic>>
    BY <1>2 DEF UseLock
  <1> HIDE DEF n, x, r
  <1>6. TypeOK'
    BY <1>4, <1>5 DEF TypeOK
  <1>7. \A y \in Elems(r) : y[1] = "start" => state[y[2]] = "UNUSED"
    BY <1>3
  <1>8. /\ CodeInv' /\ ThreadInv' /\ Now(c)' = r
        /\ \A d \in CPU : d # c => Now(d)' = Now(d)
    <2>1. /\ \A d \in CPU : cpu'[d].cur = cpu[d].cur
          /\ Woken(state, state')
      BY <1>4, <1>5
    <2> QED BY <1>3, <1>4, <1>5, <1>7, <2>1, MoveCode
  <1>9. /\ \A l : In(r, l) <=> In(n, l)
        /\ ~In(r, "kmem") /\ ~HeadIs(r, "unlock") /\ ~HeadIs(r, "xchg")
        /\ ~HeadIs(n, "unlock") /\ ~HeadIs(n, "xchg") /\ ~HeadIs(n, "resume") /\ Cur(c) = 0
    BY <1>2, <1>3 DEF Fits, Plain, Leaves, Enters, Mine, MainOp, ListOp
  \* Before this nobody was in kmem's section.
  <1>10. ASSUME ~use_lock, NEW d \in CPU PROVE ~In(Now(d), "kmem")
    <2>1. /\ \A e \in CPU : Cur(e) = e
      BY <1>10, HereBoot
    <2>2. CASE d = c
      BY <2>2, <1>9 DEF n
    <2>3. CASE d # c
      <3>1. Cur(d) = d /\ d # 0 /\ d \in Thread /\ d \notin Proc
        BY <2>1, <2>3, <1>9, ThreadFacts
      <3>2. CodeOK(d, Now(d)) /\ NoKmem(Now(d))
        BY <3>1, <1>4, <1>10 DEF CodeInv, BootInv, Now
      <3>3. \A y \in Elems(Now(d)) : ~Leaves(y, "kmem")
        BY <3>1, <3>2 DEF CodeOK, NoKmem, Mine, Leaves, ListOp, LockOp
      <3> QED BY <3>3, InLeaves
    <2> QED BY <2>2, <2>3
  <1>11. \A d \in CPU, l \in Lock :
            Took(Now(d), l, TRUE) <=> Took(Now(d), l, use_lock)
    BY <1>4, <1>10 DEF Took, TypeOK
  <1>12. \A l \in Lock : Took(r, l, TRUE) <=> Took(n, l, TRUE)
    BY <1>9 DEF Took
  <1>13. LockInv'
    <2> DEFINE M == [d \in CPU |-> IF d = c THEN r ELSE Now(d)]
    <2>0. M[c] = r /\ \A d \in CPU : d # c => M[d] = Now(d)
      OBVIOUS
    <2>a. \A d \in CPU : Now(d)' = M[d]
      BY <1>8
    <2> HIDE DEF M
    <2>1. \A d \in CPU, k \in Lock : Took(M[d], k, TRUE) <=> Got(d, k)
      BY <2>0, <1>11, <1>12 DEF Got, n
    <2>2. \A d \in CPU, k \in Lock : Opening(M[d], k) <=> Opening(Now(d), k)
      <3>1. \A k \in Lock : ~Opening(r, k) /\ ~Opening(n, k)
        BY <1>9 DEF Opening
      <3> QED BY <2>0, <3>1 DEF n
    <2>3. ASSUME NEW k \in Lock
          PROVE  /\ \A d, e \in CPU : Took(M[d], k, TRUE) /\ Took(M[e], k, TRUE) => d = e
                 /\ lock'[k].locked <=> \E d \in CPU : Took(M[d], k, TRUE)
                 /\ \A d \in CPU :
                       lock'[k].cpu = d <=> Took(M[d], k, TRUE) /\ ~Opening(M[d], k)
      BY <2>1, <2>2, <1>4, <1>5 DEF LockInv
    <2>4. use_lock' = TRUE
      BY <1>5
    <2> QED BY <2>3, <2>4, <2>a, LocksAfter
  <1>14. \A d \in CPU : CpuOK(cpu[d], Now(d), TRUE)
    <2> TAKE d \in CPU
    <2>1. PICK m : m = Now(d)
      OBVIOUS
    <2>2. CpuOK(cpu[d], m, use_lock)
      BY <2>1, <1>4 DEF CpuInv
    <2>3. Depth(m, TRUE) = Depth(m, use_lock)
      BY <2>1, <1>11, Locks3 DEF Depth, Num
    <2>4. CpuOK(cpu[d], m, TRUE)
      BY <2>2, <2>3 DEF CpuOK
    <2> QED BY <2>1, <2>4
  <1>15. CpuOK(cpu[c], r, TRUE)
    <2>1. CpuOK(cpu[c], n, TRUE)
      BY <1>14 DEF n
    <2>2. (Has(r, "iret") <=> Has(n, "iret")) /\ (Has(r, "trapret") <=> Has(n, "trapret"))
      BY <1>2, <1>3
    <2>3. cpu[c].if => Free(r)
      BY <2>1, <1>9 DEF CpuOK, Free
    <2> QED BY <2>1, <2>2, <2>3, <1>9, <1>12, CpuSame
  <1>16. CpuInv'
    <2> SUFFICES ASSUME NEW d \in CPU PROVE CpuOK(cpu'[d], Now(d)', use_lock')
      BY DEF CpuInv
    <2>1. cpu' = cpu /\ use_lock' = TRUE
      BY <1>5
    <2>2. CASE d = c
      BY <2>1, <2>2, <1>8, <1>15
    <2>3. CASE d # c
      BY <2>1, <2>3, <1>8, <1>14
    <2> QED BY <2>2, <2>3
  <1>17. BootInv'
    BY <1>5 DEF BootInv
  <1> QED BY <1>4, <1>5, <1>6, <1>8, <1>13, <1>16, <1>17 DEF LocksInv

LEMMA KeepsLocks_MpMain ==
    ASSUME LocksInv, NEW c \in CPU, MpMain(c) PROVE LocksInv'
  <1>1. /\ TypeOK /\ CodeInv /\ BootInv /\ ThreadInv /\ LockInv /\ CpuInv
        /\ panic = "none"
    BY DEF LocksInv
  <1>2. /\ cpu' = [cpu EXCEPT ![c].started = TRUE]
        /\ UNCHANGED <<code, state, lock, use_lock, freelist, next, held, panic>>
    BY DEF MpMain
  <1>3. TypeOK'
    BY <1>1, <1>2 DEF TypeOK
  <1>4. \A d \in CPU : /\ cpu'[d].if = cpu[d].if /\ cpu'[d].ncli = cpu[d].ncli
                       /\ cpu'[d].intena = cpu[d].intena
                       /\ cpu'[d].cur = cpu[d].cur
    BY <1>1, <1>2 DEF TypeOK
  <1>5. \A d \in CPU : Cur(d)' = Cur(d) /\ Now(d)' = Now(d)
    BY <1>2, <1>4 DEF Cur, Now
  <1>6. CodeInv' /\ BootInv'
    <2>1. cpu'[0].if = cpu[0].if
      BY <1>4, ThreadFacts
    <2> QED BY <1>1, <1>2, <2>1 DEF CodeInv, BootInv
  <1>7. ThreadInv'
    BY <1>1, <1>2, <1>5 DEF ThreadInv
  <1>8. CpuInv'
    <2> SUFFICES ASSUME NEW d \in CPU PROVE CpuOK(cpu'[d], Now(d)', use_lock')
      BY DEF CpuInv
    <2>1. CpuOK(cpu[d], Now(d), use_lock)
      BY <1>1 DEF CpuInv
    <2>2. CpuOK(cpu'[d], Now(d), use_lock)
      BY <2>1, <1>4, CpuFields
    <2> QED BY <2>2, <1>5, <1>2
  <1>9. LockInv'
    <2> DEFINE M == [d \in CPU |-> Now(d)]
    <2>0. \A d \in CPU : M[d] = Now(d)
      OBVIOUS
    <2>a. \A d \in CPU : Now(d)' = M[d]
      BY <1>5
    <2> HIDE DEF M
    <2>1. ASSUME NEW k \in Lock
          PROVE  /\ \A d, e \in CPU :
                       Took(M[d], k, use_lock) /\ Took(M[e], k, use_lock) => d = e
                 /\ lock'[k].locked <=> \E d \in CPU : Took(M[d], k, use_lock)
                 /\ \A d \in CPU :
                       lock'[k].cpu = d <=> Took(M[d], k, use_lock) /\ ~Opening(M[d], k)
      BY <2>0, <1>1, <1>2 DEF LockInv, Got
    <2>2. use_lock' = use_lock
      BY <1>2
    <2> QED BY <2>1, <2>2, <2>a, LocksAfter
  <1> QED BY <1>1, <1>2, <1>3, <1>6, <1>7, <1>8, <1>9 DEF LocksInv

LEMMA CpuRecord ==
    ASSUME NEW R \in CpuRec
    PROVE  /\ \A e \in BOOLEAN :
                 LET w == [R EXCEPT !.if = e]
                 IN  /\ w \in CpuRec /\ w.if = e /\ w.ncli = R.ncli
                     /\ w.intena = R.intena /\ w.cur = R.cur
           /\ \A e \in BOOLEAN :
                 LET w == [R EXCEPT !.intena = e]
                 IN  /\ w \in CpuRec /\ w.if = R.if /\ w.ncli = R.ncli
                     /\ w.intena = e /\ w.cur = R.cur
           /\ \A t \in Thread :
                 LET w == [R EXCEPT !.cur = t]
                 IN  /\ w \in CpuRec /\ w.if = R.if /\ w.ncli = R.ncli
                     /\ w.intena = R.intena /\ w.cur = t
  BY DEF CpuRec

\* A step of c that changes its own record.
LEMMA CpuStep ==
    ASSUME TypeOK, NEW c \in CPU, NEW w \in CpuRec, cpu' = [cpu EXCEPT ![c] = w],
           state' \in [Proc -> {"UNUSED", "RUNNABLE", "RUNNING", "SLEEPING"}],
           UNCHANGED <<lock, use_lock, freelist, next, held>>
    PROVE  /\ TypeOK' /\ cpu'[c] = w /\ \A d \in CPU : d # c => cpu'[d] = cpu[d]
  BY DEF TypeOK, CpuRec

LEMMA CpuType == ASSUME TypeOK, NEW c \in CPU PROVE cpu[c] \in CpuRec
  BY DEF TypeOK, CpuRec

\* Code in no section, with no lock being taken, has nothing to undo.
LEMMA FreeDepth ==
    ASSUME NEW s, NEW u, Free(s), ~HeadIs(s, "xchg")
    PROVE  Depth(s, u) = 0 /\ \A l \in Lock : ~Took(s, l, u)
  BY Locks3 DEF Depth, Took, Num, Free

LEMMA KeepsLocks_Iret ==
    ASSUME LocksInv, NEW c \in CPU, Iret(c) PROVE LocksInv'
  <1> DEFINE n == Now(c)
             x == Head(n)
             r == Tail(n)
             w == [cpu[c] EXCEPT !.if = TRUE]
  <1>1. At(c, "iret") \/ At(c, "trapret")
    BY DEF Iret
  <1>2. /\ n # <<>> /\ x[1] \in {"iret", "trapret"} /\ Rest(c) = r /\ n = code[Cur(c)]
        /\ \A z : Goes(c, z) <=> code' = [code EXCEPT ![Cur(c)] = z]
    BY <1>1, AtFacts
  <1>3. /\ CodeOK(Cur(c), n) /\ CpuOK(cpu[c], n, use_lock)
        /\ x \in Instr /\ Fits(x, r) /\ Mine(Cur(c), x) /\ CodeOK(Cur(c), r)
        /\ Elems(n) = {x} \cup Elems(r)
        /\ \A op : HeadIs(n, op) <=> x[1] = op
        /\ \A op : Has(n, op) <=> x[1] = op \/ Has(r, op)
        /\ \A l : In(n, l) <=> Leaves(x, l) \/ (~Enters(x, l) /\ In(r, l))
        /\ \A y \in Elems(n) : y[1] = "start" => state[y[2]] = "UNUSED"
        /\ ~use_lock => NoKmem(n)
    BY <1>2, Here
  <1>4. TypeOK /\ Woken(state, state)
    BY SameState DEF LocksInv
  <1>5. /\ code' = [code EXCEPT ![Cur(c)] = r] /\ cpu' = [cpu EXCEPT ![c].if = TRUE]
        /\ UNCHANGED <<state, lock, use_lock, freelist, next, held, panic>>
    BY <1>2 DEF Iret
  <1>6. cpu' = [cpu EXCEPT ![c] = w]
    BY <1>5
  <1>7. /\ w \in CpuRec /\ w.if = TRUE /\ w.ncli = cpu[c].ncli /\ w.cur = cpu[c].cur
    BY <1>4, CpuType, CpuRecord
  <1> HIDE DEF n, x, r, w
  <1>8. state' \in [Proc -> {"UNUSED", "RUNNABLE", "RUNNING", "SLEEPING"}]
    BY <1>4, <1>5 DEF TypeOK
  <1>9. TypeOK' /\ cpu'[c] = w /\ \A d \in CPU : d # c => cpu'[d] = cpu[d]
    BY <1>4, <1>5, <1>6, <1>7, <1>8, CpuStep
  <1>10. /\ Free(r) /\ ~Has(r, "iret") /\ Plain(r)
         /\ ~HeadIs(n, "xchg") /\ ~HeadIs(n, "unlock")
    BY <1>2, <1>3 DEF Fits
  <1>11. Free(n)
    BY <1>2, <1>3, <1>10 DEF Free, Leaves, Enters
  <1>12. /\ Depth(r, use_lock) = 0 /\ \A l \in Lock : ~Took(r, l, use_lock)
         /\ Depth(n, use_lock) = 0 /\ \A l \in Lock : ~Took(n, l, use_lock)
         /\ ~HeadIs(r, "unlock")
    BY <1>10, <1>11, FreeDepth DEF Plain
  <1>13. CpuOK(w, r, use_lock)
    BY <1>3, <1>7, <1>10, <1>12 DEF CpuOK
  <1>14. \A l \in Lock : Took(r, l, use_lock) <=> Got(c, l)
    BY <1>12 DEF Got, n
  <1>15. /\ \A y \in Elems(r) : y[1] = "start" => state[y[2]] = "UNUSED"
         /\ ~use_lock => NoKmem(r)
    BY <1>3 DEF NoKmem
  <1>16. ~use_lock /\ c = 0 /\ Cur(c) = 0 => Boots(r, cpu'[c].if)
    <2> SUFFICES ASSUME ~use_lock, c = 0, Cur(c) = 0 PROVE Boots(r, cpu'[c].if)
      OBVIOUS
    <2>1. Boots(n, cpu[c].if)
      BY <1>2, HereBoot
    <2>2. x[1] # "uselock" /\ x[1] \notin MainOp
      BY <1>2 DEF MainOp, ListOp
    <2> QED BY <2>1, <2>2, <1>3, BootTail
  <1>17. ~HeadIs(Now(c), "unlock")
    BY <1>10 DEF n
  <1> QED BY <1>3, <1>4, <1>5, <1>7, <1>9, <1>12, <1>13, <1>14, <1>15, <1>16, <1>17, Move

LEMMA KeepsLocks_Resumed ==
    ASSUME LocksInv, NEW c \in CPU, Resumed(c) PROVE LocksInv'
  <1> DEFINE n == Now(c)
             x == Head(n)
             r == Tail(n)
             w == [cpu[c] EXCEPT !.intena = Arg(c)]
  <1>1. At(c, "resume")
    BY DEF Resumed
  <1>2. /\ n # <<>> /\ x[1] = "resume" /\ x[2] = Arg(c) /\ Rest(c) = r /\ n = code[Cur(c)]
        /\ \A z : Goes(c, z) <=> code' = [code EXCEPT ![Cur(c)] = z]
    BY <1>1, AtFacts
  <1>3. /\ CodeOK(Cur(c), n) /\ CpuOK(cpu[c], n, use_lock)
        /\ x \in Instr /\ Fits(x, r) /\ Mine(Cur(c), x) /\ CodeOK(Cur(c), r)
        /\ Elems(n) = {x} \cup Elems(r)
        /\ \A op : HeadIs(n, op) <=> x[1] = op
        /\ \A op : Has(n, op) <=> x[1] = op \/ Has(r, op)
        /\ \A l : In(n, l) <=> Leaves(x, l) \/ (~Enters(x, l) /\ In(r, l))
        /\ \A y \in Elems(n) : y[1] = "start" => state[y[2]] = "UNUSED"
        /\ ~use_lock => NoKmem(n)
    BY <1>2, Here
  <1>4. TypeOK /\ Woken(state, state) /\ Arg(c) \in BOOLEAN
    BY <1>1, AtArgs, SameState DEF LocksInv
  <1>5. /\ code' = [code EXCEPT ![Cur(c)] = r] /\ cpu' = [cpu EXCEPT ![c].intena = Arg(c)]
        /\ UNCHANGED <<state, lock, use_lock, freelist, next, held, panic>>
    BY <1>2 DEF Resumed
  <1>6. cpu' = [cpu EXCEPT ![c] = w]
    BY <1>5
  <1>7. /\ w \in CpuRec /\ w.intena = Arg(c) /\ w.if = cpu[c].if /\ w.ncli = cpu[c].ncli
        /\ w.cur = cpu[c].cur
    BY <1>4, CpuType, CpuRecord
  <1> HIDE DEF n, x, r, w
  <1>8. state' \in [Proc -> {"UNUSED", "RUNNABLE", "RUNNING", "SLEEPING"}]
    BY <1>4, <1>5 DEF TypeOK
  <1>9. TypeOK' /\ cpu'[c] = w /\ \A d \in CPU : d # c => cpu'[d] = cpu[d]
    BY <1>4, <1>5, <1>6, <1>7, <1>8, CpuStep
  <1>10. /\ Only(r, "ptable") /\ Plain(r) /\ (x[2] => ~Has(r, "iret")) /\ (Own(r) => x[2])
         /\ ~HeadIs(n, "xchg") /\ ~HeadIs(n, "unlock")
         /\ ~HeadIs(r, "xchg") /\ ~HeadIs(r, "unlock")
    BY <1>2, <1>3 DEF Fits, Plain
  <1>11. \A l : In(r, l) <=> In(n, l)
    BY <1>2, <1>3 DEF Leaves, Enters
  <1>12. \A l \in Lock : Took(r, l, use_lock) <=> Took(n, l, use_lock)
    BY <1>11 DEF Took
  <1>13. Depth(r, use_lock) = 1 /\ Depth(n, use_lock) = 1
    BY <1>10, <1>12, Locks3 DEF Depth, Num, Only, Took
  <1>14. ~cpu[c].if
    BY <1>3, <1>13 DEF CpuOK
  <1>15. CpuOK(w, r, use_lock)
    BY <1>2, <1>3, <1>7, <1>10, <1>13, <1>14 DEF CpuOK
  <1>16. \A l \in Lock : Took(r, l, use_lock) <=> Got(c, l)
    BY <1>12 DEF Got, n
  <1>17. /\ \A y \in Elems(r) : y[1] = "start" => state[y[2]] = "UNUSED"
         /\ ~use_lock => NoKmem(r)
    BY <1>3 DEF NoKmem
  <1>18. ~(~use_lock /\ c = 0 /\ Cur(c) = 0)
    BY <1>2, <1>3, ThreadFacts DEF Mine
  <1>19. ~HeadIs(Now(c), "unlock")
    BY <1>10 DEF n
  <1> QED BY <1>3, <1>4, <1>5, <1>7, <1>9, <1>10, <1>15, <1>16, <1>17, <1>18, <1>19, Move

\* Where interrupts are on, no pair of instructions is split.
LEMMA OnPlain ==
    ASSUME NEW n, NEW t, CodeOK(t, n), NEW R, NEW u, CpuOK(R, n, u), R.if
    PROVE  Plain(n)
  <1>a. Free(n) /\ Depth(n, u) = 0
    BY DEF CpuOK
  <1>1. CASE n = <<>>
    BY <1>1, EmptyOK
  <1>2. CASE n # <<>>
    <2> DEFINE x == Head(n)
               r == Tail(n)
    <2>1. /\ x \in Instr /\ Fits(x, r)
          /\ \A l : In(n, l) <=> Leaves(x, l) \/ (~Enters(x, l) /\ In(r, l))
      BY <1>2, UnconsOK
    <2>2. \A op : HeadIs(n, op) <=> x[1] = op
      BY <1>2 DEF HeadIs
    <2> HIDE DEF x, r
    <2>3. x[1] # "xchg"
      BY <1>a, <2>2, Locks3 DEF Depth, Num
    <2>4. x[1] # "unlock"
      <3> SUFFICES ASSUME x[1] = "unlock" PROVE FALSE
        OBVIOUS
      <3>1. x[2] \in Lock
        BY <2>1, InstrArgs DEF LockOp
      <3> QED BY <3>1, <2>1, <1>a DEF Free, Leaves
    <2>5. x[1] # "push" /\ x[1] # "take"
      BY <2>1, <1>a, Locks3 DEF Fits, Free, Leaves, Enters
    <2> QED BY <2>2, <2>3, <2>4, <2>5 DEF Plain
  <1> QED BY <1>1, <1>2

LEMMA KeepsLocks_Timer ==
    ASSUME LocksInv, NEW c \in CPU, Timer(c) PROVE LocksInv'
  <1> DEFINE n == Now(c)
             s == TrapThen(c, Cur(c), n)
             w == [cpu[c] EXCEPT !.if = FALSE]
  <1>1. /\ TypeOK /\ Woken(state, state) /\ Cur(c) \in Thread /\ cpu[c].if
        /\ CodeOK(Cur(c), n) /\ CpuOK(cpu[c], n, use_lock) /\ n = code[Cur(c)]
        /\ \A y \in Elems(n) : y[1] = "start" => state[y[2]] = "UNUSED"
        /\ ~use_lock => NoKmem(n)
    <2>1. TypeOK /\ CodeInv /\ CpuInv /\ ThreadInv /\ BootInv /\ cpu[c].if
      BY DEF LocksInv, Timer
    <2>2. Cur(c) \in Thread /\ n = code[Cur(c)]
      BY <2>1 DEF TypeOK, Cur, Now
    <2> QED BY <2>1, <2>2, SameState DEF CodeInv, CpuInv, ThreadInv, BootInv
  <1>2. n \in Code
    BY <1>1 DEF CodeOK
  <1>3. /\ code' = [code EXCEPT ![Cur(c)] = s] /\ cpu' = [cpu EXCEPT ![c].if = FALSE]
        /\ UNCHANGED <<state, lock, use_lock, freelist, next, held, panic>>
    BY <1>1, <1>2, UnfoldTrap DEF Timer, Goes
  <1>4. cpu' = [cpu EXCEPT ![c] = w]
    BY <1>3
  <1>5. w \in CpuRec /\ w.if = FALSE /\ w.ncli = cpu[c].ncli /\ w.cur = cpu[c].cur
    BY <1>1, CpuType, CpuRecord
  <1> HIDE DEF n, w
  <1>6. state' \in [Proc -> {"UNUSED", "RUNNABLE", "RUNNING", "SLEEPING"}]
    BY <1>1, <1>3 DEF TypeOK
  <1>a. TypeOK /\ UNCHANGED <<lock, use_lock, freelist, next, held>>
    BY <1>1, <1>3
  <1>7. TypeOK' /\ cpu'[c] = w /\ \A d \in CPU : d # c => cpu'[d] = cpu[d]
    BY <1>4, <1>5, <1>6, <1>a, CpuStep
  <1>8. Free(n) /\ ~Has(n, "iret") /\ cpu[c].ncli = 0
    BY <1>1 DEF CpuOK
  <1>9. Plain(n)
    BY <1>1, OnPlain
  <1>10. /\ CodeOK(Cur(c), s) /\ Free(s) /\ Plain(s) /\ Has(s, "iret")
         /\ \A y \in Elems(s) : Quiet(y) \/ y \in Elems(n)
         /\ Elems(n) \subseteq Elems(s)
    BY <1>1, <1>8, <1>9, TrapOK
  <1> HIDE DEF s
  <1>11. /\ Depth(s, use_lock) = 0 /\ \A l \in Lock : ~Took(s, l, use_lock)
         /\ \A l \in Lock : ~Took(n, l, use_lock)
         /\ ~HeadIs(s, "unlock") /\ ~HeadIs(n, "unlock")
    BY <1>8, <1>9, <1>10, FreeDepth DEF Plain
  <1>12. CpuOK(w, s, use_lock)
    BY <1>5, <1>8, <1>10, <1>11 DEF CpuOK, Own
  <1>13. \A l \in Lock : Took(s, l, use_lock) <=> Got(c, l)
    BY <1>11 DEF Got, n
  <1>14. /\ \A y \in Elems(s) : y[1] = "start" => state[y[2]] = "UNUSED"
         /\ ~use_lock => NoKmem(s)
    BY <1>1, <1>10 DEF NoKmem, Quiet
  <1>15. ~use_lock /\ c = 0 /\ Cur(c) = 0 => Boots(s, cpu'[c].if)
    <2> SUFFICES ASSUME ~use_lock, c = 0, Cur(c) = 0 PROVE Boots(s, cpu'[c].if)
      OBVIOUS
    <2>1. Boots(n, cpu[c].if)
      BY <1>1, HereBoot
    <2>2. ~HasMain(n)
      BY <2>1, <1>1 DEF Boots
    <2>3. ~HasMain(s)
      BY <2>2, <1>10 DEF HasMain, Has, Quiet
    <2>4. Has(s, "start") => Has(s, "uselock")
      BY <2>1, <1>10 DEF Boots, Has, Quiet
    <2> QED BY <2>3, <2>4 DEF Boots
  <1>16. ~HeadIs(Now(c), "unlock")
    BY <1>11 DEF n
  <1> QED BY <1>1, <1>3, <1>5, <1>7, <1>10, <1>11, <1>12, <1>13, <1>14, <1>15, <1>16, Move

LEMMA KeepsLocks_Loop ==
    ASSUME LocksInv, NEW c \in CPU, Loop(c) PROVE LocksInv'
  <1> DEFINE w == [cpu[c] EXCEPT !.if = TRUE]
             s == scheduler
  <1>1. /\ TypeOK /\ Woken(state, state) /\ Cur(c) = c /\ Now(c) = <<>>
        /\ CpuOK(cpu[c], <<>>, use_lock)
    BY SameState DEF LocksInv, CpuInv, Now, Loop
  <1>2. /\ code' = [code EXCEPT ![Cur(c)] = s] /\ cpu' = [cpu EXCEPT ![c].if = TRUE]
        /\ UNCHANGED <<state, lock, use_lock, freelist, next, held, panic>>
    BY DEF Loop, Goes
  <1>3. cpu' = [cpu EXCEPT ![c] = w]
    BY <1>2
  <1>4. w \in CpuRec /\ w.if = TRUE /\ w.ncli = cpu[c].ncli /\ w.cur = cpu[c].cur
    BY <1>1, CpuType, CpuRecord
  <1> HIDE DEF w, s
  <1>5. state' \in [Proc -> {"UNUSED", "RUNNABLE", "RUNNING", "SLEEPING"}]
    BY <1>1, <1>2 DEF TypeOK
  <1>6. TypeOK' /\ cpu'[c] = w /\ \A d \in CPU : d # c => cpu'[d] = cpu[d]
    BY <1>1, <1>2, <1>3, <1>4, <1>5, CpuStep
  <1>7. /\ CodeOK(Cur(c), s) /\ Free(s) /\ Plain(s) /\ ~Has(s, "iret")
        /\ \A x \in Elems(s) : Quiet(x)
    BY <1>1, SchedulerOK DEF s
  <1>8. /\ Depth(s, use_lock) = 0 /\ \A l \in Lock : ~Took(s, l, use_lock)
        /\ Depth(<<>>, use_lock) = 0 /\ \A l \in Lock : ~Took(<<>>, l, use_lock)
        /\ ~HeadIs(s, "unlock") /\ ~HeadIs(<<>>, "unlock")
    BY <1>7, EmptyOK, FreeDepth DEF Plain
  <1>9. CpuOK(w, s, use_lock)
    BY <1>1, <1>4, <1>7, <1>8 DEF CpuOK
  <1>10. \A l \in Lock : Took(s, l, use_lock) <=> Got(c, l)
    BY <1>1, <1>8 DEF Got
  <1>11. /\ \A y \in Elems(s) : y[1] = "start" => state[y[2]] = "UNUSED"
         /\ NoKmem(s) /\ Boots(s, cpu'[c].if)
    BY <1>7 DEF NoKmem, Quiet, Boots, HasMain, Has
  <1> QED BY <1>1, <1>2, <1>4, <1>6, <1>7, <1>8, <1>9, <1>10, <1>11, Move

\* The system calls: sleep, or something that begins with taking kmem.lock.
LEMMA CallsOK ==
    ASSUME LocksInv, NEW p \in Proc, state[p] = "RUNNING", NEW s \in Calls(p)
    PROVE  \/ s = SleepProg
           \/ \E w : /\ s = Cons(<<"iflock">>, w) /\ w \in Code
                     /\ CodeOK(p, w) /\ Only(w, "kmem") /\ Own(w) /\ Plain(w)
                     /\ \A x \in Elems(w) : x[1] = "start" => state[x[2]] = "UNUSED"
                     /\ Owns(w, held[p])
  <1>0. held \in [Thread -> SUBSET Page] /\ p \in Thread /\ 0 \in Thread
    BY ThreadFacts DEF LocksInv, TypeOK
  <1>1. \/ \E q \in Proc : p = initproc /\ state[q] = "UNUSED" /\ s = fork(q)
        \/ s = sleep
        \/ s = kalloc(p)
        \/ \E v \in held[p] : s = kfree(v)
    BY DEF Calls
  <1>2. CASE s = sleep
    BY <1>2, UnfoldSleep
  <1>a. /\ CodeOK(p, <<>>) /\ Plain(<<>>) /\ Free(<<>>) /\ Own(<<>>)
        /\ (HasMain(<<>>) => HeadMain(<<>>)) /\ Elems(<<>>) = {}
    BY EmptyOK, EmptyFacts DEF HasMain
  <1>3. CASE s = kalloc(p)
    <2>1. /\ CodeOK(p, AllocBody(p, <<>>)) /\ Only(AllocBody(p, <<>>), "kmem")
          /\ Own(AllocBody(p, <<>>)) /\ Plain(AllocBody(p, <<>>))
          /\ Elems(AllocBody(p, <<>>)) = {<<"head", p>>, <<"ifunlock">>} \cup Elems(<<>>)
          /\ AllocThen(p, <<>>) = Cons(<<"iflock">>, AllocBody(p, <<>>))
      BY <1>0, <1>a, AllocOK
    <2>2. s = Cons(<<"iflock">>, AllocBody(p, <<>>))
      BY <1>0, <1>3, <2>1, UnfoldMem
    <2>3. \A x \in Elems(AllocBody(p, <<>>)) : x[1] # "start" /\ Frees(x) = {}
      BY <2>1, <1>a DEF Frees
    <2> QED BY <2>1, <2>2, <2>3 DEF CodeOK, Owns
  <1>4. ASSUME NEW v \in held[p], s = kfree(v)
        PROVE  \E w : /\ s = Cons(<<"iflock">>, w) /\ w \in Code
                      /\ CodeOK(p, w) /\ Only(w, "kmem") /\ Own(w) /\ Plain(w)
                      /\ \A x \in Elems(w) : x[1] = "start" => state[x[2]] = "UNUSED"
                      /\ Owns(w, held[p])
    <2>0. v \in Page /\ \A y \in Elems(<<>>) : v \notin Frees(y)
      BY <1>0, <1>a
    <2>1. /\ CodeOK(p, FreeBody(v, <<>>)) /\ Only(FreeBody(v, <<>>), "kmem")
          /\ Own(FreeBody(v, <<>>)) /\ Plain(FreeBody(v, <<>>))
          /\ Elems(FreeBody(v, <<>>))
               = {<<"link", v>>, <<"push", v>>, <<"ifunlock">>} \cup Elems(<<>>)
          /\ FreeThen(v, <<>>) = Cons(<<"iflock">>, FreeBody(v, <<>>))
      BY <1>0, <1>a, <2>0, FreeOK
    <2>2. s = Cons(<<"iflock">>, FreeBody(v, <<>>))
      BY <1>4, <2>0, <2>1, UnfoldMem
    <2>3. \A x \in Elems(FreeBody(v, <<>>)) : x[1] # "start" /\ Frees(x) \subseteq {v}
      BY <2>1, <1>a DEF Frees
    <2> QED BY <1>4, <2>1, <2>2, <2>3 DEF CodeOK, Owns
  <1>5. ASSUME NEW q \in Proc, p = initproc, state[q] = "UNUSED", s = fork(q)
        PROVE  \E w : /\ s = Cons(<<"iflock">>, w) /\ w \in Code
                      /\ CodeOK(p, w) /\ Only(w, "kmem") /\ Own(w) /\ Plain(w)
                      /\ \A x \in Elems(w) : x[1] = "start" => state[x[2]] = "UNUSED"
                      /\ Owns(w, held[p])
    <2> DEFINE u == StartThen(q, <<>>)
    <2>1. IF q = initproc THEN p = 0 ELSE p = initproc
      BY <1>5
    <2>2. /\ CodeOK(p, u) /\ Free(u) /\ Own(u) /\ Plain(u) /\ ~HasMain(u)
          /\ \A x \in Elems(u) : Quiet(x) \/ x = <<"start", q>>
      BY <2>1, StartOK
    <2> HIDE DEF u
    <2>3. /\ CodeOK(p, AllocBody(0, u)) /\ Only(AllocBody(0, u), "kmem")
          /\ Own(AllocBody(0, u)) /\ Plain(AllocBody(0, u))
          /\ Elems(AllocBody(0, u)) = {<<"head", 0>>, <<"ifunlock">>} \cup Elems(u)
          /\ AllocThen(0, u) = Cons(<<"iflock">>, AllocBody(0, u))
      BY <1>0, <2>2, AllocOK
    <2>4. s = Cons(<<"iflock">>, AllocBody(0, u))
      BY <1>5, <2>3, UnfoldFork DEF u
    <2>5. \A x \in Elems(AllocBody(0, u)) : x[1] = "start" => state[x[2]] = "UNUSED"
      BY <1>5, <2>2, <2>3 DEF Quiet
    <2>6. Owns(AllocBody(0, u), held[p])
      <3>1. \A x \in Elems(AllocBody(0, u)) : Frees(x) = {}
        BY <2>2, <2>3, QuietFrees DEF Frees
      <3> QED BY <3>1 DEF Owns
    <2> QED BY <2>3, <2>4, <2>5, <2>6 DEF CodeOK
  <1> QED BY <1>1, <1>2, <1>3, <1>4, <1>5

LEMMA KeepsLocks_Syscall ==
    ASSUME LocksInv, NEW c \in CPU, Syscall(c) PROVE LocksInv'
  <1> DEFINE p == Cur(c)
  <1>1. /\ p \in Proc /\ Now(c) = <<>> /\ CpuOK(cpu[c], <<>>, use_lock)
        /\ ThreadInv
        /\ UNCHANGED <<cpu, state, lock, use_lock, freelist, next, held, panic>>
    BY DEF LocksInv, CpuInv, Now, Syscall
  <1>2. use_lock /\ state[p] = "RUNNING" /\ p # 0
    BY <1>1, ThreadFacts, HereBoot DEF ThreadInv
  <1>3. PICK s \in Calls(p) :
           code' = [code EXCEPT ![p] =
                      IF Head(s) = <<"iflock">> THEN acquire("kmem") \o Tail(s) ELSE s]
    BY <1>2 DEF Syscall, Goes, CheckedLock
  <1>a. /\ \A l \in Lock : ~Took(<<>>, l, use_lock)
        /\ ~HeadIs(<<>>, "xchg") /\ ~HeadIs(<<>>, "unlock") /\ ~HeadIs(<<>>, "resume")
        /\ ~Has(<<>>, "iret") /\ ~Has(<<>>, "trapret")
    BY EmptyFacts DEF Took
  <1> HIDE DEF p
  <1>4. ASSUME NEW z, code' = [code EXCEPT ![p] = z], CodeOK(p, z), Free(z), Own(z),
               \A op : HeadIs(z, op) <=> op = "pushcli",
               \A x \in Elems(z) : x[1] = "start" => state[x[2]] = "UNUSED"
        PROVE  LocksInv'
    <2>1. /\ \A l \in Lock : Took(z, l, use_lock) <=> Took(Now(c), l, use_lock)
          /\ ~HeadIs(z, "xchg") /\ ~HeadIs(z, "unlock")
          /\ Has(z, "iret") <=> Has(Now(c), "iret")
          /\ Has(z, "trapret") <=> Has(Now(c), "trapret")
          /\ cpu[c].if => Free(z)
          /\ ~HeadIs(Now(c), "xchg") /\ ~HeadIs(Now(c), "unlock") /\ ~HeadIs(Now(c), "resume")
      BY <1>1, <1>4, <1>a DEF Took, Free, Own
    <2> QED BY <1>1, <1>2, <1>4, <2>1, SpliceMove DEF p
  <1>5. CASE s = SleepProg
    <2>1. /\ CodeOK(p, SleepProg) /\ Free(SleepProg) /\ Own(SleepProg)
          /\ \A op : HeadIs(SleepProg, op) <=> op = "pushcli"
          /\ \A x \in Elems(SleepProg) : Quiet(x)
      BY <1>1, SleepOK DEF p
    <2>2. Head(s) # <<"iflock">>
      BY <1>5, <2>1 DEF HeadIs
    <2> QED BY <1>3, <1>4, <1>5, <2>1, <2>2 DEF Quiet
  <1>6. ASSUME NEW w, s = Cons(<<"iflock">>, w), w \in Code,
               CodeOK(p, w), Only(w, "kmem"), Own(w), Plain(w),
               \A x \in Elems(w) : x[1] = "start" => state[x[2]] = "UNUSED"
        PROVE  LocksInv'
    <2>1. Head(s) = <<"iflock">> /\ Tail(s) = w
      BY <1>6, ConsSeq, InstrMake
    <2>2. code' = [code EXCEPT ![p] = Acq("kmem", w)]
      BY <1>3, <1>6, <2>1, UnfoldCalls, Locks3 DEF Cat
    <2>3. /\ CodeOK(p, Acq("kmem", w))
          /\ \A k : In(Acq("kmem", w), k) <=> k # "kmem" /\ In(w, k)
          /\ \A op : HeadIs(Acq("kmem", w), op) <=> op = "pushcli"
          /\ \A op : op \notin LockOp => (Has(Acq("kmem", w), op) <=> Has(w, op))
          /\ Elems(Acq("kmem", w)) = {<<"pushcli", "kmem">>, <<"xchg", "kmem">>} \cup Elems(w)
      <3>1. In(w, "kmem") /\ "kmem" \in Lock /\ p \in Proc
        BY <1>1, <1>6, Locks3 DEF Only, p
      <3> QED BY <1>6, <3>1, AcqOK
    <2>4. Free(Acq("kmem", w))
      BY <1>6, <2>3 DEF Free, Only
    <2>5. Own(Acq("kmem", w))
      BY <1>6, <2>3 DEF Own, LockOp
    <2>6. \A x \in Elems(Acq("kmem", w)) : x[1] = "start" => state[x[2]] = "UNUSED"
      BY <1>6, <2>3
    <2> QED BY <1>4, <2>2, <2>3, <2>4, <2>5, <2>6
  <1>7. p \in Proc /\ state[p] = "RUNNING"
    BY <1>1, <1>2 DEF p
  <1> QED BY <1>5, <1>6, <1>7, CallsOK

\* What runs is RUNNING, on one CPU; a thread that is not a process's is its
\* CPU's own.
LEMMA WhoRuns ==
    ASSUME ThreadInv
    PROVE  /\ \A d \in CPU, p \in Proc : state[p] # "RUNNING" => Cur(d) # p
           /\ \A d, e \in CPU : Cur(d) = e => d = e
           /\ \A d \in CPU : Cur(d) \in Proc => Cur(d) # d /\ HeadIs(code[d], "pick")
  BY ThreadFacts DEF ThreadInv

LEMMA KeepsLocks_StartProc ==
    ASSUME LocksInv, NEW c \in CPU, StartProc(c) PROVE LocksInv'
  <1> DEFINE n == Now(c)
             x == Head(n)
             r == Tail(n)
             q == Arg(c)
  <1>1. At(c, "start")
    BY DEF StartProc
  <1>2. /\ n # <<>> /\ x[1] = "start" /\ x[2] = q /\ Rest(c) = r /\ n = code[Cur(c)]
    BY <1>1, AtFacts
  <1>3. /\ Cur(c) \in Thread /\ CodeOK(Cur(c), n) /\ CpuOK(cpu[c], n, use_lock)
        /\ x \in Instr /\ Fits(x, r) /\ Mine(Cur(c), x) /\ CodeOK(Cur(c), r)
        /\ Elems(n) = {x} \cup Elems(r)
        /\ \A op : HeadIs(n, op) <=> x[1] = op
        /\ \A op : Has(n, op) <=> x[1] = op \/ Has(r, op)
        /\ \A l : In(n, l) <=> Leaves(x, l) \/ (~Enters(x, l) /\ In(r, l))
        /\ \A y \in Elems(n) : y[1] = "start" => state[y[2]] = "UNUSED"
    BY <1>2, Here
  <1>4. /\ TypeOK /\ CodeInv /\ ThreadInv /\ LockInv /\ CpuInv /\ panic = "none"
        /\ q \in Proc /\ q \in Thread
    BY <1>1, AtArgs, ThreadFacts DEF LocksInv
  <1>5. /\ code' = [code EXCEPT ![Cur(c)] = r, ![q] = forkret]
        /\ state' = [state EXCEPT ![q] = "RUNNABLE"]
        /\ UNCHANGED <<cpu, lock, use_lock, freelist, next, held, panic>>
    BY <1>2 DEF StartProc
  <1> HIDE DEF n, x, r, q
  <1>6. state[q] = "UNUSED" /\ code[q] = <<>> /\ \A d \in CPU : Cur(d) # q
    <2>1. state[q] = "UNUSED"
      BY <1>2, <1>3
    <2>2. code[q] = <<>>
      BY <2>1, <1>4 DEF ThreadInv
    <2>3. \A d \in CPU : Cur(d) # q
      BY <2>1, <1>4, WhoRuns
    <2> QED BY <2>1, <2>2, <2>3
  <1>7. use_lock
    <2> SUFFICES ASSUME ~use_lock PROVE FALSE
      OBVIOUS
    <2>1. Cur(c) = c /\ Boots(code[0], cpu[0].if)
      BY HereBoot
    <2>2. Cur(c) = 0
      BY <2>1, <1>2, <1>3, ThreadFacts DEF Mine
    <2>3. Boots(n, cpu[0].if)
      BY <2>1, <2>2, <1>2
    <2>4. Has(n, "uselock")
      BY <2>3, <1>2, <1>3 DEF Boots
    <2>5. HeadMain(n)
      BY <2>3, <2>4 DEF Boots, HasMain, MainOp
    <2> QED BY <2>5, <1>2, <1>3 DEF HeadMain, MainOp, ListOp
  <1>8. CodeOK(q, forkret) /\ Parked(forkret) /\ \A y \in Elems(forkret) : Quiet(y)
    BY <1>4, ForkretOK
  <1>9. /\ code'[Cur(c)] = r /\ code'[q] = forkret
        /\ \A t \in Thread : t # Cur(c) /\ t # q => code'[t] = code[t]
        /\ code' \in [Thread -> Code]
    <2>1. code \in [Thread -> Code] /\ r \in Code /\ forkret \in Code /\ Cur(c) # q
      BY <1>3, <1>4, <1>6, <1>8 DEF CodeInv, CodeOK
    <2> QED BY <2>1, <1>3, <1>4, <1>5
  <1>10. CodeInv'
    BY <1>3, <1>4, <1>8, <1>9 DEF CodeInv
  <1>11. \A d \in CPU : Cur(d)' = Cur(d) /\ Cur(d) \in Thread
    BY <1>4, <1>5 DEF Cur, TypeOK
  <1>12. Now(c)' = r /\ \A d \in CPU : d # c => Now(d)' = Now(d)
    <2>1. \A d \in CPU : d # c => Cur(d) # Cur(c)
      BY <1>4 DEF ThreadInv
    <2> QED BY <2>1, <1>6, <1>9, <1>11 DEF Now
  <1>13. /\ state'[q] = "RUNNABLE" /\ \A p \in Proc : p # q => state'[p] = state[p]
         /\ TypeOK'
    BY <1>4, <1>5 DEF TypeOK
  <1>14. ThreadInv'
    <2>1. ASSUME NEW d \in CPU, Cur(d) # d
          PROVE  /\ Cur(d) \in Proc /\ state'[Cur(d)] = "RUNNING"
                 /\ HeadIs(code'[d], "pick")
      <3>1. Cur(d) \in Proc /\ state[Cur(d)] = "RUNNING" /\ HeadIs(code[d], "pick")
        BY <2>1, <1>4 DEF ThreadInv
      <3>2. d # Cur(c) /\ d # q /\ d \in Thread
        BY <2>1, <1>4, WhoRuns, ThreadFacts
      <3> QED BY <3>1, <3>2, <1>6, <1>9, <1>13
    <2>2. \A d, e \in CPU : Cur(d) = Cur(e) => d = e
      BY <1>4 DEF ThreadInv
    <2>3. \A p \in Proc : state'[p] = "RUNNING" => \E d \in CPU : Cur(d) = p
      BY <1>4, <1>13 DEF ThreadInv
    <2>4. ASSUME NEW p \in Proc, p # q, state[p] # "RUNNING"
          PROVE  code'[p] = code[p] /\ state'[p] = state[p]
      BY <2>4, <1>4, <1>9, <1>13, WhoRuns, ThreadFacts
    <2>5. \A p \in Proc : state'[p] = "UNUSED" => code'[p] = <<>>
      BY <2>4, <1>4, <1>13 DEF ThreadInv
    <2>6. \A p \in Proc : state'[p] \in {"RUNNABLE", "SLEEPING"} => Parked(code'[p])
      BY <2>4, <1>4, <1>8, <1>9, <1>13 DEF ThreadInv
    <2>7. ASSUME NEW t \in Thread, NEW y \in Elems(code'[t]), y[1] = "start"
          PROVE  state'[y[2]] = "UNUSED"
      <3>1. t # Cur(c)
        BY <2>7, <1>2, <1>3, <1>9 DEF Fits, Has
      <3>2. t # q
        BY <2>7, <1>8, <1>9 DEF Quiet
      <3>3. y \in Elems(code[t])
        BY <2>7, <3>1, <3>2, <1>9
      <3>4. Mine(t, y) /\ y \in Instr
        BY <3>3, <1>4 DEF CodeInv, CodeOK, Elems, Code
      <3>5. y[2] \in Proc
        BY <3>4, <2>7, InstrArgs
      <3>6. state[y[2]] = "UNUSED"
        BY <3>3, <2>7, <1>4 DEF ThreadInv
      <3>7. y[2] # q
        BY <3>1, <3>4, <2>7, <1>2, <1>3 DEF Mine
      <3> QED BY <3>5, <3>6, <3>7, <1>13
    <2> QED BY <1>11, <2>1, <2>2, <2>3, <2>5, <2>6, <2>7 DEF ThreadInv
  <1>15. \A l : In(r, l) <=> In(n, l)
    BY <1>2, <1>3 DEF Leaves, Enters
  <1>16. \A l \in Lock : Took(r, l, use_lock) <=> Took(n, l, use_lock)
    BY <1>15 DEF Took
  <1>17. /\ ~HeadIs(n, "xchg") /\ ~HeadIs(n, "unlock") /\ ~HeadIs(n, "resume")
         /\ ~HeadIs(r, "xchg") /\ ~HeadIs(r, "unlock")
         /\ (Has(r, "iret") <=> Has(n, "iret")) /\ (Has(r, "trapret") <=> Has(n, "trapret"))
    BY <1>2, <1>3 DEF Fits, Plain
  <1>18. LockInv'
    <2>1. \A l \in Lock : Took(r, l, use_lock) <=> Got(c, l)
      BY <1>16 DEF Got, n
    <2>2. ~HeadIs(Now(c), "unlock")
      BY <1>17 DEF n
    <2> QED BY <2>1, <2>2, <1>4, <1>5, <1>12, <1>17, MoveLocks
  <1>19. CpuInv'
    <2>1. cpu[c].if => Free(r)
      BY <1>3, <1>15 DEF CpuOK, Free
    <2>2. CpuOK(cpu[c], r, use_lock)
      BY <2>1, <1>3, <1>16, <1>17, CpuSame
    <2>3. CpuOK(cpu'[c], r, use_lock)
      BY <2>2, <1>5
    <2> QED BY <2>3, <1>4, <1>5, <1>12, MoveCpus
  <1>20. BootInv'
    BY <1>5, <1>7 DEF BootInv
  <1> QED BY <1>4, <1>5, <1>10, <1>13, <1>14, <1>18, <1>19, <1>20 DEF LocksInv

\* Code in the section of ptable.lock only, with its lock neither being taken
\* nor opened.
LEMMA OnlyDepth ==
    ASSUME NEW s, NEW u, Only(s, "ptable"), ~HeadIs(s, "xchg")
    PROVE  Depth(s, u) = 1 /\ \A l \in Lock : Took(s, l, u) <=> l = "ptable"
  <1>1. \A l \in Lock : Took(s, l, u) <=> l = "ptable"
    BY DEF Only, Took
  <1> QED BY <1>1, Locks3 DEF Depth, Num

LEMMA KeepsLocks_Pick ==
    ASSUME LocksInv, NEW c \in CPU, Pick(c) PROVE LocksInv'
  <1> DEFINE n == Now(c)
             x == Head(n)
             r == Tail(n)
  <1>1. At(c, "pick")
    BY DEF Pick
  <1>2. /\ n # <<>> /\ x[1] = "pick" /\ Rest(c) = r /\ n = code[Cur(c)]
        /\ \A z : Goes(c, z) <=> code' = [code EXCEPT ![Cur(c)] = z]
    BY <1>1, AtFacts
  <1>3. /\ Cur(c) \in Thread /\ CodeOK(Cur(c), n) /\ CpuOK(cpu[c], n, use_lock)
        /\ x \in Instr /\ Fits(x, r) /\ Mine(Cur(c), x) /\ CodeOK(Cur(c), r)
        /\ \A op : HeadIs(n, op) <=> x[1] = op
        /\ \A l : In(n, l) <=> Leaves(x, l) \/ (~Enters(x, l) /\ In(r, l))
    BY <1>2, Here
  <1>4. /\ TypeOK /\ CodeInv /\ ThreadInv /\ LockInv /\ CpuInv /\ panic = "none"
        /\ Woken(state, state) /\ UNCHANGED <<lock, use_lock, freelist, next, held, panic>>
    BY SameState DEF LocksInv, Pick
  <1>5. CASE code' = [code EXCEPT ![Cur(c)] = r] /\ UNCHANGED <<cpu, state>>
    <2>1. TypeOK' /\ Woken(state, state')
      BY <1>4, <1>5, TypeSame
    <2>2. Head(Now(c))[1] \notin LockOp
      BY <1>2 DEF LockOp
    <2> QED BY <1>2, <1>4, <1>5, <2>1, <2>2, TailMove
  <1>6. ASSUME NEW p \in Proc, state[p] = "RUNNABLE",
               state' = [state EXCEPT ![p] = "RUNNING"],
               cpu' = [cpu EXCEPT ![c].cur = p], UNCHANGED code
        PROVE  LocksInv'
    <2> DEFINE w == [cpu[c] EXCEPT !.cur = p]
               s == code[p]
    <2>1. cpu' = [cpu EXCEPT ![c] = w]
      BY <1>6
    <2>2. /\ w \in CpuRec /\ w.if = cpu[c].if /\ w.ncli = cpu[c].ncli
          /\ w.intena = cpu[c].intena /\ w.cur = p
      BY <1>4, CpuType, CpuRecord, ThreadFacts
    <2> HIDE DEF n, x, r, w, s
    <2>3. /\ state'[p] = "RUNNING" /\ \A q \in Proc : q # p => state'[q] = state[q]
          /\ state' \in [Proc -> {"UNUSED", "RUNNABLE", "RUNNING", "SLEEPING"}]
      BY <1>4, <1>6 DEF TypeOK
    <2>4. TypeOK' /\ cpu'[c] = w /\ \A d \in CPU : d # c => cpu'[d] = cpu[d]
      BY <2>1, <2>2, <2>3, <1>4, CpuStep
    <2>5. Cur(c) = c /\ \A d \in CPU : Cur(d) # p
      <3>1. Cur(c) \in CPU
        BY <1>2, <1>3 DEF Mine
      <3>2. \A d \in CPU : Cur(d) # p
        BY <1>4, <1>6, WhoRuns
      <3> QED BY <3>1, <3>2, <1>4, WhoRuns
    <2>6. use_lock
      BY <1>6, HereBoot
    <2>7. Parked(s)
      BY <1>4, <1>6 DEF ThreadInv, s
    <2>8. Cur(c)' = p /\ \A d \in CPU : d # c => Cur(d)' = Cur(d)
      BY <2>2, <2>4 DEF Cur
    <2>9. Now(c)' = s /\ \A d \in CPU : d # c => Now(d)' = Now(d)
      BY <2>8, <1>6 DEF Now, s
    <2>10. CodeInv'
      BY <1>4, <1>6 DEF CodeInv
    <2>11. ThreadInv'
      <3>1. ASSUME NEW d \in CPU
            PROVE  \/ Cur(d)' = d
                   \/ /\ Cur(d)' \in Proc /\ state'[Cur(d)'] = "RUNNING"
                      /\ HeadIs(code'[d], "pick")
        <4>1. CASE d = c
          <5>1. HeadIs(code[c], "pick")
            BY <1>2, <1>3, <2>5
          <5> QED BY <5>1, <4>1, <2>3, <2>8, <1>6
        <4>2. CASE d # c
          BY <4>2, <2>3, <2>5, <2>8, <1>4, <1>6 DEF ThreadInv
        <4> QED BY <4>1, <4>2
      <3>2. \A d, e \in CPU : Cur(d)' = Cur(e)' => d = e
        BY <2>5, <2>8, <1>4 DEF ThreadInv
      <3>3. ASSUME NEW q \in Proc, state'[q] = "RUNNING" PROVE \E d \in CPU : Cur(d)' = q
        <4>1. CASE q = p
          BY <4>1, <2>8
        <4>2. CASE q # p
          <5>1. PICK d \in CPU : Cur(d) = q
            BY <4>2, <3>3, <2>3, <1>4 DEF ThreadInv
          <5>2. d # c
            BY <5>1, <2>5, ThreadFacts
          <5> QED BY <5>1, <5>2, <2>8
        <4> QED BY <4>1, <4>2
      <3>4. /\ \A q \in Proc : state'[q] = "UNUSED" => code'[q] = <<>>
            /\ \A q \in Proc : state'[q] \in {"RUNNABLE", "SLEEPING"} => Parked(code'[q])
        BY <2>3, <1>4, <1>6 DEF ThreadInv
      <3>5. ASSUME NEW t \in Thread, NEW y \in Elems(code[t]), y[1] = "start"
            PROVE  state'[y[2]] = "UNUSED"
        <4>1. state[y[2]] = "UNUSED" /\ y \in Instr
          BY <3>5, <1>4 DEF ThreadInv, CodeInv, CodeOK, Elems, Code
        <4>2. y[2] \in Proc
          BY <4>1, <3>5, InstrArgs
        <4> QED BY <4>1, <4>2, <2>3, <1>6
      <3> QED BY <3>1, <3>2, <3>3, <3>4, <3>5, <1>6 DEF ThreadInv
    <2>12. Only(n, "ptable") /\ Only(s, "ptable")
      BY <1>2, <1>3, <2>7 DEF Only, Leaves, Enters, Parked, Fits
    <2>13. /\ ~HeadIs(n, "xchg") /\ ~HeadIs(n, "unlock")
           /\ ~HeadIs(s, "xchg") /\ ~HeadIs(s, "unlock")
      BY <1>2, <1>3, <2>7 DEF Parked, HeadIs
    <2>14. /\ Depth(s, use_lock) = 1 /\ \A l \in Lock : Took(s, l, use_lock) <=> l = "ptable"
           /\ Depth(n, use_lock) = 1 /\ \A l \in Lock : Took(n, l, use_lock) <=> l = "ptable"
      BY <2>12, <2>13, OnlyDepth
    <2>15. LockInv'
      <3>1. \A l \in Lock : Took(s, l, use_lock) <=> Got(c, l)
        BY <2>14 DEF Got, n
      <3>2. ~HeadIs(Now(c), "unlock")
        BY <2>13 DEF n
      <3> QED BY <3>1, <3>2, <2>9, <2>13, <1>4, MoveLocks
    <2>16. CpuInv'
      <3>1. cpu[c].ncli = 1 /\ ~cpu[c].if
        BY <1>3, <2>14 DEF CpuOK
      <3>2. CpuOK(w, s, use_lock)
        BY <3>1, <2>2, <2>7, <2>14 DEF CpuOK, Parked
      <3> QED BY <3>2, <2>4, <2>9, <1>4, MoveCpus
    <2>17. BootInv'
      BY <1>4, <2>6 DEF BootInv
    <2> QED BY <1>4, <2>4, <2>10, <2>11, <2>15, <2>16, <2>17 DEF LocksInv
  <1> QED BY <1>2, <1>5, <1>6 DEF Pick

LEMMA KeepsLocks_Sched ==
    ASSUME LocksInv, NEW c \in CPU, Sched(c) PROVE LocksInv'
  <1> DEFINE n == Now(c)
             x == Head(n)
             r == Tail(n)
             p == Cur(c)
             e == cpu[c].intena
             b == <<"resume", e>>
             s == Cons(b, r)
             m == code[c]
             w == [cpu[c] EXCEPT !.cur = c]
  <1>1. At(c, "sched")
    BY DEF Sched
  <1>2. /\ n # <<>> /\ x[1] = "sched" /\ x[2] = Arg(c) /\ Rest(c) = r /\ n = code[p]
        /\ \A z : Goes(c, z) <=> code' = [code EXCEPT ![p] = z]
    BY <1>1, AtFacts
  <1>3. /\ p \in Thread /\ CodeOK(p, n) /\ CpuOK(cpu[c], n, use_lock)
        /\ x \in Instr /\ Fits(x, r) /\ Mine(p, x) /\ CodeOK(p, r)
        /\ Elems(n) = {x} \cup Elems(r)
        /\ \A op : HeadIs(n, op) <=> x[1] = op
        /\ \A op : Has(n, op) <=> x[1] = op \/ Has(r, op)
        /\ \A l : In(n, l) <=> Leaves(x, l) \/ (~Enters(x, l) /\ In(r, l))
        /\ \A y \in Elems(n) : y[1] = "start" => state[y[2]] = "UNUSED"
    BY <1>2, Here
  <1>4. /\ TypeOK /\ CodeInv /\ ThreadInv /\ LockInv /\ CpuInv /\ panic = "none"
        /\ Arg(c) \in {"RUNNABLE", "SLEEPING"} /\ e \in BOOLEAN /\ c \in Thread
        /\ cpu[c].cur = p
    BY <1>1, AtArgs, ThreadFacts DEF LocksInv, TypeOK, Cur
  <1>5. /\ w \in CpuRec /\ w.if = cpu[c].if /\ w.ncli = cpu[c].ncli /\ w.intena = e
        /\ w.cur = c
    BY <1>4, CpuType, CpuRecord
  <1>6. b \in Instr /\ b[1] = "resume" /\ b[2] = e
    BY <1>4, InstrMake
  <1>a. Sched(c) <=>
          /\ At(c, "sched")
          /\ IF ~Holding(c, "ptable") \/ cpu[c].ncli # 1 \/ cpu[c].if
             THEN Fail("sched")
             ELSE /\ code' = [code EXCEPT ![p] = s]
                  /\ state' = [state EXCEPT ![p] = Arg(c)]
                  /\ cpu' = [cpu EXCEPT ![c] = w]
                  /\ UNCHANGED <<lock, use_lock, freelist, next, held, panic>>
    BY <1>2 DEF Sched, Resume, Cons
  <1> HIDE DEF n, x, r, p, e, b, s, m, w
  <1>7. p \in Proc /\ Only(r, "ptable") /\ Plain(r)
        /\ ~HeadIs(n, "xchg") /\ ~HeadIs(n, "unlock") /\ ~HeadIs(n, "resume")
    BY <1>2, <1>3 DEF Fits, Mine
  <1>8. Only(n, "ptable")
    BY <1>2, <1>3, <1>7 DEF Only, Leaves, Enters
  <1>9. Depth(n, use_lock) = 1 /\ \A l \in Lock : Took(n, l, use_lock) <=> l = "ptable"
    BY <1>7, <1>8, OnlyDepth
  <1>10. cpu[c].ncli = 1 /\ ~cpu[c].if
    BY <1>3, <1>9 DEF CpuOK
  <1>11. Holding(c, "ptable")
    <2>1. Got(c, "ptable") /\ ~Opening(Now(c), "ptable")
      BY <1>7, <1>9, Locks3 DEF Got, Opening, n
    <2> QED BY <2>1, <1>4, Locks3 DEF LockInv, Holding
  <1>12. /\ code' = [code EXCEPT ![p] = s] /\ state' = [state EXCEPT ![p] = Arg(c)]
         /\ cpu' = [cpu EXCEPT ![c] = w]
         /\ UNCHANGED <<lock, use_lock, freelist, next, held, panic>>
    BY <1>10, <1>11, <1>a
  <1>13. /\ state'[p] = Arg(c) /\ \A q \in Proc : q # p => state'[q] = state[q]
         /\ state' \in [Proc -> {"UNUSED", "RUNNABLE", "RUNNING", "SLEEPING"}]
    BY <1>4, <1>7, <1>12 DEF TypeOK
  <1>14. TypeOK' /\ cpu'[c] = w /\ \A d \in CPU : d # c => cpu'[d] = cpu[d]
    BY <1>4, <1>5, <1>12, <1>13, CpuStep
  <1>15. Fits(b, r) /\ Mine(p, b) /\ b[1] \notin LockOp
    <2>1. e => ~Has(r, "iret")
      BY <1>3, <1>7, <1>10 DEF CpuOK, e
    <2>2. Own(r) => e
      <3>1. Own(r) => Own(n)
        BY <1>2, <1>3 DEF Own
      <3> QED BY <3>1, <1>3, <1>4, <1>7, <1>10 DEF CpuOK, e
    <2>3. Frees(b) = {}
      BY <1>6 DEF Frees
    <2> QED BY <2>1, <2>2, <2>3, <1>6, <1>7 DEF Fits, Mine, MainOp, ListOp, LockOp
  <1>16. /\ CodeOK(p, s) /\ \A k : In(s, k) <=> In(r, k)
         /\ \A op : HeadIs(s, op) <=> op = "resume"
         /\ Elems(s) = {b} \cup Elems(r)
    BY <1>3, <1>6, <1>15, OneOK DEF s
  <1>17. Parked(s)
    BY <1>7, <1>16 DEF Parked, Only
  <1>18. /\ p # c /\ HeadIs(m, "pick") /\ CodeOK(c, m)
         /\ \A d \in CPU : Cur(d) = c => d = c
         /\ \A d \in CPU : d # c => Cur(d) # p
    <2>1. \A d \in CPU : d # c => Cur(d) # p
      BY <1>4 DEF ThreadInv, p
    <2>2. CodeOK(c, m)
      BY <1>4 DEF CodeInv, m
    <2> QED BY <2>1, <2>2, <1>4, <1>7, WhoRuns, ThreadFacts DEF p, m
  <1>19. /\ code' \in [Thread -> Code] /\ code'[p] = s
         /\ \A t \in Thread : t # p => code'[t] = code[t]
    <2>1. code \in [Thread -> Code] /\ s \in Code
      BY <1>4, <1>16 DEF CodeInv, CodeOK
    <2> QED BY <2>1, <1>3, <1>12
  <1>20. CodeInv'
    BY <1>4, <1>16, <1>19 DEF CodeInv
  <1>21. Cur(c)' = c /\ \A d \in CPU : d # c => Cur(d)' = Cur(d) /\ Cur(d) \in Thread
    BY <1>4, <1>5, <1>14 DEF Cur, TypeOK
  <1>22. Now(c)' = m /\ \A d \in CPU : d # c => Now(d)' = Now(d)
    BY <1>4, <1>18, <1>19, <1>21 DEF Now, m
  <1>23. ThreadInv'
    <2>1. ASSUME NEW d \in CPU, Cur(d)' # d
          PROVE  /\ Cur(d)' \in Proc /\ state'[Cur(d)'] = "RUNNING"
                 /\ HeadIs(code'[d], "pick")
      <3>1. d # c /\ Cur(d) # d /\ Cur(d)' = Cur(d)
        BY <2>1, <1>21
      <3>2. Cur(d) \in Proc /\ state[Cur(d)] = "RUNNING" /\ HeadIs(code[d], "pick")
        BY <3>1, <1>4 DEF ThreadInv
      <3>3. d # p /\ d \in Thread
        BY <1>7, ThreadFacts
      <3> QED BY <3>1, <3>2, <3>3, <1>13, <1>18, <1>19
    <2>2. \A d, f \in CPU : Cur(d)' = Cur(f)' => d = f
      BY <1>4, <1>18, <1>21 DEF ThreadInv
    <2>3. ASSUME NEW q \in Proc, state'[q] = "RUNNING" PROVE \E d \in CPU : Cur(d)' = q
      <3>1. q # p
        BY <2>3, <1>4, <1>13
      <3>2. PICK d \in CPU : Cur(d) = q
        BY <3>1, <2>3, <1>4, <1>13 DEF ThreadInv
      <3> QED BY <3>1, <3>2, <1>21 DEF p
    <2>4. \A q \in Proc : q # p => code'[q] = code[q] /\ state'[q] = state[q]
      BY <1>13, <1>19, ThreadFacts
    <2>5. /\ \A q \in Proc : state'[q] = "UNUSED" => code'[q] = <<>>
          /\ \A q \in Proc : state'[q] \in {"RUNNABLE", "SLEEPING"} => Parked(code'[q])
      BY <2>4, <1>4, <1>13, <1>17, <1>19 DEF ThreadInv
    <2>6. ASSUME NEW t \in Thread, NEW y \in Elems(code'[t]), y[1] = "start"
          PROVE  state'[y[2]] = "UNUSED"
      <3>1. y \in Elems(code[t])
        BY <2>6, <1>2, <1>3, <1>6, <1>16, <1>19
      <3>2. state[y[2]] = "UNUSED" /\ y \in Instr
        BY <3>1, <2>6, <1>4 DEF ThreadInv, CodeInv, CodeOK, Elems, Code
      <3>3. y[2] \in Proc /\ state[p] = "RUNNING"
        BY <3>2, <2>6, <1>4, <1>7, <1>18, InstrArgs DEF ThreadInv, p
      <3> QED BY <3>2, <3>3, <1>13
    <2> QED BY <2>1, <2>2, <2>3, <2>5, <2>6 DEF ThreadInv
  <1>24. Only(m, "ptable") /\ ~Has(m, "iret") /\ ~HeadIs(m, "xchg") /\ ~HeadIs(m, "unlock")
    <2> DEFINE y == Head(m)
               z == Tail(m)
    <2>1. m # <<>> /\ y[1] = "pick"
      BY <1>18 DEF HeadIs
    <2>2. /\ Fits(y, z) /\ \A op : Has(m, op) <=> y[1] = op \/ Has(z, op)
          /\ \A l : In(m, l) <=> Leaves(y, l) \/ (~Enters(y, l) /\ In(z, l))
      BY <1>18, <2>1, UnconsOK
    <2>3. \A op : HeadIs(m, op) <=> y[1] = op
      BY <2>1 DEF HeadIs
    <2> HIDE DEF y, z
    <2> QED BY <2>1, <2>2, <2>3 DEF Fits, Only, Leaves, Enters
  <1>25. Depth(m, use_lock) = 1 /\ \A l \in Lock : Took(m, l, use_lock) <=> l = "ptable"
    BY <1>24, OnlyDepth
  <1>26. LockInv'
    <2>1. \A l \in Lock : Took(m, l, use_lock) <=> Got(c, l)
      BY <1>9, <1>25 DEF Got, n
    <2>2. ~HeadIs(Now(c), "unlock")
      BY <1>7 DEF n
    <2> QED BY <2>1, <2>2, <1>4, <1>12, <1>22, <1>24, MoveLocks
  <1>27. CpuInv'
    <2>1. CpuOK(w, m, use_lock)
      BY <1>5, <1>10, <1>24, <1>25, ThreadFacts DEF CpuOK
    <2> QED BY <2>1, <1>4, <1>12, <1>14, <1>22, MoveCpus
  <1>28. use_lock
    BY <1>7, HereBoot, ThreadFacts DEF p
  <1>29. BootInv'
    BY <1>12, <1>28 DEF BootInv
  <1> QED BY <1>4, <1>12, <1>14, <1>20, <1>23, <1>26, <1>27, <1>29 DEF LocksInv

LEMMA InitLocks == ASSUME Init PROVE LocksInv
  <1> DEFINE n == main(work.late)
  <1>1. work.late \in SUBSET Late
    BY KmemAssumption DEF Init
  <1>2. /\ CodeOK(0, n) /\ Free(n) /\ Plain(n) /\ HeadMain(n)
        /\ ~HeadIs(n, "unlock") /\ ~HeadIs(n, "xchg") /\ Has(n, "uselock")
        /\ \A x \in Elems(n) : x[1] \notin LockOp \/ x[2] # "kmem"
    BY <1>1, MainOK
  <1> HIDE DEF n
  <1>3. /\ code = [t \in Thread |-> IF t = 0 THEN n ELSE <<>>]
        /\ cpu = [c \in CPU |-> [if |-> FALSE, ncli |-> 0, intena |-> FALSE,
                                 boots |-> c = 0, started |-> c = 0, cur |-> c]]
        /\ state = [p \in Proc |-> "UNUSED"]
        /\ lock = [l \in Lock |-> [locked |-> FALSE, cpu |-> NoCpu]]
        /\ use_lock = FALSE /\ freelist = Null /\ panic = "none"
        /\ next = [v \in Page |-> Null]
        /\ held = [t \in Thread |-> IF t = 0 THEN Early \cup work.late ELSE {}]
    BY DEF Init, n
  <1>4. TypeOK
    <2>1. \A c \in CPU : [if |-> FALSE, ncli |-> 0, intena |-> FALSE,
                          boots |-> c = 0, started |-> c = 0, cur |-> c] \in CpuRec
      BY ThreadFacts DEF CpuRec
    <2>2. cpu \in [CPU -> CpuRec]
      BY <2>1, <1>3
    <2>3. held \in [Thread -> SUBSET Page]
      BY <1>1, <1>3 DEF Page
    <2> QED BY <2>2, <2>3, <1>3 DEF TypeOK, CpuRec
  <1>5. /\ \A t \in Thread : code[t] = IF t = 0 THEN n ELSE <<>>
        /\ code[0] = n /\ \A p \in Proc : code[p] = <<>> /\ state[p] = "UNUSED"
    BY <1>3, ThreadFacts
  <1>6. CodeInv
    <2>1. n \in Code /\ <<>> \in Code
      BY <1>2, EmptyFacts DEF CodeOK
    <2>2. code \in [Thread -> Code]
      BY <2>1, <1>3
    <2> QED BY <2>2, <1>2, <1>5, EmptyOK DEF CodeInv
  <1>7. \A c \in CPU : /\ Cur(c) = c /\ cpu[c].if = FALSE /\ cpu[c].ncli = 0
                       /\ cpu[c].cur = c
    BY <1>3 DEF Cur
  <1>8. \A c \in CPU : /\ Free(Now(c)) /\ ~HeadIs(Now(c), "xchg")
                       /\ ~HeadIs(Now(c), "unlock")
    BY <1>2, <1>5, <1>7, EmptyOK, EmptyFacts, ThreadFacts DEF Now
  <1>9. ThreadInv
    <2>1. \A t \in Thread : \A x \in Elems(code[t]) : x[1] = "start" => state[x[2]] = "UNUSED"
      <3> SUFFICES ASSUME NEW t \in Thread, NEW x \in Elems(code[t]), x[1] = "start"
                   PROVE  state[x[2]] = "UNUSED"
        OBVIOUS
      <3>1. x \in Instr
        BY <1>6 DEF CodeInv, CodeOK, Elems, Code
      <3> QED BY <3>1, <1>5, InstrArgs
    <2> QED BY <2>1, <1>5, <1>7 DEF ThreadInv
  <1>10. LockInv
    <2>1. \A c \in CPU, l \in Lock : ~Got(c, l)
      BY <1>8 DEF Got, Took, Free
    <2> QED BY <2>1, <1>3, ThreadFacts DEF LockInv
  <1>11. CpuInv
    <2> SUFFICES ASSUME NEW c \in CPU PROVE CpuOK(cpu[c], Now(c), use_lock)
      BY DEF CpuInv
    <2>1. Depth(Now(c), use_lock) = 0
      BY <1>8, FreeDepth
    <2>2. cpu[c].cur \notin Proc
      BY <1>7, ThreadFacts
    <2> QED BY <2>1, <2>2, <1>7 DEF CpuOK
  <1>12. BootInv
    <2>1. \A t \in Thread : NoKmem(code[t])
      BY <1>2, <1>5, EmptyOK DEF NoKmem
    <2> QED BY <2>1, <1>2, <1>5, <1>7, ThreadFacts DEF BootInv
  <1> QED BY <1>3, <1>4, <1>6, <1>9, <1>10, <1>11, <1>12 DEF LocksInv

LEMMA NextLocks == ASSUME LocksInv, [Next]_vars PROVE LocksInv'
  <1>1. ASSUME NEW c \in CPU, Step(c) PROVE LocksInv'
    BY <1>1, KeepsLocks_PushCli, KeepsLocks_Cli, KeepsLocks_Xchg, KeepsLocks_Disown,
       KeepsLocks_Unlock, KeepsLocks_IfLock, KeepsLocks_IfUnlock, KeepsLocks_ReadHead,
       KeepsLocks_Take, KeepsLocks_Link, KeepsLocks_Push, KeepsLocks_FreeRange,
       KeepsLocks_StartOthers, KeepsLocks_UseLock, KeepsLocks_StartAP,
       KeepsLocks_Started, KeepsLocks_Pick, KeepsLocks_Sched, KeepsLocks_Resumed,
       KeepsLocks_StartProc, KeepsLocks_Wakeup, KeepsLocks_Iret, KeepsLocks_Syscall,
       KeepsLocks_Loop DEF Step
  <1>2. CASE UNCHANGED vars
    BY <1>2 DEF vars, LocksInv, TypeOK, CodeInv, BootInv, ThreadInv, LockInv, CpuInv,
                Cur, Now, Got
  <1> QED BY <1>1, <1>2, KeepsLocks_MpMain, KeepsLocks_Timer DEF Next

LEMMA LocksAlways == Spec => []LocksInv
  BY InitLocks, NextLocks, PTL DEF Spec

LEMMA AheadHas == \A t, op : Ahead(t, op) <=> Has(code[t], op)
  BY DEF Ahead, Has, Elems

LEMMA LocksInvSound == ASSUME LocksInv PROVE LocksSound
  <1>1. TypeOK /\ CodeInv /\ BootInv /\ LockInv /\ CpuInv /\ panic = "none"
    BY DEF LocksInv
  <1> SUFFICES ASSUME NEW l \in Lock
               PROVE  LET C == {c \in CPU : Inside(Cur(c), l)}
                      IN  /\ \A c, d \in C : c = d
                          /\ l # "kmem" \/ use_lock => lock[l].locked = (C # {})
                          /\ \A c \in C : ~cpu[c].if
    BY <1>1 DEF LocksSound
  <1> DEFINE C == {c \in CPU : In(Now(c), l)}
  <1>2. {c \in CPU : Inside(Cur(c), l)} = C
    BY DEF Inside, Now
  <1>3. \A c \in C : ~cpu[c].if
    BY <1>1 DEF CpuInv, CpuOK, Free
  <1>4. CASE l # "kmem" \/ use_lock
    <2>1. \A c \in CPU : Got(c, l) <=> c \in C
      BY <1>4 DEF Got, Took
    <2>2. lock[l].locked \in BOOLEAN
      BY <1>1 DEF TypeOK
    <2>3. lock[l].locked = (C # {}) /\ \A c, d \in C : c = d
      BY <2>1, <2>2, <1>1 DEF LockInv
    <2> QED BY <2>3, <1>2, <1>3
  <1>5. CASE ~(l # "kmem" \/ use_lock)
    <2>1. ASSUME NEW c \in C PROVE c = 0
      <3>1. Cur(c) = c /\ c \in CPU /\ c \in Thread
        BY <1>5, HereBoot, ThreadFacts
      <3>2. PICK x \in Elems(code[c]) : Leaves(x, "kmem")
        BY <3>1, <1>5, InLeaves DEF Now
      <3>3. Mine(c, x)
        BY <3>1, <1>1 DEF CodeInv, CodeOK
      <3>4. x[1] = "ifunlock"
        BY <3>1, <3>2, <1>1, <1>5 DEF Leaves, BootInv, NoKmem, LockOp
      <3> QED BY <3>1, <3>3, <3>4, ThreadFacts DEF Mine, ListOp
    <2> QED BY <2>1, <1>2, <1>3, <1>5
  <1> QED BY <1>4, <1>5

(***************************************************************************)
(* The spin locks of kernel/spinlock.c do what they are for, for any       *)
(* number of CPUs and processes: at most one CPU is in the section of a    *)
(* lock, the lock is taken exactly then, with interrupts off, and neither  *)
(* acquire nor release nor popcli nor sched panics.                        *)
(***************************************************************************)
THEOREM LocksAlwaysSound == Spec => []LocksSound
  BY LocksAlways, LocksInvSound, PTL

LEMMA LocksInvInterrupts == ASSUME LocksInv PROVE InterruptsRight
  <1> SUFFICES ASSUME NEW c \in CPU
               PROVE  /\ cpu[c].if => cpu[c].ncli = 0 /\ ~Ahead(Cur(c), "iret")
                      /\ /\ Cur(c) \in Proc /\ cpu[c].ncli = 0
                         /\ ~Ahead(Cur(c), "iret") /\ ~Ahead(Cur(c), "trapret")
                         => cpu[c].if
    BY DEF InterruptsRight
  <1>1. PICK n : n = Now(c)
    OBVIOUS
  <1>2. CpuOK(cpu[c], n, use_lock)
    BY <1>1 DEF LocksInv, CpuInv
  <1>3. \A op : Ahead(Cur(c), op) <=> Has(n, op)
    BY <1>1, AheadHas DEF Now
  <1> QED BY <1>2, <1>3 DEF CpuOK, Own, Cur

(***************************************************************************)
(* pushcli and popcli, with sched's saving of intena, leave interrupts as  *)
(* the thread's own code says: a process has them on exactly when it holds *)
(* no lock and is in no handler, whichever CPU it went on on, and no       *)
(* handler of kernel/trap.c is itself interrupted.                         *)
(***************************************************************************)
THEOREM InterruptsAlwaysRight == Spec => []InterruptsRight
  BY LocksAlways, LocksInvInterrupts, PTL

(***************************************************************************)
(* The free list                                                           *)
(***************************************************************************)
\* Induction, from the least number that is not in S.
LEMMA SetInduction ==
    ASSUME NEW S \in SUBSET Nat, 0 \in S, \A n \in S : n + 1 \in S
    PROVE  S = Nat
  <1> DEFINE T == Nat \ S
             R == OpToRel(<, Nat)
  <1>1. IsWellFoundedOn(R, Nat)
    BY NatLessThanWellFounded
  <1> SUFFICES ASSUME T # {} PROVE FALSE
    OBVIOUS
  <1>2. PICK x \in T : \A y \in T : ~ (<<y, x>> \in R)
    <2> HIDE DEF R, T
    <2>1. T \subseteq Nat
      BY DEF T
    <2> QED BY <1>1, <2>1, WFMin
  <1>3. \A y \in T : ~(y < x)
    BY <1>2 DEF OpToRel
  <1> QED BY <1>3

\* A list without repetitions has no more elements than there are pages.
LEMMA ListBound ==
    ASSUME NEW L \in Seq(Page), \A i, j \in 1 .. Len(L) : L[i] = L[j] => i = j
    PROVE  Len(L) <= Cardinality(Page) /\ Cardinality(Page) \in Nat
  <1>1. IsFiniteSet(Page) /\ Cardinality(Page) \in Nat
    BY KmemAssumption, FS_CardinalityType
  <1>2. L \in [1 .. Len(L) -> Page] /\ Len(L) \in Nat
    OBVIOUS
  <1>3. L \in Injection(1 .. Len(L), Page)
    BY <1>2 DEF Injection, IsInjective
  <1>4. Cardinality(1 .. Len(L)) <= Cardinality(Page)
    BY <1>1, <1>3, FS_Injection
  <1>5. Cardinality(1 .. Len(L)) = Len(L)
    <2>1. 1 \in Int /\ Len(L) \in Int
      OBVIOUS
    <2>2. Cardinality(1 .. Len(L)) = IF 1 > Len(L) THEN 0 ELSE Len(L) - 1 + 1
      BY <2>1, FS_Interval, Zenon
    <2> QED BY <2>2
  <1> QED BY <1>1, <1>4, <1>5

\* Following the links from freelist on visits the list, and then Null.
LEMMA NthList ==
    ASSUME NEW L \in Seq(Page), Chain(L, freelist, next)
    PROVE  Nth[Cardinality(Page)] = Null /\ OnList = Elems(L)
  <1> DEFINE K == 0 .. Cardinality(Page)
             D(f) == [n \in K |-> IF n = 0 THEN freelist
                                  ELSE IF f[n - 1] = Null THEN Null ELSE next[f[n - 1]]]
             g == [n \in K |-> IF n < Len(L) THEN L[n + 1] ELSE Null]
  <1>1. Len(L) <= Cardinality(Page) /\ Cardinality(Page) \in Nat /\ Len(L) \in Nat
    BY ListBound DEF Chain
  <1>2. \A n \in K : g[n] = IF n < Len(L) THEN L[n + 1] ELSE Null
    OBVIOUS
  <1>3. \A i \in 1 .. Len(L) : L[i] # Null
    BY ThreadFacts
  <1>4. freelist = g[0]
    <2>1. 0 \in K
      BY <1>1
    <2>2. L = <<>> <=> Len(L) = 0
      BY EmptySeq
    <2> QED BY <2>1, <2>2, <1>1, <1>2 DEF Chain
  <1>5. ASSUME NEW n \in K, n # 0
        PROVE  n - 1 \in K /\ g[n] = IF g[n - 1] = Null THEN Null ELSE next[g[n - 1]]
    <2>1. n - 1 \in K
      BY <1>1, <1>5
    <2>2. CASE n - 1 < Len(L)
      <3>1. n \in 1 .. Len(L) /\ g[n - 1] = L[n]
        BY <2>1, <2>2, <1>1, <1>2
      <3>2. g[n - 1] # Null
        BY <3>1, <1>3
      <3>3. next[L[n]] = IF n = Len(L) THEN Null ELSE L[n + 1]
        BY <3>1 DEF Chain
      <3>4. g[n] = IF n < Len(L) THEN L[n + 1] ELSE Null
        BY <1>2
      <3> HIDE DEF g
      <3> QED BY <2>1, <3>1, <3>2, <3>3, <3>4, <1>1
    <2>3. CASE ~(n - 1 < Len(L))
      <3>1. ~(n < Len(L))
        BY <2>1, <2>3, <1>1
      <3> QED BY <2>1, <2>3, <3>1, <1>2
    <2> QED BY <2>2, <2>3
  <1>6. g = D(g)
    <2>1. \A n \in K : g[n] = D(g)[n]
      <3> HIDE DEF g
      <3> QED BY <1>4, <1>5
    <2> QED BY <2>1
  <1>7. Nth = CHOOSE f : f = D(f)
    BY DEF Nth
  <1>8. Nth = D(Nth)
    BY <1>6, <1>7
  <1>9. /\ Nth[0] = freelist
        /\ \A n \in K : n # 0 => Nth[n] = IF Nth[n - 1] = Null THEN Null ELSE next[Nth[n - 1]]
    <2>1. 0 \in K
      BY <1>1
    <2> HIDE DEF Nth
    <2> QED BY <2>1, <1>8
  <1> HIDE DEF g, D
  <1>10. \A n \in K : Nth[n] = g[n]
    <2> DEFINE S == {n \in Nat : n \in K => Nth[n] = g[n]}
    <2>1. 0 \in S
      BY <1>4, <1>9
    <2>2. ASSUME NEW n \in S PROVE n + 1 \in S
      <3> SUFFICES ASSUME n + 1 \in K PROVE Nth[n + 1] = g[n + 1]
        OBVIOUS
      <3>1. n \in K /\ n + 1 # 0 /\ (n + 1) - 1 = n
        BY <1>1
      <3>2. Nth[n] = g[n]
        BY <3>1
      <3> QED BY <3>1, <3>2, <1>5, <1>9
    <2> HIDE DEF S
    <2>3. S = Nat
      <3>1. S \in SUBSET Nat
        BY DEF S
      <3> QED BY <3>1, <2>1, <2>2, SetInduction
    <2> QED BY <2>3, <1>1 DEF S
  <1>11. Nth[Cardinality(Page)] = Null
    BY <1>1, <1>2, <1>10
  <1>12. OnList = Elems(L)
    <2>1. OnList = {g[n] : n \in K} \ {Null}
      BY <1>10 DEF OnList
    <2>2. ASSUME NEW n \in K, g[n] # Null PROVE g[n] \in Elems(L)
      <3>1. n < Len(L) /\ g[n] = L[n + 1]
        BY <2>2, <1>2
      <3>2. n + 1 \in 1 .. Len(L)
        BY <3>1, <1>1
      <3> QED BY <3>1, <3>2 DEF Elems
    <2>3. ASSUME NEW i \in 1 .. Len(L) PROVE L[i] \in {g[n] : n \in K} \ {Null}
      <3>1. i - 1 \in K /\ i - 1 < Len(L) /\ (i - 1) + 1 = i
        BY <1>1
      <3>2. g[i - 1] = L[i]
        BY <3>1, <1>2
      <3> QED BY <3>1, <3>2, <1>3
    <2> QED BY <2>1, <2>2, <2>3 DEF Elems
  <1> QED BY <1>11, <1>12

LEMMA PushChain ==
    ASSUME NEW L \in Seq(Page), NEW f, NEW nx, Chain(L, f, nx),
           NEW v \in Page, v \notin Elems(L), nx[v] = f
    PROVE  \E M \in Seq(Page) : Chain(M, v, nx) /\ Elems(M) = Elems(L) \cup {v}
  <1> DEFINE k == Len(L)
             M == [i \in 1 .. k + 1 |-> IF i = 1 THEN v ELSE L[i - 1]]
  <1>1. k \in Nat /\ \A i \in 1 .. k : L[i] \in Page /\ L[i] # v
    BY DEF Elems
  <1>2. M \in Seq(Page) /\ Len(M) = k + 1 /\ M[1] = v /\ M # <<>>
    BY <1>1
  <1>3. \A i \in 2 .. k + 1 : i - 1 \in 1 .. k /\ M[i] = L[i - 1]
    BY <1>1
  <1>a. L = <<>> <=> k = 0
    BY EmptySeq
  <1>b. /\ \A i, j \in 1 .. k : L[i] = L[j] => i = j
        /\ f = IF k = 0 THEN Null ELSE L[1]
        /\ \A i \in 1 .. k : nx[L[i]] = IF i = k THEN Null ELSE L[i + 1]
    BY <1>a DEF Chain
  <1> HIDE DEF k, M
  <1>4. \A i, j \in 1 .. k + 1 : M[i] = M[j] => i = j
    BY <1>1, <1>2, <1>3, <1>b
  <1>5. ASSUME NEW i \in 1 .. k + 1
        PROVE  nx[M[i]] = IF i = k + 1 THEN Null ELSE M[i + 1]
    <2>1. CASE i = 1
      <3>1. k # 0 => M[2] = L[1]
        <4>1. k # 0 => 2 \in 2 .. k + 1 /\ 2 - 1 = 1
          BY <1>1
        <4> QED BY <4>1, <1>3
      <3> QED BY <2>1, <3>1, <1>1, <1>2, <1>b
    <2>2. CASE i # 1
      <3>1. i \in 2 .. k + 1 /\ i - 1 \in 1 .. k /\ M[i] = L[i - 1]
        BY <2>2, <1>1, <1>3
      <3>2. nx[L[i - 1]] = IF i - 1 = k THEN Null ELSE L[(i - 1) + 1]
        BY <3>1, <1>b
      <3>3. (i - 1) + 1 = i /\ (i - 1 = k <=> i = k + 1)
        BY <1>1
      <3>4. i # k + 1 => i + 1 \in 2 .. k + 1 /\ (i + 1) - 1 = i
        BY <3>1, <1>1
      <3>5. i # k + 1 => M[i + 1] = L[i]
        BY <3>4, <1>3
      <3> QED BY <3>1, <3>2, <3>3, <3>5
    <2> QED BY <2>1, <2>2
  <1>6. Chain(M, v, nx)
    BY <1>2, <1>4, <1>5 DEF Chain
  <1>7. Elems(M) = Elems(L) \cup {v}
    <2>1. \A i \in 1 .. k + 1 : M[i] \in Elems(L) \cup {v}
      BY <1>2, <1>3 DEF Elems, k
    <2>2. ASSUME NEW i \in 1 .. k PROVE \E j \in 1 .. k + 1 : M[j] = L[i]
      <3>1. i + 1 \in 2 .. k + 1 /\ i + 1 \in 1 .. k + 1 /\ (i + 1) - 1 = i
        BY <1>1
      <3> QED BY <3>1, <1>3
    <2>3. 1 \in 1 .. k + 1
      BY <1>1
    <2>4. Elems(M) = {M[i] : i \in 1 .. k + 1} /\ Elems(L) = {L[i] : i \in 1 .. k}
      BY <1>2 DEF Elems, k
    <2> QED BY <2>1, <2>2, <2>3, <2>4, <1>2
  <1> QED BY <1>2, <1>6, <1>7

LEMMA TakeChain ==
    ASSUME NEW L \in Seq(Page), NEW f, NEW nx \in [Page -> Page \cup {Null}],
           Chain(L, f, nx), f # Null
    PROVE  /\ f \in Elems(L) /\ f \in Page
           /\ \E M \in Seq(Page) : /\ Chain(M, nx[f], [nx EXCEPT ![f] = Null])
                                   /\ Elems(M) = Elems(L) \ {f}
  <1> DEFINE k == Len(L)
             M == [i \in 1 .. k - 1 |-> L[i + 1]]
             nw == [nx EXCEPT ![f] = Null]
  <1>a. L = <<>> <=> k = 0
    BY EmptySeq
  <1>1. /\ k \in Nat \ {0} /\ 1 \in 1 .. k /\ f = L[1] /\ f \in Page
        /\ \A i \in 1 .. k : L[i] \in Page
        /\ \A i, j \in 1 .. k : L[i] = L[j] => i = j
        /\ \A i \in 1 .. k : nx[L[i]] = IF i = k THEN Null ELSE L[i + 1]
    BY <1>a DEF Chain
  <1>2. /\ M \in Seq(Page) /\ Len(M) = k - 1
        /\ \A i \in 1 .. k - 1 : i + 1 \in 1 .. k /\ M[i] = L[i + 1]
    BY <1>1
  <1>3. M = <<>> <=> k = 1
    <2>1. M = <<>> <=> Len(M) = 0
      BY <1>2, EmptySeq
    <2>2. k - 1 = 0 <=> k = 1
      BY <1>1
    <2> HIDE DEF M
    <2> QED BY <2>1, <2>2, <1>2
  <1>4. \A v \in Page : v # f => nw[v] = nx[v]
    OBVIOUS
  <1> HIDE DEF k, M, nw
  <1>5. \A i, j \in 1 .. k - 1 : M[i] = M[j] => i = j
    <2> TAKE i, j \in 1 .. k - 1
    <2>1. M[i] = L[i + 1] /\ M[j] = L[j + 1] /\ i + 1 \in 1 .. k /\ j + 1 \in 1 .. k
      BY <1>2
    <2>2. L[i + 1] = L[j + 1] => i + 1 = j + 1
      BY <2>1, <1>1
    <2>3. i + 1 = j + 1 => i = j
      OBVIOUS
    <2> QED BY <2>1, <2>2, <2>3
  <1>6. nx[f] = IF M = <<>> THEN Null ELSE M[1]
    <2>1. nx[f] = IF 1 = k THEN Null ELSE L[1 + 1]
      BY <1>1
    <2>2. k # 1 => 1 \in 1 .. k - 1
      BY <1>1
    <2> QED BY <2>1, <2>2, <1>2, <1>3
  <1>7. ASSUME NEW i \in 1 .. k - 1
        PROVE  nw[M[i]] = IF i = k - 1 THEN Null ELSE M[i + 1]
    <2>1. i + 1 \in 1 .. k /\ M[i] = L[i + 1] /\ i + 1 # 1
      BY <1>1, <1>2
    <2>2. L[i + 1] \in Page /\ L[i + 1] # f
      BY <2>1, <1>1
    <2>3. nw[M[i]] = IF i + 1 = k THEN Null ELSE L[(i + 1) + 1]
      BY <2>1, <2>2, <1>1, <1>4
    <2>4. (i + 1 = k <=> i = k - 1) /\ (i # k - 1 => i + 1 \in 1 .. k - 1)
      BY <1>1
    <2> QED BY <2>3, <2>4, <1>2
  <1>8. Chain(M, nx[f], nw)
    BY <1>2, <1>5, <1>6, <1>7 DEF Chain
  <1>9. Elems(M) = Elems(L) \ {f}
    <2>1. \A i \in 1 .. k - 1 : M[i] \in Elems(L) \ {f}
      <3> TAKE i \in 1 .. k - 1
      <3>1. i + 1 \in 1 .. k /\ M[i] = L[i + 1] /\ i + 1 # 1
        BY <1>1, <1>2
      <3> QED BY <3>1, <1>1 DEF Elems, k
    <2>2. ASSUME NEW i \in 1 .. k, L[i] # f PROVE \E j \in 1 .. k - 1 : M[j] = L[i]
      <3>1. i # 1
        BY <2>2, <1>1
      <3>2. i - 1 \in 1 .. k - 1 /\ (i - 1) + 1 = i
        BY <3>1, <1>1
      <3> QED BY <3>2, <1>2
    <2>3. Elems(M) = {M[i] : i \in 1 .. k - 1} /\ Elems(L) = {L[i] : i \in 1 .. k}
      BY <1>2 DEF Elems, k
    <2> QED BY <2>1, <2>2, <2>3
  <1>10. f \in Elems(L)
    BY <1>1 DEF Elems, k
  <1> QED BY <1>1, <1>2, <1>8, <1>9, <1>10 DEF nw

LEMMA LinkChain ==
    ASSUME NEW L \in Seq(Page), NEW f, NEW nx \in [Page -> Page \cup {Null}],
           Chain(L, f, nx), NEW v \in Page, v \notin Elems(L)
    PROVE  Chain(L, f, [nx EXCEPT ![v] = f])
  <1>1. \A i \in 1 .. Len(L) : L[i] \in Page /\ L[i] # v
    BY DEF Elems
  <1>2. \A i \in 1 .. Len(L) : [nx EXCEPT ![v] = f][L[i]] = nx[L[i]]
    BY <1>1
  <1> QED BY <1>2 DEF Chain

LEMMA PageInvSound == ASSUME LocksInv, PageInv PROVE PagesSound
  <1>1. PICK L \in Seq(Page) : Chain(L, freelist, next) /\ Placed(Elems(L), Pages, held)
    BY DEF PageInv
  <1>2. Nth[Cardinality(Page)] = Null /\ OnList = Elems(L)
    BY <1>1, NthList
  <1>3. ASSUME NEW v \in Pages
        PROVE  IF v \in OnList THEN \A t \in Thread : v \notin held[t]
               ELSE Cardinality({t \in Thread : v \in held[t]}) = 1
    <2>1. CASE v \in OnList
      BY <2>1, <1>1, <1>2 DEF Placed
    <2>2. CASE v \notin OnList
      <3>1. PICK t \in Thread : \A u \in Thread : v \in held[u] <=> u = t
        BY <2>2, <1>1, <1>2 DEF Placed
      <3>2. {u \in Thread : v \in held[u]} = {t}
        BY <3>1
      <3> QED BY <3>2, <2>2, FS_Singleton
    <2> QED BY <2>1, <2>2
  <1> QED BY <1>2, <1>3 DEF PagesSound, Pages

(***************************************************************************)
(* Steps, and what they do to the pages                                    *)
(***************************************************************************)
LEMMA PageSame ==
    ASSUME PageInv, UNCHANGED <<code, freelist, next, held, work>>
    PROVE  PageInv'
  BY DEF PageInv, Pages

\* Only the threads on the CPUs use the list, and of those only one.
LEMMA OneUser ==
    ASSUME LocksInv, NEW c \in CPU, In(Now(c), "kmem"), NEW t \in Thread, t # Cur(c)
    PROVE  ~HeadIs(code[t], "take") /\ ~HeadIs(code[t], "push")
  <1> SUFFICES ASSUME HeadIs(code[t], "take") \/ HeadIs(code[t], "push") PROVE FALSE
    OBVIOUS
  <1>1. CodeOK(t, code[t]) /\ ThreadInv /\ TypeOK
    BY DEF LocksInv, CodeInv
  <1>2. In(code[t], "kmem")
    <2> DEFINE n == code[t]
               x == Head(n)
               r == Tail(n)
    <2>1. n # <<>> /\ (x[1] = "take" \/ x[1] = "push")
      BY DEF HeadIs
    <2>2. /\ Fits(x, r)
          /\ \A l : In(n, l) <=> Leaves(x, l) \/ (~Enters(x, l) /\ In(r, l))
      BY <1>1, <2>1, UnconsOK
    <2> HIDE DEF n, x, r
    <2>3. In(n, "kmem")
      BY <2>1, <2>2 DEF Fits, Leaves, Enters
    <2> QED BY <2>3 DEF n
  <1>3. \E d \in CPU : Cur(d) = t
    <2>1. CASE t \in CPU
      <3>1. Cur(t) = t \/ HeadIs(code[t], "pick")
        BY <1>1, <2>1 DEF ThreadInv
      <3> QED BY <2>1, <3>1 DEF HeadIs
    <2>2. CASE t \in Proc
      <3>1. state[t] # "UNUSED"
        BY <1>1, <2>2 DEF ThreadInv, HeadIs
      <3>2. state[t] # "RUNNABLE" /\ state[t] # "SLEEPING"
        BY <1>1, <2>2 DEF ThreadInv, HeadIs, Parked
      <3>3. state[t] = "RUNNING"
        BY <1>1, <2>2, <3>1, <3>2 DEF TypeOK
      <3> QED BY <1>1, <2>2, <3>3 DEF ThreadInv
    <2> QED BY <2>1, <2>2, ThreadFacts
  <1>4. PICK d \in CPU : Cur(d) = t
    BY <1>3
  <1>5. LocksSound
    BY LocksInvSound
  <1>6. Inside(Cur(c), "kmem") /\ Inside(Cur(d), "kmem")
    BY <1>2, <1>4 DEF Inside, Now
  <1>7. c = d
    BY <1>5, <1>6, Locks3 DEF LocksSound
  <1> QED BY <1>4, <1>7

\* A step that changes nothing but the code of c's thread.
LEMMA PageSplice ==
    ASSUME LocksInv, PageInv, NEW c \in CPU, NEW s,
           code' = [code EXCEPT ![Cur(c)] = s],
           UNCHANGED <<freelist, next, held, work>>,
           \A x \in Elems(s) : x \in Elems(Now(c)) \/ Frees(x) \subseteq held[Cur(c)],
           Fresh(s, freelist, next)
    PROVE  PageInv'
  <1>1. Cur(c) \in Thread /\ code \in [Thread -> Code]
    BY DEF LocksInv, TypeOK, Cur, CodeInv
  <1>2. /\ code'[Cur(c)] = s
        /\ \A t \in Thread : t # Cur(c) => code'[t] = code[t]
    BY <1>1
  <1>3. Owns(s, held[Cur(c)])
    BY <1>1 DEF PageInv, Owns, Now
  <1>4. \A t \in Thread : Owns(code'[t], held[t]) /\ Fresh(code'[t], freelist, next)
    BY <1>2, <1>3 DEF PageInv
  <1>5. Pages' = Pages
    BY DEF Pages
  <1> QED BY <1>4, <1>5 DEF PageInv

\* Code that does not begin with the second half of a pair.
LEMMA PlainFresh ==
    ASSUME NEW s, ~HeadIs(s, "push"), ~HeadIs(s, "take")
    PROVE  \A f, nx : Fresh(s, f, nx)
  BY DEF Fresh

LEMMA PageAt ==
    ASSUME LocksInv, PageInv, NEW c \in CPU, NEW op, op # "link", At(c, op),
           Goes(c, Rest(c)), UNCHANGED <<freelist, next, held, work>>
    PROVE  PageInv'
  <1> DEFINE n == Now(c)
             x == Head(n)
             r == Tail(n)
  <1>1. n # <<>> /\ x[1] = op /\ code' = [code EXCEPT ![Cur(c)] = r]
    BY AtFacts
  <1>2. Fits(x, r) /\ Elems(n) = {x} \cup Elems(r)
    BY <1>1, Here
  <1> HIDE DEF x, r
  <1>3. ~HeadIs(r, "push") /\ ~HeadIs(r, "take")
    BY <1>1, <1>2 DEF Fits, Plain, Pair, HeadIs
  <1>4. Fresh(r, freelist, next)
    BY <1>3, PlainFresh
  <1> QED BY <1>1, <1>2, <1>4, PageSplice

LEMMA KeepsPages_Cli ==
    ASSUME LocksInv, PageInv, NEW c \in CPU, Cli(c), UNCHANGED work PROVE PageInv'
  <1>1. CASE Holding(c, Arg(c))
    BY <1>1, PageSame DEF Cli, Fail
  <1>2. CASE ~Holding(c, Arg(c))
    <2>1. Goes(c, Rest(c)) /\ UNCHANGED <<freelist, next, held, work>>
      BY <1>2 DEF Cli
    <2>2. At(c, "cli") \/ At(c, "pushcli")
      BY DEF Cli
    <2> QED BY <2>1, <2>2, PageAt
  <1> QED BY <1>1, <1>2

LEMMA KeepsPages_Disown ==
    ASSUME LocksInv, PageInv, NEW c \in CPU, Disown(c), UNCHANGED work PROVE PageInv'
  <1>1. CASE ~Holding(c, Arg(c))
    BY <1>1, PageSame DEF Disown, Fail
  <1>2. CASE Holding(c, Arg(c))
    <2>1. /\ Goes(c, Rest(c)) /\ UNCHANGED <<freelist, next, held, work>>
          /\ At(c, "disown")
      BY <1>2 DEF Disown
    <2> QED BY <2>1, PageAt
  <1> QED BY <1>1, <1>2

LEMMA KeepsPages_Unlock ==
    ASSUME LocksInv, PageInv, NEW c \in CPU, Unlock(c), UNCHANGED work PROVE PageInv'
  <1>1. CASE cpu[c].if \/ cpu[c].ncli = 0
    BY <1>1, PageSame DEF Unlock, Fail
  <1>2. CASE ~(cpu[c].if \/ cpu[c].ncli = 0)
    <2>1. /\ Goes(c, Rest(c)) /\ UNCHANGED <<freelist, next, held, work>>
          /\ At(c, "unlock")
      BY <1>2 DEF Unlock
    <2> QED BY <2>1, PageAt
  <1> QED BY <1>1, <1>2

\* Instructions that only go on to the next.
LEMMA KeepsPages_Plain ==
    ASSUME LocksInv, PageInv, NEW c \in CPU, UNCHANGED work,
           \/ Xchg(c) \/ UseLock(c) \/ StartAP(c) \/ Started(c) \/ Resumed(c)
           \/ Wakeup(c) \/ Iret(c)
    PROVE  PageInv'
  <1>1. CASE Xchg(c)
    <2>1. At(c, "xchg") /\ Goes(c, Rest(c)) /\ UNCHANGED <<freelist, next, held, work>>
      BY <1>1 DEF Xchg
    <2> QED BY <2>1, PageAt
  <1>2. CASE UseLock(c)
    <2>1. At(c, "uselock") /\ Goes(c, Rest(c)) /\ UNCHANGED <<freelist, next, held, work>>
      BY <1>2 DEF UseLock
    <2> QED BY <2>1, PageAt
  <1>3. CASE StartAP(c)
    <2>1. At(c, "startap") /\ Goes(c, Rest(c)) /\ UNCHANGED <<freelist, next, held, work>>
      BY <1>3 DEF StartAP
    <2> QED BY <2>1, PageAt
  <1>4. CASE Started(c)
    <2>1. At(c, "started") /\ Goes(c, Rest(c)) /\ UNCHANGED <<freelist, next, held, work>>
      BY <1>4 DEF Started
    <2> QED BY <2>1, PageAt
  <1>5. CASE Resumed(c)
    <2>1. At(c, "resume") /\ Goes(c, Rest(c)) /\ UNCHANGED <<freelist, next, held, work>>
      BY <1>5 DEF Resumed
    <2> QED BY <2>1, PageAt
  <1>6. CASE Wakeup(c)
    <2>1. At(c, "wakeup") /\ Goes(c, Rest(c)) /\ UNCHANGED <<freelist, next, held, work>>
      BY <1>6 DEF Wakeup
    <2> QED BY <2>1, PageAt
  <1>7. CASE Iret(c)
    <2>1. /\ At(c, "iret") \/ At(c, "trapret")
          /\ Goes(c, Rest(c)) /\ UNCHANGED <<freelist, next, held, work>>
      BY <1>7 DEF Iret
    <2> QED BY <2>1, PageAt
  <1> QED BY <1>1, <1>2, <1>3, <1>4, <1>5, <1>6, <1>7

LEMMA KeepsPages_Pick ==
    ASSUME LocksInv, PageInv, NEW c \in CPU, Pick(c), UNCHANGED work PROVE PageInv'
  <1>1. At(c, "pick") /\ UNCHANGED <<freelist, next, held, work>>
    BY DEF Pick
  <1>2. Goes(c, Rest(c)) \/ UNCHANGED code
    BY DEF Pick
  <1> QED BY <1>1, <1>2, PageAt, PageSame

\* Something, s, put before the rest of the code.
LEMMA KeepsPages_PushCli ==
    ASSUME LocksInv, PageInv, NEW c \in CPU, PushCli(c), UNCHANGED work PROVE PageInv'
  <1> DEFINE n == Now(c)
             r == Tail(n)
             a == <<"cli", Arg(c)>>
             s == Cons(a, r)
  <1>1. At(c, "pushcli")
    BY DEF PushCli
  <1>2. n # <<>> /\ code' = [code EXCEPT ![Cur(c)] = s]
    BY <1>1, AtFacts DEF PushCli, Cons
  <1>3. r \in Code /\ Elems(n) = {Head(n)} \cup Elems(r)
    BY <1>2, Here DEF CodeOK
  <1>4. a \in Instr /\ a[1] = "cli"
    BY <1>1, AtArgs, InstrMake DEF LockOp
  <1> HIDE DEF r, a
  <1>5. Elems(s) = {a} \cup Elems(r) /\ \A op : HeadIs(s, op) <=> a[1] = op
    BY <1>3, <1>4, ConsElems, ConsHas
  <1> HIDE DEF s
  <1>6. Frees(a) = {} /\ ~HeadIs(s, "push") /\ ~HeadIs(s, "take")
    BY <1>4, <1>5 DEF Frees
  <1>7. Fresh(s, freelist, next)
    BY <1>6, PlainFresh
  <1>8. UNCHANGED <<freelist, next, held, work>>
    BY DEF PushCli
  <1>9. \A x \in Elems(s) : x \in Elems(Now(c)) \/ Frees(x) \subseteq held[Cur(c)]
    BY <1>3, <1>5, <1>6
  <1> QED BY <1>2, <1>7, <1>8, <1>9, PageSplice

LEMMA KeepsPages_IfLock ==
    ASSUME LocksInv, PageInv, NEW c \in CPU, IfLock(c), UNCHANGED work PROVE PageInv'
  <1> DEFINE n == Now(c)
             x == Head(n)
             r == Tail(n)
             s == Acq("kmem", r)
  <1>1. At(c, "iflock") /\ UNCHANGED <<freelist, next, held, work>>
    BY DEF IfLock
  <1>2. n # <<>> /\ x[1] = "iflock" /\ Rest(c) = r
        /\ \A z : Goes(c, z) <=> code' = [code EXCEPT ![Cur(c)] = z]
    BY <1>1, AtFacts
  <1>3. /\ CodeOK(Cur(c), r) /\ r \in Code /\ Elems(n) = {x} \cup Elems(r)
        /\ Fits(x, r) /\ Mine(Cur(c), x)
    BY <1>2, Here DEF CodeOK
  <1>4. CASE ~use_lock
    <2>1. CheckedLock \o r = r
      <3>1. Cat(<<>>, r) = r
        BY <1>3, EmptyFacts, Assoc
      <3> QED BY <3>1, <1>4 DEF CheckedLock, Cat
    <2>2. Goes(c, Rest(c))
      BY <1>2, <2>1 DEF IfLock
    <2> QED BY <1>1, <2>2, PageAt
  <1>5. CASE use_lock
    <2>1. code' = [code EXCEPT ![Cur(c)] = s]
      <3>1. Cat(acquire("kmem"), r) = s
        BY <1>3, UnfoldCalls, Locks3
      <3>2. acquire("kmem") \o r = s
        BY <3>1 DEF Cat
      <3>3. Goes(c, acquire("kmem") \o r)
        BY <1>2, <1>5 DEF IfLock, CheckedLock
      <3> HIDE DEF s
      <3> QED BY <1>2, <3>2, <3>3
    <2> HIDE DEF x, r
    <2>2. Plain(r) /\ In(r, "kmem") /\ (Cur(c) = 0 \/ Cur(c) \in Proc) /\ "kmem" \in Lock
      BY <1>2, <1>3, Locks3 DEF Fits, Mine, ListOp
    <2>3. /\ Plain(s) /\ Elems(s) = {<<"pushcli", "kmem">>, <<"xchg", "kmem">>} \cup Elems(r)
      BY <1>3, <2>2, AcqOK
    <2> HIDE DEF s
    <2>4. Fresh(s, freelist, next)
      BY <2>3, PlainFresh DEF Plain
    <2>5. \A y \in Elems(s) : y \in Elems(Now(c)) \/ Frees(y) \subseteq held[Cur(c)]
      BY <1>3, <2>3 DEF Frees
    <2> QED BY <1>1, <2>1, <2>4, <2>5, PageSplice
  <1> QED BY <1>4, <1>5

LEMMA KeepsPages_IfUnlock ==
    ASSUME LocksInv, PageInv, NEW c \in CPU, IfUnlock(c), UNCHANGED work PROVE PageInv'
  <1> DEFINE n == Now(c)
             x == Head(n)
             r == Tail(n)
             s == Rel("kmem", r)
  <1>1. At(c, "ifunlock") /\ UNCHANGED <<freelist, next, held, work>>
    BY DEF IfUnlock
  <1>2. n # <<>> /\ x[1] = "ifunlock" /\ Rest(c) = r
        /\ \A z : Goes(c, z) <=> code' = [code EXCEPT ![Cur(c)] = z]
    BY <1>1, AtFacts
  <1>3. /\ CodeOK(Cur(c), r) /\ r \in Code /\ Elems(n) = {x} \cup Elems(r)
        /\ Fits(x, r) /\ Mine(Cur(c), x)
    BY <1>2, Here DEF CodeOK
  <1>4. CASE ~use_lock
    <2>1. (IF use_lock THEN release("kmem") ELSE <<>>) \o r = r
      <3>1. Cat(<<>>, r) = r
        BY <1>3, EmptyFacts, Assoc
      <3> QED BY <3>1, <1>4 DEF Cat
    <2>2. Goes(c, Rest(c))
      BY <1>2, <2>1 DEF IfUnlock
    <2> QED BY <1>1, <2>2, PageAt
  <1>5. CASE use_lock
    <2>1. code' = [code EXCEPT ![Cur(c)] = s]
      <3>1. Cat(release("kmem"), r) = s
        BY <1>3, UnfoldCalls, Locks3
      <3>2. release("kmem") \o r = s
        BY <3>1 DEF Cat
      <3>3. Goes(c, release("kmem") \o r)
        BY <1>2, <1>5 DEF IfUnlock
      <3> HIDE DEF s
      <3> QED BY <1>2, <3>2, <3>3
    <2> HIDE DEF x, r
    <2>2. Plain(r) /\ ~In(r, "kmem") /\ (Cur(c) = 0 \/ Cur(c) \in Proc) /\ "kmem" \in Lock
      BY <1>2, <1>3, Locks3 DEF Fits, Mine, ListOp
    <2>3. /\ Plain(s) /\ Elems(s) = {<<"disown", "kmem">>, <<"unlock", "kmem">>} \cup Elems(r)
      BY <1>3, <2>2, RelOK
    <2> HIDE DEF s
    <2>4. Fresh(s, freelist, next)
      BY <2>3, PlainFresh DEF Plain
    <2>5. \A y \in Elems(s) : y \in Elems(Now(c)) \/ Frees(y) \subseteq held[Cur(c)]
      BY <1>3, <2>3 DEF Frees
    <2> QED BY <1>1, <2>1, <2>4, <2>5, PageSplice
  <1> QED BY <1>4, <1>5

LEMMA KeepsPages_ReadHead ==
    ASSUME LocksInv, PageInv, NEW c \in CPU, ReadHead(c), UNCHANGED work PROVE PageInv'
  <1> DEFINE n == Now(c)
             x == Head(n)
             r == Tail(n)
             b == <<"take", freelist, Arg(c)>>
  <1>1. At(c, "head") /\ UNCHANGED <<freelist, next, held, work>>
    BY DEF ReadHead
  <1>2. n # <<>> /\ x[1] = "head" /\ Rest(c) = r
        /\ \A z : Goes(c, z) <=> code' = [code EXCEPT ![Cur(c)] = z]
    BY <1>1, AtFacts
  <1>3. /\ CodeOK(Cur(c), r) /\ r \in Code /\ Elems(n) = {x} \cup Elems(r) /\ Fits(x, r)
    BY <1>2, Here DEF CodeOK
  <1>4. code' = [code EXCEPT ![Cur(c)] = IF freelist = Null THEN <<Head(r)>>
                                         ELSE Cons(b, r)]
    BY <1>2 DEF ReadHead, Cons
  <1>5. HeadIs(r, "ifunlock")
    BY <1>2, <1>3 DEF Fits
  <1>6. CASE freelist = Null
    <2> DEFINE s == <<Head(r)>>
    <2>1. r # <<>> /\ Head(r)[1] = "ifunlock"
      BY <1>5 DEF HeadIs
    <2>2. s # <<>> /\ Head(s) = Head(r) /\ Elems(s) = {Head(r)}
      <3>1. PICK a \in Instr : a = Head(r)
        BY <1>3, <2>1, UnconsOK
      <3>2. <<a>> \in Code /\ Cat(<<a>>, <<>>) = Cons(a, <<>>)
        BY UnfoldCalls, EmptyFacts
      <3>3. Cat(<<a>>, <<>>) = <<a>>
        BY <3>2, Assoc
      <3>4. /\ Cons(a, <<>>) # <<>> /\ Head(Cons(a, <<>>)) = a
            /\ Elems(Cons(a, <<>>)) = {a} \cup Elems(<<>>)
        BY EmptyFacts, ConsSeq, ConsElems
      <3>5. s = Cons(a, <<>>)
        BY <3>1, <3>2, <3>3
      <3> HIDE DEF s
      <3> QED BY <3>1, <3>4, <3>5, EmptyFacts
    <2>3. Head(r) \in Elems(n)
      BY <1>3, <2>1 DEF Elems, Code
    <2>4. code' = [code EXCEPT ![Cur(c)] = s]
      BY <1>4, <1>6
    <2> HIDE DEF s
    <2>5. ~HeadIs(s, "push") /\ ~HeadIs(s, "take")
      BY <2>1, <2>2 DEF HeadIs
    <2>6. Fresh(s, freelist, next)
      BY <2>5, PlainFresh
    <2> QED BY <1>1, <2>2, <2>3, <2>4, <2>6, PageSplice
  <1>7. CASE freelist # Null
    <2> DEFINE s == Cons(b, r)
    <2>1. b \in Instr /\ b[1] = "take" /\ b[2] = freelist
      BY <1>1, <1>7, AtArgs, InstrMake DEF LocksInv, TypeOK
    <2> HIDE DEF b
    <2>2. /\ Elems(s) = {b} \cup Elems(r) /\ Head(s) = b
          /\ \A op : HeadIs(s, op) <=> b[1] = op
      BY <1>3, <2>1, ConsElems, ConsHas, ConsSeq
    <2>3. code' = [code EXCEPT ![Cur(c)] = s]
      BY <1>4, <1>7
    <2> HIDE DEF s
    <2>4. Fresh(s, freelist, next)
      BY <1>7, <2>1, <2>2 DEF Fresh
    <2>5. Frees(b) = {}
      BY <2>1 DEF Frees
    <2>6. \A y \in Elems(s) : y \in Elems(Now(c)) \/ Frees(y) \subseteq held[Cur(c)]
      BY <1>3, <2>2, <2>5
    <2> QED BY <1>1, <2>3, <2>4, <2>6, PageSplice
  <1> QED BY <1>6, <1>7

\* What FreeThen and AllocThen are made of.
LEMMA ThenElems ==
    ASSUME NEW s \in Code
    PROVE  /\ \A v \in Page :
                 LET u == FreeThen(v, s)
                 IN  /\ \A op : HeadIs(u, op) <=> op = "iflock"
                     /\ Elems(u) = {<<"iflock">>, <<"link", v>>, <<"push", v>>,
                                    <<"ifunlock">>} \cup Elems(s)
           /\ \A t \in Thread :
                 LET u == AllocThen(t, s)
                 IN  /\ \A op : HeadIs(u, op) <=> op = "iflock"
                     /\ Elems(u) = {<<"iflock">>, <<"head", t>>, <<"ifunlock">>}
                                     \cup Elems(s)
  <1> DEFINE a == Cons(<<"ifunlock">>, s)
  <1>1. a \in Code /\ Elems(a) = {<<"ifunlock">>} \cup Elems(s)
    BY InstrMake, ConsSeq, ConsElems
  <1>2. ASSUME NEW v \in Page
        PROVE  /\ \A op : HeadIs(FreeThen(v, s), op) <=> op = "iflock"
               /\ Elems(FreeThen(v, s)) = {<<"iflock">>, <<"link", v>>, <<"push", v>>,
                                           <<"ifunlock">>} \cup Elems(s)
    <2> DEFINE b == Cons(<<"push", v>>, a)
               d == Cons(<<"link", v>>, b)
    <2> HIDE DEF a
    <2>1. b \in Code /\ Elems(b) = {<<"push", v>>} \cup Elems(a)
      BY <1>1, InstrMake, ConsSeq, ConsElems
    <2> HIDE DEF b
    <2>2. d \in Code /\ Elems(d) = {<<"link", v>>} \cup Elems(b)
      BY <2>1, InstrMake, ConsSeq, ConsElems
    <2>3. FreeThen(v, s) = Cons(<<"iflock">>, d)
      BY DEF FreeThen, d, b, a
    <2> HIDE DEF d
    <2>4. PICK i \in Instr : i = <<"iflock">>
      BY InstrMake
    <2>5. /\ Elems(Cons(i, d)) = {i} \cup Elems(d)
          /\ \A op : HeadIs(Cons(i, d), op) <=> i[1] = op
      BY <2>2, ConsElems, ConsHas
    <2>6. i[1] = "iflock"
      BY <2>4
    <2> QED BY <1>1, <2>1, <2>2, <2>3, <2>4, <2>5, <2>6
  <1>3. ASSUME NEW t \in Thread
        PROVE  /\ \A op : HeadIs(AllocThen(t, s), op) <=> op = "iflock"
               /\ Elems(AllocThen(t, s)) = {<<"iflock">>, <<"head", t>>, <<"ifunlock">>}
                                             \cup Elems(s)
    <2> DEFINE b == Cons(<<"head", t>>, a)
    <2> HIDE DEF a
    <2>1. b \in Code /\ Elems(b) = {<<"head", t>>} \cup Elems(a)
      BY <1>1, InstrMake, ConsSeq, ConsElems
    <2>3. AllocThen(t, s) = Cons(<<"iflock">>, b)
      BY DEF AllocThen, b, a
    <2> HIDE DEF b
    <2>4. PICK i \in Instr : i = <<"iflock">>
      BY InstrMake
    <2>5. /\ Elems(Cons(i, b)) = {i} \cup Elems(b)
          /\ \A op : HeadIs(Cons(i, b), op) <=> i[1] = op
      BY <2>1, ConsElems, ConsHas
    <2>6. i[1] = "iflock"
      BY <2>4
    <2> QED BY <1>1, <2>1, <2>3, <2>4, <2>5, <2>6
  <1> QED BY <1>2, <1>3

LEMMA KeepsPages_FreeRange ==
    ASSUME LocksInv, PageInv, NEW c \in CPU, FreeRange(c), UNCHANGED work PROVE PageInv'
  <1> DEFINE n == Now(c)
             x == Head(n)
             r == Tail(n)
             A == Arg(c)
  <1>1. At(c, "freerange") /\ UNCHANGED <<freelist, next, held, work>>
    BY DEF FreeRange
  <1>2. n # <<>> /\ x[1] = "freerange" /\ x[2] = A /\ Rest(c) = r /\ A \in SUBSET Page
        /\ \A z : Goes(c, z) <=> code' = [code EXCEPT ![Cur(c)] = z]
    BY <1>1, AtFacts, AtArgs
  <1>3. r \in Code /\ Elems(n) = {x} \cup Elems(r) /\ Cur(c) \in Thread
    BY <1>2, Here DEF CodeOK
  <1>4. A \subseteq held[Cur(c)]
    <2>1. Frees(x) = A
      BY <1>2 DEF Frees
    <2>2. x \in Elems(code[Cur(c)])
      BY <1>3 DEF Now
    <2> QED BY <1>3, <2>1, <2>2 DEF PageInv, Owns
  <1>5. CASE Goes(c, Rest(c))
    BY <1>1, <1>5, PageAt
  <1>6. ASSUME NEW v \in A, Goes(c, kfree(v) \o <<<<"freerange", A \ {v}>>>> \o Rest(c))
        PROVE  PageInv'
    <2> DEFINE b == <<"freerange", A \ {v}>>
               q == Cons(b, r)
               s == FreeThen(v, q)
    <2>1. v \in Page /\ A \ {v} \in SUBSET Page
      BY <1>2
    <2>2. code' = [code EXCEPT ![Cur(c)] = s]
      <3>1. kfree(v) \o <<<<"freerange", A \ {v}>>>> \o r = s
        BY <1>3, <2>1, UnfoldFreeRange
      <3>2. code' = [code EXCEPT ![Cur(c)] =
                       kfree(v) \o <<<<"freerange", A \ {v}>>>> \o r]
        BY <1>2, <1>6
      <3> QED BY <3>1, <3>2
    <2>3. b \in Instr /\ b[1] = "freerange" /\ b[2] = A \ {v}
      BY <2>1, InstrMake
    <2> HIDE DEF x, r, b, A
    <2>4. q \in Code /\ Elems(q) = {b} \cup Elems(r)
      BY <1>3, <2>3, ConsSeq, ConsElems
    <2> HIDE DEF q
    <2>5. /\ \A op : HeadIs(s, op) <=> op = "iflock"
          /\ Elems(s) = {<<"iflock">>, <<"link", v>>, <<"push", v>>, <<"ifunlock">>}
                          \cup Elems(q)
      BY <2>1, <2>4, ThenElems
    <2> HIDE DEF s
    <2>6. Fresh(s, freelist, next)
      BY <2>5, PlainFresh
    <2>7. Frees(b) \subseteq held[Cur(c)] /\ v \in held[Cur(c)]
      BY <1>4, <2>3 DEF Frees
    <2>8. \A y \in Elems(s) : y \in Elems(Now(c)) \/ Frees(y) \subseteq held[Cur(c)]
      BY <1>3, <2>4, <2>5, <2>7 DEF Frees
    <2> QED BY <1>1, <2>2, <2>6, <2>8, PageSplice
  <1>7. \/ Goes(c, Rest(c))
        \/ \E v \in A : Goes(c, kfree(v) \o <<<<"freerange", A \ {v}>>>> \o Rest(c))
    BY DEF FreeRange
  <1> HIDE DEF A
  <1> QED BY <1>5, <1>6, <1>7

LEMMA KeepsPages_StartOthers ==
    ASSUME LocksInv, PageInv, NEW c \in CPU, StartOthers(c), UNCHANGED work PROVE PageInv'
  <1> DEFINE n == Now(c)
             x == Head(n)
             r == Tail(n)
             i == Arg(c)
             w == Cons(<<"startap", i>>, Cons(<<"started", i>>,
                       Cons(<<"startothers", i + 1>>, r)))
             s == AllocThen(0, w)
  <1>1. At(c, "startothers") /\ UNCHANGED <<freelist, next, held, work>>
    BY DEF StartOthers
  <1>2. n # <<>> /\ x[1] = "startothers" /\ Rest(c) = r /\ i \in 1 .. NCPU
        /\ \A z : Goes(c, z) <=> code' = [code EXCEPT ![Cur(c)] = z]
    BY <1>1, AtFacts, AtArgs
  <1>3. /\ r \in Code /\ Elems(n) = {x} \cup Elems(r) /\ CodeOK(Cur(c), r) /\ Fits(x, r)
        /\ Mine(Cur(c), x)
    BY <1>2, Here DEF CodeOK
  <1>4. CASE i = NCPU
    <2>1. Goes(c, Rest(c))
      BY <1>4 DEF StartOthers
    <2> QED BY <1>1, <2>1, PageAt
  <1>5. CASE i # NCPU
    <2>1. i \in CPU /\ i + 1 \in 1 .. NCPU
      BY <1>2, <1>5, KmemAssumption DEF CPU
    <2>2. code' = [code EXCEPT ![Cur(c)] = s]
      <3>2. kalloc(0) \o <<<<"startap", i>>, <<"started", i>>, <<"startothers", i + 1>>>> \o r = s
        BY <2>1, <1>3, UnfoldStartOthers
      <3>3. code' = [code EXCEPT ![Cur(c)] =
               kalloc(0) \o <<<<"startap", i>>, <<"started", i>>, <<"startothers", i + 1>>>> \o r]
        BY <1>2, <1>5 DEF StartOthers
      <3> QED BY <3>2, <3>3
    <2> HIDE DEF x, r, i
    <2>4. /\ Free(r) /\ Own(r) /\ Plain(r) /\ Cur(c) = 0 /\ (HasMain(r) => HeadMain(r))
      BY <1>2, <1>3 DEF Fits, Mine, MainOp, ListOp
    <2>5. /\ Plain(s) /\ \A y \in Elems(s) : y \in Elems(r) \/ Frees(y) = {}
      BY <1>3, <2>1, <2>4, StartOthersOK
    <2> HIDE DEF s
    <2>6. Fresh(s, freelist, next)
      BY <2>5, PlainFresh DEF Plain
    <2>7. \A y \in Elems(s) : y \in Elems(Now(c)) \/ Frees(y) \subseteq held[Cur(c)]
      BY <1>3, <2>5
    <2> QED BY <1>1, <2>2, <2>6, <2>7, PageSplice
  <1> QED BY <1>4, <1>5

LEMMA KeepsPages_Sched ==
    ASSUME LocksInv, PageInv, NEW c \in CPU, Sched(c), UNCHANGED work PROVE PageInv'
  <1> DEFINE n == Now(c)
             x == Head(n)
             r == Tail(n)
             b == <<"resume", cpu[c].intena>>
             s == Cons(b, r)
  <1>1. At(c, "sched")
    BY DEF Sched
  <1>2. n # <<>> /\ Rest(c) = r
        /\ \A z : Goes(c, z) <=> code' = [code EXCEPT ![Cur(c)] = z]
    BY <1>1, AtFacts
  <1>3. r \in Code /\ Elems(n) = {x} \cup Elems(r)
    BY <1>2, Here DEF CodeOK
  <1>4. b \in Instr /\ b[1] = "resume"
    <2>1. cpu[c].intena \in BOOLEAN
      BY DEF LocksInv, TypeOK
    <2> QED BY <2>1, InstrMake
  <1>5. CASE UNCHANGED <<code, freelist, next, held>>
    BY <1>5, PageSame
  <1>6. CASE Goes(c, Resume(cpu[c].intena) \o Rest(c)) /\ UNCHANGED <<freelist, next, held>>
    <2>1. code' = [code EXCEPT ![Cur(c)] = s]
      BY <1>2, <1>6 DEF Resume, Cons
    <2> HIDE DEF x, r, b
    <2>2. Elems(s) = {b} \cup Elems(r) /\ \A op : HeadIs(s, op) <=> b[1] = op
      BY <1>3, <1>4, ConsElems, ConsHas
    <2> HIDE DEF s
    <2>3. Fresh(s, freelist, next)
      BY <1>4, <2>2, PlainFresh
    <2>4. Frees(b) = {}
      BY <1>4 DEF Frees
    <2>5. \A y \in Elems(s) : y \in Elems(Now(c)) \/ Frees(y) \subseteq held[Cur(c)]
      BY <1>3, <2>2, <2>4
    <2> QED BY <1>6, <2>1, <2>3, <2>5, PageSplice
  <1> QED BY <1>5, <1>6 DEF Sched, Fail

LEMMA QuietSplice ==
    ASSUME LocksInv, PageInv, NEW c \in CPU, NEW s,
           code' = [code EXCEPT ![Cur(c)] = s], UNCHANGED <<freelist, next, held, work>>,
           Plain(s), \A x \in Elems(s) : Quiet(x) \/ x \in Elems(Now(c))
    PROVE  PageInv'
  <1>1. Fresh(s, freelist, next)
    BY PlainFresh DEF Plain
  <1>2. \A x \in Elems(s) : x \in Elems(Now(c)) \/ Frees(x) \subseteq held[Cur(c)]
    BY QuietFrees
  <1> QED BY <1>1, <1>2, PageSplice

LEMMA KeepsPages_Loop ==
    ASSUME LocksInv, PageInv, NEW c \in CPU, Loop(c), UNCHANGED work PROVE PageInv'
  <1>1. /\ code' = [code EXCEPT ![Cur(c)] = scheduler]
        /\ UNCHANGED <<freelist, next, held, work>>
    BY DEF Loop, Goes
  <1>2. Plain(scheduler) /\ \A x \in Elems(scheduler) : Quiet(x)
    BY SchedulerOK
  <1> QED BY <1>1, <1>2, QuietSplice

LEMMA KeepsPages_Timer ==
    ASSUME LocksInv, PageInv, NEW c \in CPU, Timer(c), UNCHANGED work PROVE PageInv'
  <1> DEFINE n == Now(c)
             s == TrapThen(c, Cur(c), n)
  <1>1. /\ Cur(c) \in Thread /\ CodeOK(Cur(c), n) /\ CpuOK(cpu[c], n, use_lock)
        /\ n = code[Cur(c)] /\ cpu[c].if
    BY DEF LocksInv, TypeOK, CodeInv, CpuInv, Cur, Now, Timer
  <1>2. n \in Code
    BY <1>1 DEF CodeOK
  <1>3. code' = [code EXCEPT ![Cur(c)] = s] /\ UNCHANGED <<freelist, next, held, work>>
    BY <1>1, <1>2, UnfoldTrap DEF Timer, Goes
  <1> HIDE DEF n
  <1>4. Plain(n)
    BY <1>1, OnPlain
  <1>5. Free(n) /\ ~Has(n, "iret")
    BY <1>1 DEF CpuOK
  <1>6. Plain(s) /\ \A y \in Elems(s) : Quiet(y) \/ y \in Elems(n)
    BY <1>1, <1>4, <1>5, TrapOK
  <1> HIDE DEF s
  <1> QED BY <1>3, <1>6, QuietSplice DEF n

LEMMA KeepsPages_Syscall ==
    ASSUME LocksInv, PageInv, NEW c \in CPU, Syscall(c), UNCHANGED work PROVE PageInv'
  <1> DEFINE p == Cur(c)
  <1>1. p \in Proc /\ ThreadInv /\ UNCHANGED <<freelist, next, held, work>>
    BY DEF LocksInv, Syscall
  <1>2. use_lock /\ state[p] = "RUNNING"
    BY <1>1, ThreadFacts, HereBoot DEF ThreadInv
  <1>3. PICK s \in Calls(p) :
           code' = [code EXCEPT ![p] =
                      IF Head(s) = <<"iflock">> THEN acquire("kmem") \o Tail(s) ELSE s]
    BY <1>2 DEF Syscall, Goes, CheckedLock
  <1>4. CASE s = SleepProg
    <2>1. /\ \A op : HeadIs(SleepProg, op) <=> op = "pushcli"
          /\ \A x \in Elems(SleepProg) : Quiet(x)
      BY <1>1, SleepOK
    <2>2. Head(s) # <<"iflock">> /\ Plain(SleepProg)
      BY <1>4, <2>1 DEF HeadIs, Plain
    <2>3. code' = [code EXCEPT ![Cur(c)] = SleepProg]
      BY <1>3, <1>4, <2>2
    <2> QED BY <1>1, <2>1, <2>2, <2>3, QuietSplice
  <1>5. ASSUME NEW w, s = Cons(<<"iflock">>, w), w \in Code,
               CodeOK(p, w), Only(w, "kmem"), Plain(w), Owns(w, held[p])
        PROVE  PageInv'
    <2> DEFINE z == Acq("kmem", w)
    <2>1. Head(s) = <<"iflock">> /\ Tail(s) = w
      BY <1>5, ConsSeq, InstrMake
    <2>2. code' = [code EXCEPT ![p] = z]
      BY <1>3, <1>5, <2>1, UnfoldCalls, Locks3 DEF Cat
    <2>3. Plain(z) /\ Elems(z) = {<<"pushcli", "kmem">>, <<"xchg", "kmem">>} \cup Elems(w)
      <3>1. In(w, "kmem") /\ "kmem" \in Lock
        BY <1>5, Locks3 DEF Only
      <3> QED BY <1>1, <1>5, <3>1, AcqOK
    <2> HIDE DEF z
    <2>4. \A x \in Elems(z) : Frees(x) \subseteq held[p]
      BY <1>5, <2>3 DEF Frees, Owns
    <2>5. Fresh(z, freelist, next)
      BY <2>3, PlainFresh DEF Plain
    <2> QED BY <1>1, <2>2, <2>4, <2>5, PageSplice
  <1> QED BY <1>1, <1>2, <1>4, <1>5, CallsOK

LEMMA KeepsPages_StartProc ==
    ASSUME LocksInv, PageInv, NEW c \in CPU, StartProc(c), UNCHANGED work PROVE PageInv'
  <1> DEFINE n == Now(c)
             x == Head(n)
             r == Tail(n)
             q == Arg(c)
  <1>1. At(c, "start")
    BY DEF StartProc
  <1>2. n # <<>> /\ x[1] = "start" /\ x[2] = q /\ Rest(c) = r /\ n = code[Cur(c)]
    BY <1>1, AtFacts
  <1>3. /\ Cur(c) \in Thread /\ Fits(x, r) /\ Elems(n) = {x} \cup Elems(r)
        /\ \A y \in Elems(n) : y[1] = "start" => state[y[2]] = "UNUSED"
    BY <1>2, Here
  <1>4. q \in Proc /\ q \in Thread /\ ThreadInv /\ code \in [Thread -> Code]
    BY <1>1, AtArgs, ThreadFacts DEF LocksInv, CodeInv
  <1>5. /\ code' = [code EXCEPT ![Cur(c)] = r, ![q] = forkret]
        /\ UNCHANGED <<freelist, next, held, work>>
    BY <1>2 DEF StartProc
  <1> HIDE DEF n, x, r, q
  <1>6. Cur(c) # q
    <2>1. state[q] = "UNUSED"
      BY <1>2, <1>3
    <2> QED BY <2>1, <1>4, WhoRuns
  <1>7. /\ code'[Cur(c)] = r /\ code'[q] = forkret
        /\ \A t \in Thread : t # Cur(c) /\ t # q => code'[t] = code[t]
    BY <1>3, <1>4, <1>5, <1>6
  <1>8. Owns(r, held[Cur(c)]) /\ Fresh(r, freelist, next)
    <2>1. Owns(n, held[Cur(c)])
      BY <1>2, <1>3 DEF PageInv
    <2>2. ~HeadIs(r, "push") /\ ~HeadIs(r, "take")
      BY <1>2, <1>3 DEF Fits, Plain
    <2> QED BY <2>1, <2>2, <1>3, PlainFresh DEF Owns
  <1>9. Owns(forkret, held[q]) /\ Fresh(forkret, freelist, next)
    <2>1. Parked(forkret) /\ \A y \in Elems(forkret) : Quiet(y)
      BY <1>4, ForkretOK
    <2>2. ~HeadIs(forkret, "push") /\ ~HeadIs(forkret, "take")
      BY <2>1 DEF Parked, HeadIs
    <2>3. Owns(forkret, held[q])
      BY <2>1, QuietFrees DEF Owns
    <2> QED BY <2>2, <2>3, PlainFresh
  <1>10. \A t \in Thread : Owns(code'[t], held[t]) /\ Fresh(code'[t], freelist, next)
    <2> TAKE t \in Thread
    <2>1. CASE t = Cur(c)
      BY <2>1, <1>7, <1>8
    <2>2. CASE t = q
      BY <2>2, <1>7, <1>9
    <2>3. CASE t # Cur(c) /\ t # q
      BY <2>3, <1>7 DEF PageInv
    <2> QED BY <2>1, <2>2, <2>3
  <1>11. Pages' = Pages
    BY <1>5 DEF Pages
  <1> QED BY <1>5, <1>10, <1>11 DEF PageInv

\* What is known where c uses the free list.
LEMMA ListStep ==
    ASSUME LocksInv, PageInv, NEW c \in CPU, NEW op \in {"link", "push", "take"}, At(c, op),
           Goes(c, Rest(c))
    PROVE  LET n == Now(c)
               x == Head(n)
               r == Tail(n)
           IN  /\ Cur(c) \in Thread /\ n = code[Cur(c)] /\ HeadIs(n, op) /\ x[1] = op
               /\ Arg(c) = x[2] /\ x[2] \in Page /\ Fits(x, r) /\ CodeOK(Cur(c), r)
               /\ Elems(n) = {x} \cup Elems(r)
               /\ code'[Cur(c)] = r
               /\ \A t \in Thread : t # Cur(c) =>
                     /\ code'[t] = code[t]
                     /\ ~HeadIs(code[t], "take") /\ ~HeadIs(code[t], "push")
  <1> DEFINE n == Now(c)
             x == Head(n)
             r == Tail(n)
  <1>1. /\ n # <<>> /\ x[1] = op /\ x[2] = Arg(c) /\ n = code[Cur(c)]
        /\ code' = [code EXCEPT ![Cur(c)] = r]
    BY AtFacts
  <1>2. /\ Cur(c) \in Thread /\ Fits(x, r) /\ CodeOK(Cur(c), r)
        /\ Elems(n) = {x} \cup Elems(r)
        /\ \A l : In(n, l) <=> Leaves(x, l) \/ (~Enters(x, l) /\ In(r, l))
    BY <1>1, Here
  <1>3. Arg(c) \in Page /\ code \in [Thread -> Code]
    BY AtArgs DEF LocksInv, CodeInv
  <1>4. HeadIs(n, op)
    BY <1>1 DEF HeadIs
  <1> HIDE DEF x, r
  <1>5. In(n, "kmem")
    BY <1>1, <1>2 DEF Fits, Leaves, Enters
  <1>6. \A t \in Thread : t # Cur(c) => ~HeadIs(code[t], "take") /\ ~HeadIs(code[t], "push")
    BY <1>5, OneUser
  <1>7. code'[Cur(c)] = r /\ \A t \in Thread : t # Cur(c) => code'[t] = code[t]
    BY <1>1, <1>2, <1>3
  <1> QED BY <1>1, <1>2, <1>3, <1>4, <1>6, <1>7 DEF x, r

LEMMA KeepsPages_Link ==
    ASSUME LocksInv, PageInv, NEW c \in CPU, Link(c), UNCHANGED work PROVE PageInv'
  <1> DEFINE n == Now(c)
             x == Head(n)
             r == Tail(n)
             v == x[2]
             nw == [next EXCEPT ![v] = freelist]
  <1>1. At(c, "link") /\ Goes(c, Rest(c))
    BY DEF Link
  <1>2. /\ Cur(c) \in Thread /\ n = code[Cur(c)] /\ x[1] = "link"
        /\ Arg(c) = v /\ v \in Page /\ Fits(x, r)
        /\ Elems(n) = {x} \cup Elems(r) /\ code'[Cur(c)] = r
        /\ \A t \in Thread : t # Cur(c) =>
              /\ code'[t] = code[t]
              /\ ~HeadIs(code[t], "take") /\ ~HeadIs(code[t], "push")
    BY <1>1, ListStep
  <1>a. r # <<>> => Head(r) \in Elems(r)
    <2>1. CodeOK(Cur(c), r)
      BY <1>1, ListStep
    <2> QED BY <2>1, UnconsOK
  <1>3. /\ next' = nw /\ UNCHANGED <<freelist, held, work>>
        /\ next \in [Page -> Page \cup {Null}]
    BY <1>2 DEF Link, LocksInv, TypeOK
  <1>4. PICK L \in Seq(Page) : Chain(L, freelist, next) /\ Placed(Elems(L), Pages, held)
    BY DEF PageInv
  <1>5. nw[v] = freelist
    BY <1>2, <1>3
  <1> HIDE DEF n, x, r, v, nw
  <1>6. HeadIs(r, "push") /\ Head(r)[2] = v /\ Head(r)[1] = "push" /\ Head(r) \in Elems(r)
    BY <1>2, <1>a DEF Fits, Pair, HeadIs, v
  <1>7. \A t \in Thread : /\ held[t] \subseteq Pages /\ Owns(code[t], held[t])
                          /\ Fresh(code[t], freelist, next)
    BY DEF PageInv
  <1>8. v \in held[Cur(c)] /\ v \in Pages
    <2>1. Owns(n, held[Cur(c)]) /\ held[Cur(c)] \subseteq Pages
      BY <1>2, <1>7
    <2>2. Frees(Head(r)) = {v}
      BY <1>6 DEF Frees
    <2> QED BY <2>1, <2>2, <1>2, <1>6 DEF Owns
  <1>9. v \notin Elems(L)
    BY <1>2, <1>4, <1>8 DEF Placed
  <1>10. Chain(L, freelist, nw)
    BY <1>2, <1>3, <1>4, <1>9, LinkChain DEF nw
  <1>11. Owns(r, held[Cur(c)]) /\ Fresh(r, freelist, nw)
    <2>1. Owns(r, held[Cur(c)])
      BY <1>2, <1>7 DEF Owns
    <2> QED BY <2>1, <1>5, <1>6 DEF Fresh, HeadIs
  <1>12. \A t \in Thread : Owns(code'[t], held[t]) /\ Fresh(code'[t], freelist, nw)
    <2> TAKE t \in Thread
    <2>1. CASE t = Cur(c)
      BY <2>1, <1>2, <1>11
    <2>2. CASE t # Cur(c)
      BY <2>2, <1>2, <1>7, PlainFresh
    <2> QED BY <2>1, <2>2
  <1>13. Pages' = Pages
    BY <1>3 DEF Pages
  <1> QED BY <1>3, <1>4, <1>7, <1>10, <1>12, <1>13 DEF PageInv

LEMMA KeepsPages_Push ==
    ASSUME LocksInv, PageInv, NEW c \in CPU, Push(c), UNCHANGED work PROVE PageInv'
  <1> DEFINE n == Now(c)
             x == Head(n)
             r == Tail(n)
             v == x[2]
             h == [held EXCEPT ![Cur(c)] = @ \ {v}]
  <1>1. At(c, "push") /\ Goes(c, Rest(c))
    BY DEF Push
  <1>2. /\ Cur(c) \in Thread /\ n = code[Cur(c)] /\ x[1] = "push" /\ HeadIs(n, "push")
        /\ Arg(c) = v /\ v \in Page /\ Fits(x, r)
        /\ Elems(n) = {x} \cup Elems(r) /\ code'[Cur(c)] = r
        /\ \A t \in Thread : t # Cur(c) =>
              /\ code'[t] = code[t]
              /\ ~HeadIs(code[t], "take") /\ ~HeadIs(code[t], "push")
    BY <1>1, ListStep
  <1>3. /\ freelist' = v /\ held' = h /\ UNCHANGED <<next, work>>
        /\ held \in [Thread -> SUBSET Page]
    BY <1>2 DEF Push, LocksInv, TypeOK
  <1>4. PICK L \in Seq(Page) : Chain(L, freelist, next) /\ Placed(Elems(L), Pages, held)
    BY DEF PageInv
  <1>5. h[Cur(c)] = held[Cur(c)] \ {v} /\ \A t \in Thread : t # Cur(c) => h[t] = held[t]
    BY <1>2, <1>3
  <1>6. \A t \in Thread : /\ held[t] \subseteq Pages /\ Owns(code[t], held[t])
                          /\ Fresh(code[t], freelist, next)
    BY DEF PageInv
  <1>7. next[v] = freelist
    <2>1. Fresh(n, freelist, next)
      BY <1>2, <1>6
    <2> QED BY <2>1, <1>2 DEF Fresh
  <1> HIDE DEF n, x, r, v, h
  <1>8. Frees(x) = {v}
    BY <1>2 DEF Frees, v
  <1>9. v \in held[Cur(c)] /\ v \in Pages
    <2>1. Owns(n, held[Cur(c)]) /\ held[Cur(c)] \subseteq Pages
      BY <1>2, <1>6
    <2> QED BY <2>1, <1>2, <1>8 DEF Owns
  <1>10. v \notin Elems(L)
    BY <1>2, <1>4, <1>9 DEF Placed
  <1>11. PICK M \in Seq(Page) : Chain(M, v, next) /\ Elems(M) = Elems(L) \cup {v}
    BY <1>2, <1>4, <1>7, <1>10, PushChain
  <1>12. Placed(Elems(M), Pages, h)
    <2>1. Elems(M) \subseteq Pages
      BY <1>4, <1>9, <1>11 DEF Placed
    <2>2. \A t \in Thread : v \notin h[t]
      <3>1. PICK t \in Thread : \A u \in Thread : v \in held[u] <=> u = t
        BY <1>4, <1>9, <1>10 DEF Placed
      <3>2. t = Cur(c)
        BY <3>1, <1>2, <1>9
      <3> QED BY <3>1, <3>2, <1>5
    <2>3. \A w \in Pages, t \in Thread : w # v => (w \in h[t] <=> w \in held[t])
      BY <1>5
    <2>4. ASSUME NEW w \in Pages
          PROVE  IF w \in Elems(M) THEN \A t \in Thread : w \notin h[t]
                 ELSE \E t \in Thread : \A u \in Thread : w \in h[u] <=> u = t
      <3>1. CASE w = v
        BY <3>1, <2>2, <1>11
      <3>2. CASE w # v
        <4>1. w \in Elems(M) <=> w \in Elems(L)
          BY <3>2, <1>11
        <4> QED BY <3>2, <4>1, <2>3, <1>4 DEF Placed
      <3> QED BY <3>1, <3>2
    <2> QED BY <2>1, <2>4 DEF Placed
  <1>13. Owns(r, h[Cur(c)]) /\ Fresh(r, v, next)
    <2>1. Owns(n, held[Cur(c)]) /\ \A y \in Elems(r) : Frees(x) \cap Frees(y) = {}
      BY <1>2, <1>6 DEF Fits
    <2>2. Owns(r, h[Cur(c)])
      BY <2>1, <1>2, <1>5, <1>8 DEF Owns
    <2>3. ~HeadIs(r, "push") /\ ~HeadIs(r, "take")
      BY <1>2 DEF Fits, Plain
    <2> QED BY <2>2, <2>3, PlainFresh
  <1>14. \A t \in Thread : /\ h[t] \subseteq Pages /\ Owns(code'[t], h[t])
                           /\ Fresh(code'[t], v, next)
    <2> TAKE t \in Thread
    <2>1. CASE t = Cur(c)
      BY <2>1, <1>2, <1>5, <1>6, <1>13
    <2>2. CASE t # Cur(c)
      BY <2>2, <1>2, <1>5, <1>6, PlainFresh
    <2> QED BY <2>1, <2>2
  <1>15. Pages' = Pages
    BY <1>3 DEF Pages
  <1> QED BY <1>3, <1>11, <1>12, <1>14, <1>15 DEF PageInv

LEMMA KeepsPages_Take ==
    ASSUME LocksInv, PageInv, NEW c \in CPU, Take(c), UNCHANGED work PROVE PageInv'
  <1> DEFINE n == Now(c)
             x == Head(n)
             r == Tail(n)
             v == x[2]
             q == x[3]
             nw == [next EXCEPT ![v] = Null]
             h == [held EXCEPT ![q] = @ \cup {v}]
  <1>1. At(c, "take") /\ Goes(c, Rest(c))
    BY DEF Take
  <1>2. /\ Cur(c) \in Thread /\ n = code[Cur(c)] /\ x[1] = "take" /\ HeadIs(n, "take")
        /\ Arg(c) = v /\ v \in Page /\ Fits(x, r)
        /\ Elems(n) = {x} \cup Elems(r) /\ code'[Cur(c)] = r
        /\ \A t \in Thread : t # Cur(c) =>
              /\ code'[t] = code[t]
              /\ ~HeadIs(code[t], "take") /\ ~HeadIs(code[t], "push")
    BY <1>1, ListStep
  <1>a. q \in Thread
    BY <1>1, <1>2, AtArgs
  <1>3. /\ freelist' = next[v] /\ held' = h /\ next' = nw /\ UNCHANGED work
        /\ held \in [Thread -> SUBSET Page] /\ next \in [Page -> Page \cup {Null}]
    BY <1>2 DEF Take, LocksInv, TypeOK
  <1>4. PICK L \in Seq(Page) : Chain(L, freelist, next) /\ Placed(Elems(L), Pages, held)
    BY DEF PageInv
  <1>5. h[q] = held[q] \cup {v} /\ \A t \in Thread : t # q => h[t] = held[t]
    BY <1>a, <1>3
  <1>6. \A t \in Thread : /\ held[t] \subseteq Pages /\ Owns(code[t], held[t])
                          /\ Fresh(code[t], freelist, next)
    BY DEF PageInv
  <1>7. v = freelist /\ freelist # Null
    <2>1. Fresh(n, freelist, next)
      BY <1>2, <1>6
    <2> QED BY <2>1, <1>2 DEF Fresh
  <1> HIDE DEF n, x, r, v, q, h
  <1>8. /\ v \in Elems(L)
        /\ \E M \in Seq(Page) : Chain(M, next[v], nw) /\ Elems(M) = Elems(L) \ {v}
    BY <1>3, <1>4, <1>7, TakeChain
  <1> HIDE DEF nw
  <1>9. PICK M \in Seq(Page) : Chain(M, next[v], nw) /\ Elems(M) = Elems(L) \ {v}
    BY <1>8
  <1>10. v \in Pages /\ \A t \in Thread : v \notin held[t]
    BY <1>4, <1>8 DEF Placed
  <1>11. Placed(Elems(M), Pages, h)
    <2>1. Elems(M) \subseteq Pages
      BY <1>4, <1>9 DEF Placed
    <2>2. \A w \in Pages, t \in Thread : w # v => (w \in h[t] <=> w \in held[t])
      BY <1>5
    <2>3. \A u \in Thread : v \in h[u] <=> u = q
      BY <1>5, <1>10
    <2>4. ASSUME NEW w \in Pages
          PROVE  IF w \in Elems(M) THEN \A t \in Thread : w \notin h[t]
                 ELSE \E t \in Thread : \A u \in Thread : w \in h[u] <=> u = t
      <3>1. CASE w = v
        BY <3>1, <2>3, <1>a, <1>9
      <3>2. CASE w # v
        <4>1. w \in Elems(M) <=> w \in Elems(L)
          BY <3>2, <1>9
        <4> QED BY <3>2, <4>1, <2>2, <1>4 DEF Placed
      <3> QED BY <3>1, <3>2
    <2> QED BY <2>1, <2>4 DEF Placed
  <1>12. \A t \in Thread : held[t] \subseteq h[t] /\ h[t] \subseteq Pages
    BY <1>5, <1>6, <1>10
  <1>13. \A f, nx : Fresh(r, f, nx)
    <2>1. ~HeadIs(r, "push") /\ ~HeadIs(r, "take")
      BY <1>2 DEF Fits, Plain
    <2> QED BY <2>1, PlainFresh
  <1>14. \A t \in Thread : Owns(code'[t], h[t]) /\ Fresh(code'[t], next[v], nw)
    <2> TAKE t \in Thread
    <2>1. Owns(code[t], h[t])
      BY <1>6, <1>12 DEF Owns
    <2>2. CASE t = Cur(c)
      BY <2>1, <2>2, <1>2, <1>13 DEF Owns
    <2>3. CASE t # Cur(c)
      BY <2>1, <2>3, <1>2, PlainFresh
    <2> QED BY <2>2, <2>3
  <1>15. Pages' = Pages
    BY <1>3 DEF Pages
  <1> QED BY <1>3, <1>9, <1>11, <1>12, <1>14, <1>15 DEF PageInv

LEMMA InitPages == ASSUME Init PROVE PageInv
  <1>1. work.late \in SUBSET Late /\ work \in Workloads
    BY KmemAssumption DEF Init
  <1>2. /\ CodeOK(0, main(work.late)) /\ Plain(main(work.late))
        /\ \A x \in Elems(main(work.late)) : Frees(x) \subseteq Early \cup work.late
    BY <1>1, MainOK
  <1> DEFINE n == main(work.late)
  <1> HIDE DEF n
  <1>3. /\ code = [t \in Thread |-> IF t = 0 THEN n ELSE <<>>] /\ freelist = Null
        /\ held = [t \in Thread |-> IF t = 0 THEN Pages ELSE {}]
    BY DEF Init, n, Pages
  <1>4. /\ \A t \in Thread : code[t] = IF t = 0 THEN n ELSE <<>>
        /\ \A t \in Thread : held[t] = IF t = 0 THEN Pages ELSE {}
        /\ 0 \in Thread
    BY <1>3, ThreadFacts
  <1>5. Owns(n, Pages) /\ Owns(<<>>, {}) /\ Fresh(n, freelist, next)
        /\ Fresh(<<>>, freelist, next)
    <2>1. Owns(n, Pages)
      BY <1>2 DEF Owns, Pages, n
    <2>2. Owns(<<>>, {})
      BY EmptyFacts DEF Owns
    <2>3. ~HeadIs(n, "push") /\ ~HeadIs(n, "take")
      BY <1>2 DEF Plain, n
    <2>4. ~HeadIs(<<>>, "push") /\ ~HeadIs(<<>>, "take")
      BY EmptyFacts
    <2> QED BY <2>1, <2>2, <2>3, <2>4, PlainFresh
  <1>6. \A t \in Thread : /\ held[t] \subseteq Pages /\ Owns(code[t], held[t])
                          /\ Fresh(code[t], freelist, next)
    BY <1>4, <1>5
  <1>7. <<>> \in Seq(Page) /\ Chain(<<>>, freelist, next)
    BY <1>3 DEF Chain
  <1>8. Placed({}, Pages, held)
    BY <1>4 DEF Placed
  <1> QED BY <1>1, <1>6, <1>7, <1>8, EmptyFacts DEF PageInv

LEMMA NextPages == ASSUME LocksInv, PageInv, [Next]_vars PROVE PageInv'
  <1>1. ASSUME NEW c \in CPU, Step(c), UNCHANGED work PROVE PageInv'
    BY <1>1, KeepsPages_PushCli, KeepsPages_Cli, KeepsPages_Disown, KeepsPages_Unlock,
       KeepsPages_Plain, KeepsPages_IfLock, KeepsPages_IfUnlock, KeepsPages_ReadHead,
       KeepsPages_Take, KeepsPages_Link, KeepsPages_Push, KeepsPages_FreeRange,
       KeepsPages_StartOthers, KeepsPages_Pick, KeepsPages_Sched,
       KeepsPages_StartProc, KeepsPages_Syscall, KeepsPages_Loop DEF Step
  <1>2. CASE UNCHANGED vars
    BY <1>2, PageSame DEF vars
  <1>3. ASSUME NEW c \in CPU, MpMain(c), UNCHANGED work PROVE PageInv'
    BY <1>3, PageSame DEF MpMain
  <1> QED BY <1>1, <1>2, <1>3, KeepsPages_Timer DEF Next

(***************************************************************************)
(* kalloc and kfree of kernel/kalloc.c neither lose a page nor hand one    *)
(* out twice, and the free list always ends: for any pages, with the       *)
(* unlocked calls of boot, calls on several CPUs, and interrupts between   *)
(* any two instructions.                                                   *)
(***************************************************************************)
THEOREM PagesAlwaysSound == Spec => []PagesSound
  <1>1. Init => LocksInv /\ PageInv
    BY InitLocks, InitPages
  <1>2. LocksInv /\ PageInv /\ [Next]_vars => (LocksInv /\ PageInv)'
    BY NextLocks, NextPages
  <1>3. LocksInv /\ PageInv => PagesSound
    BY PageInvSound
  <1> QED BY <1>1, <1>2, <1>3, PTL DEF Spec
=============================================================================
