-------------------------------- MODULE Kmem --------------------------------
(***************************************************************************)
(* Spin locks, interrupts and the page allocator, from boot on:            *)
(* kernel/spinlock.c (acquire, release, pushcli, popcli), kernel/kalloc.c, *)
(* the start of kernel/main.c, and the kernel threads that use them:       *)
(* scheduler, sched, yield, sleep and forkret of kernel/proc.c and the     *)
(* timer interrupt of kernel/trap.c.                                       *)
(*                                                                         *)
(* A kernel thread is the list of instructions it still has to execute     *)
(* (code): one for each access to memory that other CPUs can see, and one  *)
(* for each change of the interrupt flag.  A CPU executes the first        *)
(* instruction of its current thread; a timer interrupt puts the handler   *)
(* in front of it.  An empty list is a process in user space, or a         *)
(* scheduler about to loop.  getcallerpcs and the order in which a         *)
(* processor makes its stores visible (__sync_synchronize) are left out.   *)
(***************************************************************************)
EXTENDS Integers, Sequences, FiniteSets

CONSTANTS
    NCPU,        \* CPUs; 0 boots
    NPROC,       \* processes
    Early,       \* pages that kinit1 frees
    Late,        \* pages that kinit2 frees, all or some
    MaxHeld,     \* bound: pages a process has at a time
    Workloads    \* what a behaviour has: calls, the system calls the processes
                 \* make ("mem", "sleep"), and late, the pages of Late it has

CPU == 0 .. NCPU - 1
Proc == NCPU .. NCPU + NPROC - 1
Thread == CPU \cup Proc           \* CPU c's scheduler is thread c
initproc == NCPU
NoCpu == -1
Page == Early \cup Late
Null == 0
Lock == {"ticks", "ptable", "kmem"}

ASSUME KmemAssumption ==
    /\ NCPU \in Nat \ {0} /\ NPROC \in Nat \ {0}
    /\ Page \subseteq Nat \ {0} /\ Early \cap Late = {} /\ IsFiniteSet(Page)
    /\ Cardinality(Early) >= NCPU                    \* enough to boot
    /\ \A w \in Workloads : w.late \subseteq Late /\ w.late # {}

VARIABLES
    cpu,         \* struct cpu and the flag IF; cur is the thread on it
    code,        \* what each thread still executes
    state,       \* proc.state
    lock,        \* locked and cpu of each spin lock
    use_lock,    \* kmem.use_lock
    freelist,    \* kmem.freelist
    next,        \* run.next of each page
    held,        \* pages each process has; the kernel's own are thread 0's
    panic,       \* the kernel's message, or "none"
    work         \* the workload of this behaviour

vars == <<cpu, code, state, lock, use_lock, freelist, next, held, panic, work>>

(***************************************************************************)
(* The code of the kernel, as instructions                                 *)
(***************************************************************************)
acquire(l) == <<<<"pushcli", l>>, <<"xchg", l>>>>

\* popcli changes nothing that another CPU sees; it goes with the unlock.
release(l) == <<<<"disown", l>>, <<"unlock", l>>>>

\* A page for thread t.
kalloc(t) == <<<<"iflock">>, <<"head", t>>, <<"ifunlock">>>>

\* Mutant: kfree without the lock.
kfreeBare(v) == <<<<"link", v>>, <<"push", v>>>>

kfree(v) == <<<<"iflock">>, <<"link", v>>, <<"push", v>>, <<"ifunlock">>>>

scheduler == acquire("ptable") \o <<<<"pick">>>> \o release("ptable")
yield == acquire("ptable") \o <<<<"sched", "RUNNABLE">>>>
         \o release("ptable")

\* sys_sleep: sleep takes ptable.lock, then gives up tickslock.
sleep == acquire("ticks") \o acquire("ptable") \o release("ticks")
         \o <<<<"sched", "SLEEPING">>>> \o release("ptable")
         \o acquire("ticks") \o release("ticks")

\* allocproc: a stack for the child.  Its search under ptable.lock is in
\* ProcTable, and the ways in which fork fails there and in ShMem.
allocproc == kalloc(0)

\* The end of fork: the child becomes RUNNABLE in forkret, from where trapret's
\* iret takes it to user space.
fork(q) == allocproc \o acquire("ptable") \o <<<<"start", q>>>> \o release("ptable")
forkret == release("ptable") \o <<<<"trapret">>>>

\* The timer interrupt: CPU 0 counts and wakes; a process yields.
CountTick(c) ==
    IF c = 0 THEN acquire("ticks") \o acquire("ptable") \o <<<<"wakeup">>>>
                  \o release("ptable") \o release("ticks")
             ELSE <<>>
GiveUpCpu(t) == IF t \in Proc THEN yield ELSE <<>>
trap(c, t) == CountTick(c) \o GiveUpCpu(t) \o <<<<"iret">>>>

userinit == allocproc \o acquire("ptable") \o <<<<"start", initproc>>>>
            \o release("ptable")

\* main: kinit1, kvmalloc, startothers, kinit2, userinit; then scheduler.
main(late) ==
    <<<<"freerange", Early>>>> \o kalloc(0) \o <<<<"startothers", 1>>>>
    \o <<<<"freerange", late>>, <<"uselock">>>> \o userinit

(***************************************************************************)
(* Instructions                                                            *)
(***************************************************************************)
Cur(c) == cpu[c].cur
At(c, op) == /\ panic = "none" /\ cpu[c].started
             /\ code[Cur(c)] # <<>> /\ Head(code[Cur(c)])[1] = op
Arg(c) == Head(code[Cur(c)])[2]
Rest(c) == Tail(code[Cur(c)])
Goes(c, s) == code' = [code EXCEPT ![Cur(c)] = s]

Holding(c, l) == lock[l].locked /\ lock[l].cpu = c

Fail(msg) ==
    /\ panic' = msg
    /\ UNCHANGED <<cpu, code, state, lock, use_lock, freelist, next, held>>

\* pushcli reads the flags before it clears IF; only when it finds IF set can
\* an interrupt come between the two.
PushCli(c) ==
    /\ At(c, "pushcli") /\ cpu[c].if
    /\ Goes(c, <<<<"cli", Arg(c)>>>> \o Rest(c))
    /\ UNCHANGED <<cpu, state, lock, use_lock, freelist, next, held, panic>>

\* cli; the first pushcli keeps the flags; acquire's own check.
Cli(c) ==
    LET e == At(c, "cli")
    IN  /\ e \/ (At(c, "pushcli") /\ ~cpu[c].if)
        /\ IF Holding(c, Arg(c)) THEN Fail("acquire")
           ELSE /\ cpu' = [cpu EXCEPT ![c].if = FALSE, ![c].ncli = @ + 1,
                              ![c].intena = IF cpu[c].ncli = 0 THEN e ELSE @]
                /\ Goes(c, Rest(c))
                /\ UNCHANGED <<state, lock, use_lock, freelist, next, held, panic>>

\* The lock is taken and its owner recorded.  What stood there before was no
\* CPU, or one that is on its way out of release and does not look at it.
Xchg(c) ==
    /\ At(c, "xchg") /\ ~lock[Arg(c)].locked
    /\ lock' = [lock EXCEPT ![Arg(c)] = [locked |-> TRUE, cpu |-> c]]
    /\ Goes(c, Rest(c))
    /\ UNCHANGED <<cpu, state, use_lock, freelist, next, held, panic>>

\* release's own check: nobody else changes what holding tells this CPU.
Disown(c) ==
    /\ At(c, "disown")
    /\ IF ~Holding(c, Arg(c)) THEN Fail("release")
       ELSE /\ lock' = [lock EXCEPT ![Arg(c)].cpu = NoCpu]
            /\ Goes(c, Rest(c))
            /\ UNCHANGED <<cpu, state, use_lock, freelist, next, held, panic>>

\* Mutant: the flags are put back although another lock is held.
PopCliEager(r) == [r EXCEPT !.ncli = @ - 1, !.if = r.intena]

PopCli(r) == [r EXCEPT !.ncli = @ - 1, !.if = r.ncli = 1 /\ r.intena]

Unlock(c) ==
    /\ At(c, "unlock")
    /\ IF cpu[c].if \/ cpu[c].ncli = 0 THEN Fail("popcli")
       ELSE /\ lock' = [lock EXCEPT ![Arg(c)].locked = FALSE]
            /\ cpu' = [cpu EXCEPT ![c] = PopCli(@)]
            /\ Goes(c, Rest(c))
            /\ UNCHANGED <<state, use_lock, freelist, next, held, panic>>

(***************************************************************************)
(* kalloc and kfree                                                        *)
(***************************************************************************)
\* use_lock is read before and again after the list is used.
CheckedLock == IF use_lock THEN acquire("kmem") ELSE <<>>

IfLock(c) ==
    /\ At(c, "iflock")
    /\ Goes(c, CheckedLock \o Rest(c))
    /\ UNCHANGED <<cpu, state, lock, use_lock, freelist, next, held, panic>>

IfUnlock(c) ==
    /\ At(c, "ifunlock")
    /\ Goes(c, (IF use_lock THEN release("kmem") ELSE <<>>) \o Rest(c))
    /\ UNCHANGED <<cpu, state, lock, use_lock, freelist, next, held, panic>>

\* r = kmem.freelist; if(r) ...  A system call that gets no page gives up.
ReadHead(c) ==
    /\ At(c, "head")
    /\ Goes(c, IF freelist = Null THEN <<Head(Rest(c))>>
               ELSE <<<<"take", freelist, Arg(c)>>>> \o Rest(c))
    /\ UNCHANGED <<cpu, state, lock, use_lock, freelist, next, held, panic>>

\* ... kmem.freelist = r->next.  The page is its owner's to overwrite.
Take(c) ==
    /\ At(c, "take")
    /\ freelist' = next[Arg(c)]
    /\ next' = [next EXCEPT ![Arg(c)] = Null]
    /\ held' = [held EXCEPT ![Head(code[Cur(c)])[3]] = @ \cup {Arg(c)}]
    /\ Goes(c, Rest(c))
    /\ UNCHANGED <<cpu, state, lock, use_lock, panic>>

\* r->next = kmem.freelist, then kmem.freelist = r.
Link(c) ==
    /\ At(c, "link")
    /\ next' = [next EXCEPT ![Arg(c)] = freelist]
    /\ Goes(c, Rest(c))
    /\ UNCHANGED <<cpu, state, lock, use_lock, freelist, held, panic>>

Push(c) ==
    /\ At(c, "push")
    /\ freelist' = Arg(c)
    /\ held' = [held EXCEPT ![Cur(c)] = @ \ {Arg(c)}]
    /\ Goes(c, Rest(c))
    /\ UNCHANGED <<cpu, state, lock, use_lock, next, panic>>

(***************************************************************************)
(* Boot, threads and interrupts                                            *)
(***************************************************************************)
\* One turn of a loop of main.  freerange frees in the order of addresses.
FreeRange(c) ==
    /\ At(c, "freerange")
    /\ \/ Arg(c) = {} /\ Goes(c, Rest(c))
       \/ \E v \in Arg(c) :
             /\ \A u \in Arg(c) : v <= u
             /\ Goes(c, kfree(v) \o <<<<"freerange", Arg(c) \ {v}>>>> \o Rest(c))
    /\ UNCHANGED <<cpu, state, lock, use_lock, freelist, next, held, panic>>

\* startothers: a stack for each other CPU, which is then awaited.
StartOthers(c) ==
    /\ At(c, "startothers")
    /\ Goes(c, IF Arg(c) = NCPU THEN Rest(c)
               ELSE kalloc(0) \o <<<<"startap", Arg(c)>>, <<"started", Arg(c)>>,
                                  <<"startothers", Arg(c) + 1>>>> \o Rest(c))
    /\ UNCHANGED <<cpu, state, lock, use_lock, freelist, next, held, panic>>

UseLock(c) ==
    /\ At(c, "uselock")
    /\ use_lock' = TRUE
    /\ Goes(c, Rest(c))
    /\ UNCHANGED <<cpu, state, lock, freelist, next, held, panic>>

\* lapicstartap; the CPU goes through mpenter and mpmain to its scheduler.
StartAP(c) ==
    /\ At(c, "startap")
    /\ Goes(c, Rest(c))
    /\ cpu' = [cpu EXCEPT ![Arg(c)].boots = TRUE]
    /\ UNCHANGED <<state, lock, use_lock, freelist, next, held, panic>>

MpMain(c) ==
    /\ panic = "none" /\ cpu[c].boots /\ ~cpu[c].started
    /\ cpu' = [cpu EXCEPT ![c].started = TRUE]
    /\ UNCHANGED <<code, state, lock, use_lock, freelist, next, held, panic>>

Started(c) ==
    /\ At(c, "started") /\ cpu[Arg(c)].started
    /\ Goes(c, Rest(c))
    /\ UNCHANGED <<cpu, state, lock, use_lock, freelist, next, held, panic>>

\* The scheduler's loop over ptable: a RUNNABLE process, or its end.
Pick(c) ==
    /\ At(c, "pick")
    /\ \/ \E p \in Proc :
             /\ state[p] = "RUNNABLE"
             /\ state' = [state EXCEPT ![p] = "RUNNING"]
             /\ cpu' = [cpu EXCEPT ![c].cur = p]
             /\ UNCHANGED code
       \/ Goes(c, Rest(c)) /\ UNCHANGED <<cpu, state>>
    /\ UNCHANGED <<lock, use_lock, freelist, next, held, panic>>

\* Mutant: the thread keeps the intena of whatever ran before it.
ResumeAny(e) == <<>>

Resume(e) == <<<<"resume", e>>>>

\* The new state, then sched: its checks and swtch; intena goes with the
\* thread.
Sched(c) ==
    /\ At(c, "sched")
    /\ IF ~Holding(c, "ptable") \/ cpu[c].ncli # 1 \/ cpu[c].if
       THEN Fail("sched")
       ELSE /\ Goes(c, Resume(cpu[c].intena) \o Rest(c))
            /\ state' = [state EXCEPT ![Cur(c)] = Arg(c)]
            /\ cpu' = [cpu EXCEPT ![c].cur = c]
            /\ UNCHANGED <<lock, use_lock, freelist, next, held, panic>>

Resumed(c) ==
    /\ At(c, "resume")
    /\ cpu' = [cpu EXCEPT ![c].intena = Arg(c)]
    /\ Goes(c, Rest(c))
    /\ UNCHANGED <<state, lock, use_lock, freelist, next, held, panic>>

StartProc(c) ==
    /\ At(c, "start")
    /\ state' = [state EXCEPT ![Arg(c)] = "RUNNABLE"]
    /\ code' = [code EXCEPT ![Cur(c)] = Rest(c), ![Arg(c)] = forkret]
    /\ UNCHANGED <<cpu, lock, use_lock, freelist, next, held, panic>>

Wakeup(c) ==
    /\ At(c, "wakeup")
    /\ state' = [p \in Proc |-> IF state[p] = "SLEEPING" THEN "RUNNABLE" ELSE state[p]]
    /\ Goes(c, Rest(c))
    /\ UNCHANGED <<cpu, lock, use_lock, freelist, next, held, panic>>

\* An interrupt gate clears IF; iret restores it.
Timer(c) ==
    /\ panic = "none" /\ cpu[c].started /\ cpu[c].if
    /\ cpu' = [cpu EXCEPT ![c].if = FALSE]
    /\ Goes(c, trap(c, Cur(c)) \o code[Cur(c)])
    /\ UNCHANGED <<state, lock, use_lock, freelist, next, held, panic>>

Iret(c) ==
    /\ At(c, "iret") \/ At(c, "trapret")
    /\ cpu' = [cpu EXCEPT ![c].if = TRUE]
    /\ Goes(c, Rest(c))
    /\ UNCHANGED <<state, lock, use_lock, freelist, next, held, panic>>

\* The system calls of a process (initproc starts the others).  Each is
\* entered together with its first instruction.
Calls(p) ==
    {fork(q) : q \in {r \in Proc : p = initproc /\ state[r] = "UNUSED"}}
    \cup (IF "sleep" \in work.calls THEN {sleep} ELSE {})
    \cup (IF "mem" \notin work.calls THEN {}
          ELSE {kalloc(t) : t \in {r \in {p} : Cardinality(held[r]) < MaxHeld}}
               \cup {kfree(v) : v \in held[p]})

Syscall(c) ==
    /\ panic = "none" /\ Cur(c) \in Proc /\ code[Cur(c)] = <<>>
    /\ \E s \in Calls(Cur(c)) :
          Goes(c, IF Head(s) = <<"iflock">> THEN CheckedLock \o Tail(s) ELSE s)
    /\ UNCHANGED <<cpu, state, lock, use_lock, freelist, next, held, panic>>

\* The scheduler's next round: sti, then the table.
Loop(c) ==
    /\ panic = "none" /\ cpu[c].started /\ Cur(c) = c /\ code[c] = <<>>
    /\ cpu' = [cpu EXCEPT ![c].if = TRUE]
    /\ Goes(c, scheduler)
    /\ UNCHANGED <<state, lock, use_lock, freelist, next, held, panic>>

Init ==
    /\ work \in Workloads
    /\ cpu = [c \in CPU |-> [if |-> FALSE, ncli |-> 0, intena |-> FALSE,
                             boots |-> c = 0, started |-> c = 0, cur |-> c]]
    /\ code = [t \in Thread |-> IF t = 0 THEN main(work.late) ELSE <<>>]
    /\ state = [p \in Proc |-> "UNUSED"]
    /\ lock = [l \in Lock |-> [locked |-> FALSE, cpu |-> NoCpu]]
    /\ use_lock = FALSE /\ freelist = Null
    /\ next = [v \in Page |-> Null]
    /\ held = [t \in Thread |-> IF t = 0 THEN Early \cup work.late ELSE {}]
    /\ panic = "none"

Step(c) ==
    \/ PushCli(c) \/ Cli(c) \/ Xchg(c) \/ Disown(c)
    \/ Unlock(c) \/ IfLock(c) \/ IfUnlock(c) \/ ReadHead(c)
    \/ Take(c) \/ Link(c) \/ Push(c) \/ FreeRange(c) \/ StartOthers(c)
    \/ UseLock(c) \/ StartAP(c) \/ Started(c) \/ Pick(c) \/ Sched(c)
    \/ Resumed(c) \/ StartProc(c) \/ Wakeup(c) \/ Iret(c) \/ Syscall(c)
    \/ Loop(c)

Next == (\E c \in CPU : Step(c) \/ MpMain(c) \/ Timer(c)) /\ UNCHANGED work

Spec == Init /\ [][Next]_vars

(***************************************************************************)
(* Properties                                                              *)
(***************************************************************************)
TypeOK ==
    /\ cpu \in [CPU -> [if : BOOLEAN, ncli : 0 .. 3, intena : BOOLEAN,
                        boots : BOOLEAN, started : BOOLEAN, cur : Thread]]
    /\ state \in [Proc -> {"UNUSED", "RUNNABLE", "RUNNING", "SLEEPING"}]
    /\ lock \in [Lock -> [locked : BOOLEAN, cpu : CPU \cup {NoCpu}]]
    /\ use_lock \in BOOLEAN
    /\ freelist \in Page \cup {Null} /\ next \in [Page -> Page \cup {Null}]
    /\ held \in [Thread -> SUBSET Page]

\* Code s is in a section of lock l: the first thing ahead that has to do with
\* the lock is leaving it.
Enters(x, l) == (x[1] = "xchg" /\ x[2] = l) \/ (x[1] = "iflock" /\ l = "kmem")
Leaves(x, l) == (x[1] = "unlock" /\ x[2] = l) \/ (x[1] = "ifunlock" /\ l = "kmem")
In(s, l) ==
    \E i \in 1 .. Len(s) :
        /\ Leaves(s[i], l)
        /\ \A j \in 1 .. i - 1 : ~Enters(s[j], l) /\ ~Leaves(s[j], l)
Inside(t, l) == In(code[t], l)

\* On the CPUs at most one thread is in a section of a lock, the lock is taken
\* exactly then (kmem's only after kinit2), interrupts are off meanwhile, and
\* none of the checks in acquire, release, popcli and sched fails: neither
\* when an interrupt comes between pushcli's two steps, nor when a thread
\* switches with ptable.lock held, nor while use_lock is turned on.
LocksSound ==
    /\ TypeOK /\ panic = "none"
    /\ \A l \in Lock :
          LET C == {c \in CPU : Inside(Cur(c), l)}
          IN  /\ \A c, d \in C : c = d
              /\ l # "kmem" \/ use_lock => lock[l].locked = (C # {})
              /\ \A c \in C : ~cpu[c].if

\* Interrupts are as the thread's own code says: a process has them on
\* exactly when it holds no lock and is not in a handler, whatever CPU it
\* went on on and whoever ran there before, and no handler is interrupted.
\* (A new process starts in forkret with what the CPU had, until trapret.)
Ahead(t, op) == \E i \in 1 .. Len(code[t]) : code[t][i][1] = op
InterruptsRight ==
    \A c \in CPU :
        /\ cpu[c].if => cpu[c].ncli = 0 /\ ~Ahead(Cur(c), "iret")
        /\ /\ Cur(c) \in Proc /\ cpu[c].ncli = 0
           /\ ~Ahead(Cur(c), "iret") /\ ~Ahead(Cur(c), "trapret")
           => cpu[c].if

\* The free list ends, and every page is in exactly one place, on the list or
\* with one thread: none is handed out twice and none is lost, by unlocked
\* calls during boot, by calls on two CPUs, or by one that is interrupted.
Nth[n \in 0 .. Cardinality(Page)] ==
    IF n = 0 THEN freelist
    ELSE IF Nth[n - 1] = Null THEN Null ELSE next[Nth[n - 1]]
OnList == {Nth[n] : n \in 0 .. Cardinality(Page)} \ {Null}
PagesSound ==
    /\ Nth[Cardinality(Page)] = Null
    /\ \A v \in Early \cup work.late :
          IF v \in OnList THEN \A t \in Thread : v \notin held[t]
          ELSE Cardinality({t \in Thread : v \in held[t]}) = 1
=============================================================================
