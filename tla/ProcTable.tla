----------------------------- MODULE ProcTable -----------------------------
(***************************************************************************)
(* The process table of proc.c under ptable.lock: scheduler and sched,     *)
(* yield, fork, exit, wait, kill, sleep and wakeup, sys_sleep and the      *)
(* timer tick, on several CPUs.                                            *)
(*                                                                         *)
(* A section of code that holds ptable.lock and ends in release is one     *)
(* step, taken when the lock is free.  A section that ends in sched()      *)
(* leaves the lock to this CPU's scheduler, which passes it on to the next *)
(* process it switches to; that process releases it in a later step.  What *)
(* the code does without the lock (fork between allocproc and RUNNABLE,    *)
(* the tests of killed) is a step of its own.                              *)
(***************************************************************************)
EXTENDS Integers, FiniteSets

CONSTANTS
    NPROC,      \* slots of ptable; slot 1 is initproc
    NCPU,       \* CPUs; CPU 1 is the one that counts ticks
    MaxPid,     \* bound: pids that fork gives out
    KillPid,    \* arguments given to kill
    MaxSleep,   \* bound: argument given to sleep
    FullTable   \* TRUE: a process may have a full table of shared regions

Proc == 1 .. NPROC
CPU == 1 .. NCPU
initproc == 1
None == 0
TICKS == NPROC + 1          \* the channel &ticks; wait sleeps on the proc

ASSUME ProcTableAssumption ==
    /\ NPROC \in Nat /\ NPROC >= 2 /\ NCPU \in Nat \ {0}
    /\ MaxPid \in Nat \ {0} /\ KillPid \subseteq Nat
    /\ MaxSleep \in Nat /\ FullTable \in BOOLEAN

VARIABLES
    state, parent, pid, killed, chan,   \* fields of struct proc
    pc,        \* what the process does next, see PC
    left,      \* ticks a sleep(n) still has to wait
    np,        \* the slot that the process's fork works on
    nextpid,
    lock,      \* CPU that holds ptable.lock
    tickslock, \* CPU that holds tickslock
    cproc,     \* cpu.proc
    scan,      \* scheduler's place in its loop over ptable, None outside
    intr,      \* timer interrupt being handled on a CPU
    targets    \* history: pids that kill was called with

vars == <<state, parent, pid, killed, chan, pc, left, np, nextpid, lock,
          tickslock, cproc, scan, intr, targets>>

State == {"UNUSED", "EMBRYO", "SLEEPING", "RUNNABLE", "RUNNING", "ZOMBIE"}

\* user: in user space.  fork: between allocproc and the end of fork.
\* exit: in exit, before it takes the lock.  tocheck, tosleep: in sys_sleep
\* with tickslock.  retick: back from sleep, wants tickslock.  The others
\* are back from sched() with ptable.lock held: in wait ("wait"), in
\* sys_sleep ("woken"), in forkret or in the yield of a timer interrupt
\* ("resume", "resumefork", "resumeexit", by what it interrupted).
PC == {"user", "fork", "exit", "tocheck", "tosleep", "retick",
       "resume", "resumefork", "resumeexit", "wait", "woken"}

\* Where a timer interrupt may stop a process, and what it then goes back to.
Preempted(at) == CASE at = "user" -> "resume"
                   [] at = "fork" -> "resumefork"
                   [] at = "exit" -> "resumeexit"
Preemptible == {"user", "fork", "exit"}
Yielded == {"resume", "resumefork", "resumeexit"}
Resumed(at) == CHOOSE to \in Preemptible : Preempted(to) = at

TypeOK ==
    /\ state \in [Proc -> State]
    /\ parent \in [Proc -> Proc \cup {None}]
    /\ pid \in [Proc -> 0 .. MaxPid]
    /\ killed \in [Proc -> BOOLEAN]
    /\ chan \in [Proc -> Proc \cup {None, TICKS}]
    /\ pc \in [Proc -> PC]
    /\ left \in [Proc -> 0 .. MaxSleep]
    /\ np \in [Proc -> Proc \cup {None}]
    /\ nextpid \in 1 .. MaxPid + 1
    /\ lock \in CPU \cup {None}
    /\ tickslock \in CPU \cup {None}
    /\ cproc \in [CPU -> Proc \cup {None}]
    /\ scan \in [CPU -> 0 .. NPROC + 1]
    /\ intr \in [CPU -> {"none", "tick", "yield"}]
    /\ targets \subseteq KillPid

\* Process p executes on CPU c, no interrupt being handled there.
On(c, p, at) == cproc[c] = p /\ pc[p] = at /\ intr[c] = "none"

GoTo(p, at) == pc' = [pc EXCEPT ![p] = at]

(***************************************************************************)
(* scheduler and sched                                                     *)
(***************************************************************************)
\* acquire(&ptable.lock) and the start of the loop.
SchedStart(c) ==
    /\ cproc[c] = None /\ scan[c] = None /\ intr[c] = "none"
    /\ lock = None
    /\ lock' = c
    /\ scan' = [scan EXCEPT ![c] = 1]
    /\ UNCHANGED <<state, parent, pid, killed, chan, pc, left, np, nextpid,
                   tickslock, cproc, intr, targets>>

\* Mutant: the scheduler does not mark the process RUNNING.
SchedPickOnly(c, p) ==
    /\ cproc[c] = None /\ scan[c] # None /\ lock = c
    /\ p >= scan[c] /\ state[p] = "RUNNABLE"
    /\ \A q \in scan[c] .. p - 1 : state[q] # "RUNNABLE"
    /\ cproc' = [cproc EXCEPT ![c] = p]
    /\ scan' = [scan EXCEPT ![c] = p]
    /\ state' = state
    /\ UNCHANGED <<parent, pid, killed, chan, pc, left, np, nextpid, lock,
                   tickslock, intr, targets>>

\* The next RUNNABLE process of the loop runs.
SchedPick(c, p) ==
    /\ cproc[c] = None /\ scan[c] # None /\ lock = c
    /\ p >= scan[c] /\ state[p] = "RUNNABLE"
    /\ \A q \in scan[c] .. p - 1 : state[q] # "RUNNABLE"
    /\ cproc' = [cproc EXCEPT ![c] = p]
    /\ scan' = [scan EXCEPT ![c] = p]
    /\ state' = [state EXCEPT ![p] = "RUNNING"]
    /\ UNCHANGED <<parent, pid, killed, chan, pc, left, np, nextpid, lock,
                   tickslock, intr, targets>>

\* End of the loop: release(&ptable.lock).
SchedEnd(c) ==
    /\ cproc[c] = None /\ scan[c] # None /\ lock = c
    /\ \A q \in scan[c] .. NPROC : state[q] # "RUNNABLE"
    /\ lock' = None
    /\ scan' = [scan EXCEPT ![c] = None]
    /\ UNCHANGED <<state, parent, pid, killed, chan, pc, left, np, nextpid,
                   tickslock, cproc, intr, targets>>

\* sched(): swtch to the scheduler of this CPU, which goes on after p.
Sched(c, p) ==
    /\ cproc' = [cproc EXCEPT ![c] = None]
    /\ scan' = [scan EXCEPT ![c] = p + 1]
    /\ lock' = c

\* Mutant: only the first sleeper is woken.
WakeupFirst(s, ch) ==
    [q \in Proc |-> IF /\ s[q] = "SLEEPING" /\ chan[q] = ch
                       /\ \A r \in 1 .. q - 1 : chan[r] # ch
                    THEN "RUNNABLE" ELSE s[q]]

\* wakeup1(chan), with the changes s that the same section makes to state.
Wakeup1(s, ch) ==
    [q \in Proc |-> IF s[q] = "SLEEPING" /\ chan[q] = ch THEN "RUNNABLE"
                    ELSE s[q]]

\* Back from sched() in yield, or in forkret: release(&ptable.lock).
Resume(c, p) ==
    /\ cproc[c] = p /\ pc[p] \in Yielded /\ lock = c
    /\ lock' = None
    /\ GoTo(p, Resumed(pc[p]))
    /\ UNCHANGED <<state, parent, pid, killed, chan, left, np, nextpid,
                   tickslock, cproc, scan, intr, targets>>

(***************************************************************************)
(* The timer interrupt: CPU 1 counts the tick and wakes sleepers; then the *)
(* interrupted process exits if it was killed in user space, or yields.    *)
(***************************************************************************)
\* Interrupts are off while the CPU holds a lock.
Interruptible(c) ==
    /\ intr[c] = "none" /\ lock # c /\ tickslock # c
    /\ IF cproc[c] = None THEN scan[c] = None
       ELSE pc[cproc[c]] \in Preemptible

TimerTick(c) ==
    /\ c = 1 /\ Interruptible(c) /\ tickslock = None
    /\ tickslock' = c
    /\ intr' = [intr EXCEPT ![c] = "tick"]
    /\ UNCHANGED <<state, parent, pid, killed, chan, pc, left, np, nextpid,
                   lock, cproc, scan, targets>>

Tick(n) == IF n > 0 THEN n - 1 ELSE 0

TickWakeup(c) ==
    /\ intr[c] = "tick" /\ lock = None
    /\ state' = Wakeup1(state, TICKS)
    /\ left' = [p \in Proc |-> Tick(left[p])]
    /\ tickslock' = None
    /\ intr' = [intr EXCEPT ![c] = "yield"]
    /\ UNCHANGED <<parent, pid, killed, chan, pc, np, nextpid, lock, cproc,
                   scan, targets>>

TimerOther(c) ==
    /\ c # 1 /\ Interruptible(c) /\ cproc[c] # None
    /\ intr' = [intr EXCEPT ![c] = "yield"]
    /\ UNCHANGED <<state, parent, pid, killed, chan, pc, left, np, nextpid,
                   lock, tickslock, cproc, scan, targets>>

\* The rest of trap(): nothing to do for a scheduler; exit a killed process.
TrapReturn(c) ==
    LET p == cproc[c]
    IN  /\ intr[c] = "yield"
        /\ p # None => killed[p] /\ pc[p] = "user"
        /\ pc' = IF p = None THEN pc ELSE [pc EXCEPT ![p] = "exit"]
        /\ intr' = [intr EXCEPT ![c] = "none"]
        /\ UNCHANGED <<state, parent, pid, killed, chan, left, np, nextpid,
                       lock, tickslock, cproc, scan, targets>>

Yield(c) ==
    LET p == cproc[c]
    IN  /\ intr[c] = "yield" /\ p # None
        /\ ~(killed[p] /\ pc[p] = "user")
        /\ lock = None
        /\ state' = [state EXCEPT ![p] = "RUNNABLE"]
        /\ GoTo(p, Preempted(pc[p]))
        /\ Sched(c, p)
        /\ intr' = [intr EXCEPT ![c] = "none"]
        /\ UNCHANGED <<parent, pid, killed, chan, left, np, nextpid,
                       tickslock, targets>>

\* A system call of a killed process: trap() makes it exit.
TrapKilled(c, p) ==
    /\ On(c, p, "user") /\ killed[p]
    /\ GoTo(p, "exit")
    /\ UNCHANGED <<state, parent, pid, killed, chan, left, np, nextpid, lock,
                   tickslock, cproc, scan, intr, targets>>

\* A process in user space that may enter the kernel by a system call.
Calls(c, p) == On(c, p, "user") /\ ~killed[p]

(***************************************************************************)
(* fork                                                                    *)
(***************************************************************************)
FirstUnused(p) ==
    /\ state[p] = "UNUSED" /\ \A q \in 1 .. p - 1 : state[q] # "UNUSED"

\* allocproc, up to the release.  killed is not reset.
ForkAlloc(c, p, q) ==
    /\ Calls(c, p) /\ lock = None
    /\ FirstUnused(q) /\ nextpid <= MaxPid
    /\ state' = [state EXCEPT ![q] = "EMBRYO"]
    /\ pid' = [pid EXCEPT ![q] = nextpid]
    /\ nextpid' = nextpid + 1
    /\ np' = [np EXCEPT ![p] = q]
    /\ GoTo(p, "fork")
    /\ UNCHANGED <<parent, killed, chan, left, lock, tickslock, cproc, scan,
                   intr, targets>>

ForkReturns(p) == np' = [np EXCEPT ![p] = None] /\ GoTo(p, "user")

\* No memory: the slot is given back without the lock, its pid stays.
ForkFail(c, p) ==
    /\ On(c, p, "fork")
    /\ state' = [state EXCEPT ![np[p]] = "UNUSED"]
    /\ ForkReturns(p)
    /\ UNCHANGED <<parent, pid, killed, chan, left, nextpid, lock, tickslock,
                   cproc, scan, intr, targets>>

\* The parent's table of shared regions is full: as ForkFail, but np->parent
\* was stored already.
ForkFull(c, p) ==
    /\ On(c, p, "fork") /\ FullTable
    /\ state' = [state EXCEPT ![np[p]] = "UNUSED"]
    /\ parent' = [parent EXCEPT ![np[p]] = p]
    /\ ForkReturns(p)
    /\ UNCHANGED <<pid, killed, chan, left, nextpid, lock, tickslock, cproc,
                   scan, intr, targets>>

\* np->parent, then RUNNABLE under the lock; the child starts in forkret.
ForkDone(c, p) ==
    /\ On(c, p, "fork") /\ lock = None
    /\ state' = [state EXCEPT ![np[p]] = "RUNNABLE"]
    /\ parent' = [parent EXCEPT ![np[p]] = p]
    /\ np' = [np EXCEPT ![p] = None]
    /\ pc' = [pc EXCEPT ![p] = "user", ![np[p]] = "resume"]
    /\ UNCHANGED <<pid, killed, chan, left, nextpid, lock, tickslock, cproc,
                   scan, intr, targets>>

(***************************************************************************)
(* exit, wait, kill                                                        *)
(***************************************************************************)
\* sys_exit: the files are closed before the lock is taken.
ExitCall(c, p) ==
    /\ Calls(c, p) /\ p # initproc
    /\ GoTo(p, "exit")
    /\ UNCHANGED <<state, parent, pid, killed, chan, left, np, nextpid, lock,
                   tickslock, cproc, scan, intr, targets>>

\* Mutant: nobody is woken.
ExitWakesNobody(p) == state

\* Wake the parent, pass the children to init (and wake it for a zombie
\* among them), become ZOMBIE.
ExitWakeups(p) ==
    LET s1 == Wakeup1(state, parent[p])
    IN  IF \E q \in Proc : parent[q] = p /\ state[q] = "ZOMBIE"
        THEN Wakeup1(s1, initproc) ELSE s1

\* Mutant: the children keep the parent that exits.
ReparentNone(p) == parent

Reparent(p) == [q \in Proc |-> IF parent[q] = p THEN initproc ELSE parent[q]]

Exit(c, p) ==
    /\ On(c, p, "exit") /\ p # initproc /\ lock = None
    /\ state' = [ExitWakeups(p) EXCEPT ![p] = "ZOMBIE"]
    /\ parent' = Reparent(p)
    /\ Sched(c, p)
    /\ UNCHANGED <<pid, killed, chan, pc, left, np, nextpid, tickslock, intr,
                   targets>>

\* wait scans the table: with the lock free when it is called, with the lock
\* of this CPU when it is back from sleep.
InWait(c, p) ==
    \/ Calls(c, p) /\ lock = None
    \/ cproc[c] = p /\ pc[p] = "wait" /\ lock = c

Kids(p) == {q \in Proc : parent[q] = p}
Zombies(p) == {q \in Kids(p) : state[q] = "ZOMBIE"}

\* The first zombie child is freed.
WaitReap(c, p, q) ==
    /\ InWait(c, p)
    /\ q \in Zombies(p) /\ \A r \in Zombies(p) : q <= r
    /\ state' = [state EXCEPT ![q] = "UNUSED"]
    /\ parent' = [parent EXCEPT ![q] = None]
    /\ pid' = [pid EXCEPT ![q] = 0]
    /\ killed' = [killed EXCEPT ![q] = FALSE]
    /\ chan' = [chan EXCEPT ![p] = None]
    /\ lock' = None
    /\ GoTo(p, "user")
    /\ UNCHANGED <<left, np, nextpid, tickslock, cproc, scan, intr, targets>>

\* Nothing to wait for, or killed: return -1.
WaitFail(c, p) ==
    /\ InWait(c, p)
    /\ Zombies(p) = {}
    /\ Kids(p) = {} \/ killed[p]
    /\ chan' = [chan EXCEPT ![p] = None]
    /\ lock' = None
    /\ GoTo(p, "user")
    /\ UNCHANGED <<state, parent, pid, killed, left, np, nextpid, tickslock,
                   cproc, scan, intr, targets>>

\* sleep(curproc, &ptable.lock)
WaitSleep(c, p) ==
    /\ InWait(c, p)
    /\ Zombies(p) = {} /\ Kids(p) # {} /\ ~killed[p]
    /\ chan' = [chan EXCEPT ![p] = p]
    /\ state' = [state EXCEPT ![p] = "SLEEPING"]
    /\ GoTo(p, "wait")
    /\ Sched(c, p)
    /\ UNCHANGED <<parent, pid, killed, left, np, nextpid, tickslock, intr,
                   targets>>

\* kill marks the first slot with that pid, whatever its state.
HasPid(q, k) == pid[q] = k /\ \A r \in 1 .. q - 1 : pid[r] # k

\* Mutant: kill does not wake the process.
KillWakesNone(s) == s

KillWakes(s) == IF s = "SLEEPING" THEN "RUNNABLE" ELSE s

Kill(c, p, q, k) ==
    /\ Calls(c, p) /\ p # initproc /\ lock = None
    /\ HasPid(q, k)
    /\ killed' = [killed EXCEPT ![q] = TRUE]
    /\ state' = [state EXCEPT ![q] = KillWakes(@)]
    /\ targets' = targets \cup {k}
    /\ UNCHANGED <<parent, pid, chan, pc, left, np, nextpid, lock, tickslock,
                   cproc, scan, intr>>

(***************************************************************************)
(* sys_sleep                                                               *)
(***************************************************************************)
SleepCall(c, p, n) ==
    /\ Calls(c, p) /\ p # initproc /\ tickslock = None
    /\ tickslock' = c
    /\ left' = [left EXCEPT ![p] = n]
    /\ GoTo(p, "tocheck")
    /\ UNCHANGED <<state, parent, pid, killed, chan, np, nextpid, lock, cproc,
                   scan, intr, targets>>

\* while(ticks - ticks0 < n) if(killed) return -1: done, killed, or go on.
SleepCheck(c, p) ==
    /\ On(c, p, "tocheck")
    /\ IF left[p] = 0 \/ killed[p]
       THEN /\ tickslock' = None /\ GoTo(p, "user")
            /\ left' = [left EXCEPT ![p] = 0]
       ELSE GoTo(p, "tosleep") /\ UNCHANGED <<tickslock, left>>
    /\ UNCHANGED <<state, parent, pid, killed, chan, np, nextpid, lock, cproc,
                   scan, intr, targets>>

\* sleep(&ticks, &tickslock): ptable.lock is taken before tickslock is let go.
SleepTicks(c, p) ==
    /\ On(c, p, "tosleep") /\ lock = None
    /\ tickslock' = None
    /\ chan' = [chan EXCEPT ![p] = TICKS]
    /\ state' = [state EXCEPT ![p] = "SLEEPING"]
    /\ GoTo(p, "woken")
    /\ Sched(c, p)
    /\ UNCHANGED <<parent, pid, killed, left, np, nextpid, intr, targets>>

SleepWoken(c, p) ==
    /\ On(c, p, "woken") /\ lock = c
    /\ chan' = [chan EXCEPT ![p] = None]
    /\ lock' = None
    /\ GoTo(p, "retick")
    /\ UNCHANGED <<state, parent, pid, killed, left, np, nextpid, tickslock,
                   cproc, scan, intr, targets>>

SleepRelock(c, p) ==
    /\ On(c, p, "retick") /\ tickslock = None
    /\ tickslock' = c
    /\ GoTo(p, "tocheck")
    /\ UNCHANGED <<state, parent, pid, killed, chan, left, np, nextpid, lock,
                   cproc, scan, intr, targets>>

(***************************************************************************)
(* The specification                                                       *)
(***************************************************************************)
Init ==
    /\ state = [p \in Proc |-> IF p = initproc THEN "RUNNABLE" ELSE "UNUSED"]
    /\ parent = [p \in Proc |-> None]
    /\ pid = [p \in Proc |-> IF p = initproc THEN 1 ELSE 0]
    /\ killed = [p \in Proc |-> FALSE]
    /\ chan = [p \in Proc |-> None]
    /\ pc = [p \in Proc |-> "resume"]
    /\ left = [p \in Proc |-> 0]
    /\ np = [p \in Proc |-> None]
    /\ nextpid = 2
    /\ lock = None /\ tickslock = None
    /\ cproc = [c \in CPU |-> None]
    /\ scan = [c \in CPU |-> None]
    /\ intr = [c \in CPU |-> "none"]
    /\ targets = {}

ForkEnd(c, p) == ForkFail(c, p) \/ ForkFull(c, p) \/ ForkDone(c, p)

\* What a CPU does without being asked by a program.
KernelStep(c) ==
    \/ SchedStart(c) \/ SchedEnd(c) \/ \E p \in Proc : SchedPick(c, p)
    \/ \E p \in Proc :
          \/ Resume(c, p) \/ TrapKilled(c, p) \/ Exit(c, p)
          \/ ForkEnd(c, p)
          \/ SleepCheck(c, p) \/ SleepTicks(c, p)
          \/ SleepWoken(c, p) \/ SleepRelock(c, p)

Timer(c) == TimerTick(c) \/ TimerOther(c)

Interrupt(c) == TickWakeup(c) \/ TrapReturn(c) \/ Yield(c)

WaitStep(c, p) ==
    WaitFail(c, p) \/ WaitSleep(c, p) \/ \E q \in Proc : WaitReap(c, p, q)

\* What a program may ask for.
UserStep(c) ==
    \E p \in Proc :
        \/ \E q \in Proc : ForkAlloc(c, p, q)
        \/ ExitCall(c, p)
        \/ \E q \in Proc, k \in KillPid : Kill(c, p, q, k)
        \/ \E n \in 1 .. MaxSleep : SleepCall(c, p, n)

Next == \E c \in CPU : \/ KernelStep(c) \/ Timer(c) \/ Interrupt(c)
                       \/ UserStep(c) \/ \E p \in Proc : WaitStep(c, p)

\* A CPU that can go on again and again does go on: the bus does not starve
\* one that spins on a lock, timer interrupts keep coming but leave the code
\* they interrupt (the scheduler, a fork, an exit) time to go on, and init
\* calls wait for ever (init.c).
Fairness ==
    /\ \A c \in CPU : SF_vars(KernelStep(c)
                         \/ \E p \in Proc : pc[p] = "wait" /\ WaitStep(c, p))
    /\ \A c \in CPU : SF_vars(Timer(c) \/ Interrupt(c))
    /\ SF_vars(\E c \in CPU, p \in Proc : ForkEnd(c, p) \/ Exit(c, p))
    /\ SF_vars(\E c \in CPU : WaitStep(c, initproc))

Spec == Init /\ [][Next]_vars /\ Fairness

(***************************************************************************)
(* Properties                                                              *)
(***************************************************************************)

\* A process runs on one CPU at most, and is RUNNING exactly while some CPU
\* has it: two schedulers never switch to the same kernel stack.
OneCPU ==
    /\ \A c, d \in CPU : cproc[c] = cproc[d] /\ cproc[c] # None => c = d
    /\ \A p \in Proc : state[p] = "RUNNING" <=> \E c \in CPU : cproc[c] = p

\* ptable.lock crosses swtch: it is held by a CPU exactly while that CPU's
\* scheduler is in its loop, or the process it switched to has not yet
\* released it.
AfterSched == Yielded \cup {"wait", "woken"}
LockHandoff ==
    \A c \in CPU : lock = c <=> \/ cproc[c] = None /\ scan[c] # None
                                \/ cproc[c] # None /\ pc[cproc[c]] \in AfterSched

\* No lost wakeup: a process asleep in wait has no zombie child, also after
\* exits that hand zombies over to init, and it has not been killed, since
\* wait tests killed under the lock that kill takes.
NoLostWakeup ==
    \A p \in Proc : state[p] = "SLEEPING" /\ chan[p] = p
                    => Zombies(p) = {} /\ ~killed[p]

\* "Pass abandoned children to init": the parent of a process that was forked
\* is there to wait for it.
ParentAlive ==
    \A q \in Proc \ {initproc} :
        state[q] \notin {"UNUSED", "EMBRYO"}
        => /\ parent[q] # None
           /\ state[parent[q]] \notin {"UNUSED", "EMBRYO", "ZOMBIE"}

\* The slots and the CPUs agree on who runs where and who has the lock, and
\* every process has a parent that can wait for it, whichever exits first.
ProcSound == TypeOK /\ OneCPU /\ LockHandoff /\ ParentAlive

\* wait "Return -1 if this process has no children" (proc.c): a process
\* asleep in wait has one that can still exit.
WaitHasChild ==
    \A p \in Proc : state[p] = "SLEEPING" /\ chan[p] = p
        => \E q \in Kids(p) : state[q] # "UNUSED"

\* "Kill the process with the given pid" (proc.c): a process is killed only
\* when kill was called with its own pid.
KilledWasTarget ==
    \A p \in Proc : killed[p] /\ state[p] # "UNUSED" => pid[p] \in targets

\* exit's assertion, panic("init exiting"): init never gets there.
InitStays == pc[initproc] # "exit"

\* A killed process exits, wherever it was: running, runnable, in wait or in
\* sleep (a kill between sleep's test and its going to sleep included).
KilledExits ==
    \A p \in Proc : killed[p] /\ state[p] # "UNUSED"
                    ~> state[p] \in {"ZOMBIE", "UNUSED"}

\* A zombie that nobody but init can wait for is reaped: init's own children,
\* and the orphans whose parent has exited.
Orphan(p) == parent[p] \in {None, initproc}
             \/ state[parent[p]] \in {"ZOMBIE", "UNUSED"}
OrphansReaped ==
    \A p \in Proc : state[p] = "ZOMBIE" /\ Orphan(p) ~> state[p] = "UNUSED"

\* A sleep(n) ends: no tick is lost between the test and going to sleep.
SleepEnds ==
    \A p \in Proc : state[p] = "SLEEPING" /\ chan[p] = TICKS
                    ~> pc[p] \notin {"woken", "retick", "tocheck", "tosleep"}
=============================================================================
