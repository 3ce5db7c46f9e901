---------------------------- MODULE ProcProofs ----------------------------
(***************************************************************************)
(* Proofs about ProcTable, for any number of slots and CPUs: a process     *)
(* runs on one CPU, ptable.lock crosses swtch as it should, every process  *)
(* has a parent that can wait for it, and wait loses no wakeup.            *)
(***************************************************************************)
EXTENDS ProcTable, TLAPS

(***************************************************************************)
(* The inductive invariant                                                 *)
(***************************************************************************)

\* A process that does not run is where sched() left it, or where fork lets
\* it start, and goes on with ptable.lock held.
Parked ==
    /\ \A p \in Proc : state[p] = "RUNNABLE" => pc[p] \in AfterSched
    /\ \A p \in Proc : state[p] = "SLEEPING" => pc[p] \in {"wait", "woken"}

\* A timer interrupt stops a process only where it may be preempted, and a
\* scheduler only outside its loop.
IntrInv ==
    \A c \in CPU : intr[c] # "none"
        => IF cproc[c] = None THEN scan[c] = None
           ELSE pc[cproc[c]] \in Preemptible

\* The slot that a fork works on is its own, and nobody else touches it.
Forking == {"fork", "resumefork"}
ForkInv ==
    /\ \A p \in Proc : pc[p] \in Forking <=> np[p] # None
    /\ \A p \in Proc : np[p] # None => /\ state[p] \in {"RUNNING", "RUNNABLE"}
                                       /\ state[np[p]] = "EMBRYO"
    /\ \A p, q \in Proc : np[p] = np[q] /\ np[p] # None => p = q

\* init stays at the root of the tree of processes.
Alive == {"SLEEPING", "RUNNABLE", "RUNNING"}
TreeInv ==
    /\ state[initproc] \in Alive /\ parent[initproc] = None
    /\ \A q \in Proc : parent[q] # q
    /\ \A q \in Proc \ {initproc} :
          state[q] \notin {"UNUSED", "EMBRYO"}
          => parent[q] # None /\ state[parent[q]] \in Alive

ProcInv ==
    /\ TypeOK /\ OneCPU /\ LockHandoff /\ Parked /\ IntrInv /\ ForkInv
    /\ TreeInv /\ NoLostWakeup

(***************************************************************************)
(* Facts about the constants and the operators                             *)
(***************************************************************************)

\* What the assumptions on the constants give.
LEMMA ProcFacts ==
    /\ Proc \subseteq Nat /\ Proc = 1 .. NPROC /\ NPROC \in Nat
    /\ initproc \in Proc /\ None \notin Proc /\ None \notin CPU
    /\ TICKS \notin Proc /\ TICKS # None /\ None = 0
    /\ MaxPid \in Nat \ {0} /\ MaxSleep \in Nat
  BY ProcTableAssumption DEF Proc, CPU, None, TICKS, initproc

\* A yield goes back to where it was called.
LEMMA PreemptFacts ==
    /\ \A at \in Preemptible : /\ Preempted(at) \in Yielded
                               /\ Preempted(at) = "resumefork" <=> at = "fork"
    /\ \A at \in Yielded : /\ Resumed(at) \in Preemptible
                           /\ Resumed(at) = "fork" <=> at = "resumefork"
  <1>1. /\ Preempted("user") = "resume" /\ Preempted("fork") = "resumefork"
        /\ Preempted("exit") = "resumeexit"
    BY DEF Preempted
  <1>2. ASSUME NEW at \in Yielded
        PROVE  Resumed(at) \in Preemptible /\ Preempted(Resumed(at)) = at
    <2>1. \E to \in Preemptible : Preempted(to) = at
      BY <1>1 DEF Preemptible, Yielded
    <2> QED
      BY <2>1 DEF Resumed
  <1>3. ASSUME NEW at \in Preemptible
        PROVE  /\ Preempted(at) \in Yielded
               /\ Preempted(at) = "resumefork" <=> at = "fork"
    BY <1>1 DEF Preemptible, Yielded
  <1> QED
    BY <1>2, <1>3

\* Wakeup1 makes sleepers RUNNABLE and leaves the others alone.
LEMMA WakeupFacts ==
    ASSUME NEW s, NEW ch, NEW q \in Proc
    PROVE  /\ s[q] # "SLEEPING" => Wakeup1(s, ch)[q] = s[q]
           /\ s[q] = "SLEEPING" => Wakeup1(s, ch)[q] \in {"SLEEPING", "RUNNABLE"}
           /\ chan[q] = ch => Wakeup1(s, ch)[q] # "SLEEPING"
           /\ chan[q] # ch => Wakeup1(s, ch)[q] = s[q]
  BY DEF Wakeup1

\* exit wakes sleepers only: the parent, and init when it gets a zombie.
LEMMA ExitFacts ==
    ASSUME NEW p \in Proc, NEW q \in Proc
    PROVE  /\ state[q] # "SLEEPING" => ExitWakeups(p)[q] = state[q]
           /\ state[q] = "SLEEPING"
                => ExitWakeups(p)[q] \in {"SLEEPING", "RUNNABLE"}
           /\ chan[q] = parent[p] => ExitWakeups(p)[q] # "SLEEPING"
           /\ /\ \E r \in Proc : parent[r] = p /\ state[r] = "ZOMBIE"
              /\ chan[q] = initproc
              => ExitWakeups(p)[q] # "SLEEPING"
  BY WakeupFacts DEF ExitWakeups, Wakeup1

\* exit: the process becomes a zombie, the others at most wake up.
LEMMA ExitState ==
    ASSUME TypeOK, NEW c \in CPU, NEW p \in Proc, Exit(c, p)
    PROVE  /\ state' \in [Proc -> State] /\ state'[p] = "ZOMBIE"
           /\ \A q \in Proc \ {p} :
                 /\ state[q] # "SLEEPING" => state'[q] = state[q]
                 /\ state[q] = "SLEEPING" => state'[q] \in {"SLEEPING", "RUNNABLE"}
                 /\ chan[q] = parent[p] => state'[q] # "SLEEPING"
                 /\ /\ \E r \in Proc : parent[r] = p /\ state[r] = "ZOMBIE"
                    /\ chan[q] = initproc
                    => state'[q] # "SLEEPING"
  <1>1. DOMAIN ExitWakeups(p) = Proc
    BY DEF ExitWakeups, Wakeup1
  <1>2. ExitWakeups(p) = [q \in Proc |-> ExitWakeups(p)[q]]
    BY DEF ExitWakeups, Wakeup1
  <1>3. state' = [ExitWakeups(p) EXCEPT ![p] = "ZOMBIE"]
    BY DEF Exit
  <1>4. \A q \in Proc : state'[q] = IF q = p THEN "ZOMBIE" ELSE ExitWakeups(p)[q]
    BY <1>1, <1>3
  <1>5. state' = [q \in Proc |-> state'[q]]
    BY <1>2, <1>3
  <1>6. \A q \in Proc : state'[q] \in State
    BY <1>4, ExitFacts DEF TypeOK, State
  <1>7. state' \in [Proc -> State]
    BY <1>5, <1>6
  <1> QED
    BY <1>4, <1>7, ExitFacts

\* The three ends of wait: from a call, or back from sched() with the lock.
LEMMA WaitFacts ==
    ASSUME ProcInv, NEW c \in CPU, NEW p \in Proc, InWait(c, p)
    PROVE  /\ cproc[c] = p /\ state[p] = "RUNNING"
           /\ \/ pc[p] = "user" /\ intr[c] = "none" /\ lock = None
              \/ pc[p] = "wait" /\ lock = c
           /\ \A d \in CPU : lock = d => d = c
  <1>1. cproc[c] = p
    BY DEF InWait, Calls, On
  <1>2. \/ pc[p] = "user" /\ intr[c] = "none" /\ lock = None
        \/ pc[p] = "wait" /\ lock = c
    BY DEF InWait, Calls, On
  <1>3. state[p] = "RUNNING"
    BY <1>1 DEF ProcInv, OneCPU
  <1> QED
    BY <1>1, <1>2, <1>3, ProcFacts

(***************************************************************************)
(* The steps                                                               *)
(***************************************************************************)

\* Every step keeps the types.
LEMMA TypeStep ==
    ASSUME ProcInv, [Next]_vars
    PROVE  TypeOK'
  <1>t. TypeOK /\ OneCPU /\ IntrInv /\ ForkInv
    BY DEF ProcInv
  <1>1. ASSUME NEW c \in CPU, SchedStart(c) \/ SchedEnd(c) PROVE TypeOK'
    <2>1. scan' = [scan EXCEPT ![c] = 1] \/ scan' = [scan EXCEPT ![c] = None]
      BY <1>1 DEF SchedStart, SchedEnd
    <2>2. scan' \in [CPU -> 0 .. NPROC + 1]
      <3>1. 1 \in 0 .. NPROC + 1 /\ None \in 0 .. NPROC + 1
        BY ProcFacts
      <3>2. scan \in [CPU -> 0 .. NPROC + 1]
        BY <1>t DEF TypeOK
      <3> QED
        BY <2>1, <3>1, <3>2
    <2> QED
      BY <1>1, <1>t, <2>2 DEF SchedStart, SchedEnd, TypeOK
  <1>2. ASSUME NEW c \in CPU, NEW p \in Proc, SchedPick(c, p) PROVE TypeOK'
    <2>1. scan' \in [CPU -> 0 .. NPROC + 1]
      BY <1>2, <1>t, ProcFacts DEF SchedPick, TypeOK
    <2>2. /\ cproc' \in [CPU -> Proc \cup {None}]
          /\ state' \in [Proc -> State]
      BY <1>2, <1>t DEF SchedPick, TypeOK, State
    <2> QED
      BY <1>2, <1>t, <2>1, <2>2 DEF SchedPick, TypeOK
  <1>3. ASSUME NEW c \in CPU, NEW p \in Proc, Resume(c, p) PROVE TypeOK'
    <2>1. Resumed(pc[p]) \in PC
      BY <1>3, PreemptFacts DEF Resume, Preemptible, PC
    <2> QED
      BY <1>3, <1>t, <2>1 DEF Resume, GoTo, TypeOK
  <1>4. ASSUME NEW c \in CPU, TimerTick(c) \/ TimerOther(c) PROVE TypeOK'
    BY <1>4, <1>t DEF TimerTick, TimerOther, TypeOK
  <1>5. ASSUME NEW c \in CPU, TickWakeup(c) PROVE TypeOK'
    <2>1. state' \in [Proc -> State]
      BY <1>5, <1>t DEF TickWakeup, Wakeup1, TypeOK, State
    <2>2. left' \in [Proc -> 0 .. MaxSleep]
      BY <1>5, <1>t, ProcFacts DEF TickWakeup, Tick, TypeOK
    <2> QED
      BY <1>5, <1>t, <2>1, <2>2 DEF TickWakeup, TypeOK
  <1>6. ASSUME NEW c \in CPU, TrapReturn(c) PROVE TypeOK'
    <2>1. pc' \in [Proc -> PC]
      BY <1>6, <1>t DEF TrapReturn, TypeOK, PC
    <2> QED
      BY <1>6, <1>t, <2>1 DEF TrapReturn, TypeOK
  <1>7. ASSUME NEW c \in CPU, Yield(c) PROVE TypeOK'
    <2>1. PICK p \in Proc : cproc[c] = p
      BY <1>7, <1>t DEF Yield, TypeOK
    <2>2. Preempted(pc[p]) \in PC
      <3>1. pc[p] \in Preemptible
        BY <1>7, <1>t, <2>1, ProcFacts DEF Yield, IntrInv
      <3> QED
        BY <3>1, PreemptFacts DEF Yielded, PC
    <2>3. /\ pc' = [pc EXCEPT ![p] = Preempted(pc[p])]
          /\ state' = [state EXCEPT ![p] = "RUNNABLE"]
          /\ cproc' = [cproc EXCEPT ![c] = None]
          /\ scan' = [scan EXCEPT ![c] = p + 1] /\ lock' = c
          /\ intr' = [intr EXCEPT ![c] = "none"]
      BY <1>7, <2>1 DEF Yield, GoTo, Sched
    <2>4. pc' \in [Proc -> PC] /\ state' \in [Proc -> State]
      BY <1>t, <2>2, <2>3 DEF TypeOK, State
    <2>5. cproc' \in [CPU -> Proc \cup {None}] /\ scan' \in [CPU -> 0 .. NPROC + 1]
      BY <1>t, <2>3, ProcFacts DEF TypeOK
    <2> QED
      BY <1>7, <1>t, <2>3, <2>4, <2>5 DEF Yield, TypeOK
  <1>8. ASSUME NEW c \in CPU, NEW p \in Proc, TrapKilled(c, p) \/ ExitCall(c, p)
        PROVE  TypeOK'
    BY <1>8, <1>t DEF TrapKilled, ExitCall, GoTo, TypeOK, PC
  <1>9. ASSUME NEW c \in CPU, NEW p \in Proc, NEW q \in Proc, ForkAlloc(c, p, q)
        PROVE  TypeOK'
    <2>1. pid' \in [Proc -> 0 .. MaxPid] /\ nextpid' \in 1 .. MaxPid + 1
      BY <1>9, <1>t, ProcFacts DEF ForkAlloc, TypeOK
    <2>2. /\ state' \in [Proc -> State] /\ pc' \in [Proc -> PC]
          /\ np' \in [Proc -> Proc \cup {None}]
      BY <1>9, <1>t DEF ForkAlloc, GoTo, TypeOK, State, PC
    <2> QED
      BY <1>9, <1>t, <2>1, <2>2 DEF ForkAlloc, TypeOK
  <1>10. ASSUME NEW c \in CPU, NEW p \in Proc, ForkFail(c, p) \/ ForkFull(c, p)
         PROVE  TypeOK'
    <2>1. /\ state' \in [Proc -> State] /\ pc' \in [Proc -> PC]
          /\ np' \in [Proc -> Proc \cup {None}]
      BY <1>10, <1>t DEF ForkFail, ForkFull, ForkReturns, GoTo, TypeOK, State, PC
    <2>2. parent' \in [Proc -> Proc \cup {None}]
      BY <1>10, <1>t DEF ForkFail, ForkFull, TypeOK
    <2> QED
      BY <1>10, <1>t, <2>1, <2>2 DEF ForkFail, ForkFull, TypeOK
  <1>11. ASSUME NEW c \in CPU, NEW p \in Proc, ForkDone(c, p) PROVE TypeOK'
    <2>1. /\ state' \in [Proc -> State] /\ pc' \in [Proc -> PC]
          /\ np' \in [Proc -> Proc \cup {None}]
      BY <1>11, <1>t DEF ForkDone, TypeOK, State, PC
    <2>2. parent' \in [Proc -> Proc \cup {None}]
      BY <1>11, <1>t DEF ForkDone, TypeOK
    <2> QED
      BY <1>11, <1>t, <2>1, <2>2 DEF ForkDone, TypeOK
  <1>12. ASSUME NEW c \in CPU, NEW p \in Proc, Exit(c, p) PROVE TypeOK'
    <2>1. state' \in [Proc -> State]
      BY <1>12, <1>t, ExitState
    <2>2. parent' \in [Proc -> Proc \cup {None}]
      BY <1>12, <1>t, ProcFacts DEF Exit, Reparent, TypeOK
    <2>3. cproc' \in [CPU -> Proc \cup {None}] /\ scan' \in [CPU -> 0 .. NPROC + 1]
      BY <1>12, <1>t, ProcFacts DEF Exit, Sched, TypeOK
    <2> QED
      BY <1>12, <1>t, <2>1, <2>2, <2>3 DEF Exit, Sched, TypeOK
  <1>13. ASSUME NEW c \in CPU, NEW p \in Proc, NEW q \in Proc, WaitReap(c, p, q)
         PROVE  TypeOK'
    <2>1. killed' \in [Proc -> BOOLEAN]
      BY <1>13, <1>t DEF WaitReap, TypeOK
    <2>2. pid' \in [Proc -> 0 .. MaxPid]
      BY <1>13, <1>t, ProcFacts DEF WaitReap, TypeOK
    <2>3. /\ state' \in [Proc -> State] /\ pc' \in [Proc -> PC]
          /\ parent' \in [Proc -> Proc \cup {None}]
          /\ chan' \in [Proc -> Proc \cup {None, TICKS}]
      BY <1>13, <1>t DEF WaitReap, GoTo, TypeOK, State, PC
    <2> QED
      BY <1>13, <1>t, <2>1, <2>2, <2>3 DEF WaitReap, TypeOK
  <1>14. ASSUME NEW c \in CPU, NEW p \in Proc, WaitFail(c, p) PROVE TypeOK'
    BY <1>14, <1>t DEF WaitFail, GoTo, TypeOK, PC
  <1>15. ASSUME NEW c \in CPU, NEW p \in Proc, WaitSleep(c, p) PROVE TypeOK'
    <2>1. cproc' \in [CPU -> Proc \cup {None}] /\ scan' \in [CPU -> 0 .. NPROC + 1]
      BY <1>15, <1>t, ProcFacts DEF WaitSleep, Sched, TypeOK
    <2>2. /\ state' \in [Proc -> State] /\ pc' \in [Proc -> PC]
          /\ chan' \in [Proc -> Proc \cup {None, TICKS}]
      BY <1>15, <1>t DEF WaitSleep, GoTo, TypeOK, State, PC
    <2> QED
      BY <1>15, <1>t, <2>1, <2>2 DEF WaitSleep, Sched, TypeOK
  <1>16. ASSUME NEW c \in CPU, NEW p \in Proc, NEW q \in Proc, NEW k \in KillPid,
                Kill(c, p, q, k)
         PROVE  TypeOK'
    <2>1. killed' \in [Proc -> BOOLEAN]
      BY <1>16, <1>t DEF Kill, TypeOK
    <2>2. state' \in [Proc -> State]
      BY <1>16, <1>t DEF Kill, KillWakes, TypeOK, State
    <2>3. targets' \subseteq KillPid
      BY <1>16, <1>t DEF Kill, TypeOK
    <2> QED
      BY <1>16, <1>t, <2>1, <2>2, <2>3 DEF Kill, TypeOK
  <1>17. ASSUME NEW c \in CPU, NEW p \in Proc, NEW n \in 1 .. MaxSleep,
                SleepCall(c, p, n)
         PROVE  TypeOK'
    <2>1. left' \in [Proc -> 0 .. MaxSleep]
      BY <1>17, <1>t, ProcFacts DEF SleepCall, TypeOK
    <2> QED
      BY <1>17, <1>t, <2>1 DEF SleepCall, GoTo, TypeOK, PC
  <1>18. ASSUME NEW c \in CPU, NEW p \in Proc, SleepCheck(c, p) PROVE TypeOK'
    <2>1. left' \in [Proc -> 0 .. MaxSleep]
      <3>1. left' = left \/ left' = [left EXCEPT ![p] = 0]
        BY <1>18 DEF SleepCheck
      <3>2. 0 \in 0 .. MaxSleep /\ left \in [Proc -> 0 .. MaxSleep]
        BY <1>t, ProcFacts DEF TypeOK
      <3> QED
        BY <3>1, <3>2
    <2>2. pc' \in [Proc -> PC] /\ tickslock' \in CPU \cup {None}
      BY <1>18, <1>t DEF SleepCheck, GoTo, TypeOK, PC
    <2> QED
      BY <1>18, <1>t, <2>1, <2>2 DEF SleepCheck, TypeOK
  <1>19. ASSUME NEW c \in CPU, NEW p \in Proc, SleepTicks(c, p) PROVE TypeOK'
    <2>1. cproc' \in [CPU -> Proc \cup {None}] /\ scan' \in [CPU -> 0 .. NPROC + 1]
      BY <1>19, <1>t, ProcFacts DEF SleepTicks, Sched, TypeOK
    <2>2. /\ state' \in [Proc -> State] /\ pc' \in [Proc -> PC]
          /\ chan' \in [Proc -> Proc \cup {None, TICKS}]
      BY <1>19, <1>t DEF SleepTicks, GoTo, TypeOK, State, PC
    <2> QED
      BY <1>19, <1>t, <2>1, <2>2 DEF SleepTicks, Sched, TypeOK
  <1>20. ASSUME NEW c \in CPU, NEW p \in Proc, SleepWoken(c, p) \/ SleepRelock(c, p)
         PROVE  TypeOK'
    <2>1. /\ pc' \in [Proc -> PC]
          /\ chan' \in [Proc -> Proc \cup {None, TICKS}]
      BY <1>20, <1>t DEF SleepWoken, SleepRelock, GoTo, TypeOK, PC
    <2> QED
      BY <1>20, <1>t, <2>1 DEF SleepWoken, SleepRelock, TypeOK
  <1>21. CASE UNCHANGED vars
    BY <1>21, <1>t DEF vars, TypeOK
  <1> QED
    BY <1>1, <1>2, <1>3, <1>4, <1>5, <1>6, <1>7, <1>8, <1>9, <1>10, <1>11,
       <1>12, <1>13, <1>14, <1>15, <1>16, <1>17, <1>18, <1>19, <1>20, <1>21
    DEF Next, KernelStep, ForkEnd, Timer, Interrupt, WaitStep, UserStep

\* Process p executes on c and on no other CPU, and no fork works on it.
Actor(c, p) ==
    /\ cproc[c] = p /\ intr[c] = "none" /\ state[p] = "RUNNING"
    /\ \A d \in CPU \ {c} : cproc[d] # p
    /\ \A q \in Proc : np[q] # p

\* A process that takes a step is such a one.
LEMMA ActorFacts ==
    ASSUME ProcInv, NEW c \in CPU, NEW p \in Proc, cproc[c] = p,
           intr[c] = "none" \/ pc[p] \in AfterSched
    PROVE  Actor(c, p)
  <1>1. intr[c] = "none"
    <2>1. AfterSched \cap Preemptible = {}
      BY DEF AfterSched, Yielded, Preemptible
    <2> QED
      BY <2>1, ProcFacts DEF ProcInv, IntrInv
  <1>2. state[p] = "RUNNING" /\ \A d \in CPU \ {c} : cproc[d] # p
    BY ProcFacts DEF ProcInv, OneCPU
  <1>3. \A q \in Proc : np[q] # p
    BY <1>2, ProcFacts DEF ProcInv, ForkInv
  <1> QED
    BY <1>1, <1>2, <1>3 DEF Actor

\* Who takes the steps of a process.
LEMMA StepActor ==
    ASSUME ProcInv, NEW c \in CPU, NEW p \in Proc,
           \/ Resume(c, p) \/ TrapKilled(c, p) \/ ExitCall(c, p)
           \/ \E q \in Proc : ForkAlloc(c, p, q)
           \/ ForkFail(c, p) \/ ForkFull(c, p) \/ ForkDone(c, p)
           \/ Exit(c, p) \/ InWait(c, p)
           \/ \E q \in Proc, k \in KillPid : Kill(c, p, q, k)
           \/ \E n \in 1 .. MaxSleep : SleepCall(c, p, n)
           \/ SleepCheck(c, p) \/ SleepTicks(c, p) \/ SleepWoken(c, p)
           \/ SleepRelock(c, p)
    PROVE  Actor(c, p)
  <1>1. cproc[c] = p /\ (intr[c] = "none" \/ pc[p] \in AfterSched)
    BY DEF Resume, TrapKilled, ExitCall, ForkAlloc, ForkFail, ForkFull, ForkDone,
           Exit, InWait, Kill, SleepCall, SleepCheck, SleepTicks, SleepWoken,
           SleepRelock, Calls, On, AfterSched
  <1> QED
    BY <1>1, ActorFacts

\* The slot of a fork is an EMBRYO that no CPU runs, and not the forking one.
LEMMA ForkSlot ==
    ASSUME ProcInv, NEW c \in CPU, NEW p \in Proc, On(c, p, "fork")
    PROVE  /\ np[p] \in Proc /\ state[np[p]] = "EMBRYO" /\ np[p] # p
           /\ \A d \in CPU : cproc[d] # np[p]
           /\ \A q \in Proc \ {p} : np[q] # np[p]
           /\ np[np[p]] = None
  <1>1. np[p] # None
    BY DEF On, ProcInv, ForkInv, Forking
  <1>2. np[p] \in Proc /\ state[np[p]] = "EMBRYO" /\ state[p] # "EMBRYO"
    BY <1>1 DEF ProcInv, ForkInv, TypeOK
  <1>3. \A d \in CPU : cproc[d] # np[p]
    BY <1>2 DEF ProcInv, OneCPU
  <1>4. \A q \in Proc \ {p} : np[q] # np[p]
    BY <1>1 DEF ProcInv, ForkInv
  <1>5. np[np[p]] = None
    BY <1>2 DEF ProcInv, ForkInv
  <1> QED
    BY <1>2, <1>3, <1>4, <1>5

\* A step that calls sched() gives the CPU up; the process does not run on.
LEMMA SchedFacts ==
    ASSUME ProcInv, NEW c \in CPU,
           \/ Yield(c)
           \/ \E p \in Proc : Exit(c, p) \/ WaitSleep(c, p) \/ SleepTicks(c, p)
    PROVE  \E p \in Proc :
              /\ cproc[c] = p /\ state[p] = "RUNNING"
              /\ cproc' = [cproc EXCEPT ![c] = None]
              /\ scan' = [scan EXCEPT ![c] = p + 1] /\ p + 1 # None
              /\ lock \in {None, c} /\ lock' = c
              /\ state'[p] \in {"RUNNABLE", "SLEEPING", "ZOMBIE"}
              /\ \A q \in Proc \ {p} :
                    /\ state'[q] = "RUNNING" <=> state[q] = "RUNNING"
                    /\ pc'[q] = pc[q]
              /\ intr'[c] = "none" /\ \A d \in CPU \ {c} : intr'[d] = intr[d]
  <1>t. TypeOK
    BY DEF ProcInv
  <1>1. CASE Yield(c)
    <2>1. PICK p \in Proc : cproc[c] = p
      BY <1>1, <1>t DEF Yield, TypeOK
    <2>2. state[p] = "RUNNING"
      BY <2>1 DEF ProcInv, OneCPU
    <2>3. p + 1 # None
      BY ProcFacts
    <2>4. /\ state' = [state EXCEPT ![p] = "RUNNABLE"]
          /\ intr' = [intr EXCEPT ![c] = "none"]
          /\ \A q \in Proc \ {p} : pc'[q] = pc[q]
      BY <1>1, <1>t, <2>1 DEF Yield, GoTo, TypeOK
    <2>5. /\ state'[p] = "RUNNABLE"
          /\ \A q \in Proc \ {p} : state'[q] = state[q]
          /\ intr'[c] = "none" /\ \A d \in CPU \ {c} : intr'[d] = intr[d]
      BY <1>t, <2>4 DEF TypeOK
    <2> QED
      BY <1>1, <2>1, <2>2, <2>3, <2>4, <2>5 DEF Yield, Sched
  <1>2. ASSUME NEW p \in Proc, Exit(c, p)
        PROVE  /\ cproc[c] = p /\ state[p] = "RUNNING"
               /\ cproc' = [cproc EXCEPT ![c] = None]
               /\ scan' = [scan EXCEPT ![c] = p + 1] /\ p + 1 # None
               /\ lock \in {None, c} /\ lock' = c
               /\ state'[p] \in {"RUNNABLE", "SLEEPING", "ZOMBIE"}
               /\ \A q \in Proc \ {p} :
                     /\ state'[q] = "RUNNING" <=> state[q] = "RUNNING"
                     /\ pc'[q] = pc[q]
               /\ intr'[c] = "none" /\ \A d \in CPU \ {c} : intr'[d] = intr[d]
    <2>1. Actor(c, p)
      BY <1>2, StepActor
    <2>2. /\ state'[p] = "ZOMBIE"
          /\ \A q \in Proc \ {p} : state'[q] = "RUNNING" <=> state[q] = "RUNNING"
      BY <1>2, <1>t, ExitState
    <2>3. p + 1 # None
      BY ProcFacts
    <2> QED
      BY <1>2, <2>1, <2>2, <2>3 DEF Exit, Sched, Actor
  <1>3. ASSUME NEW p \in Proc, WaitSleep(c, p) \/ SleepTicks(c, p)
        PROVE  /\ cproc[c] = p /\ state[p] = "RUNNING"
               /\ cproc' = [cproc EXCEPT ![c] = None]
               /\ scan' = [scan EXCEPT ![c] = p + 1] /\ p + 1 # None
               /\ lock \in {None, c} /\ lock' = c
               /\ state'[p] \in {"RUNNABLE", "SLEEPING", "ZOMBIE"}
               /\ \A q \in Proc \ {p} :
                     /\ state'[q] = "RUNNING" <=> state[q] = "RUNNING"
                     /\ pc'[q] = pc[q]
               /\ intr'[c] = "none" /\ \A d \in CPU \ {c} : intr'[d] = intr[d]
    <2>1. Actor(c, p)
      BY <1>3, StepActor DEF WaitSleep
    <2>2. lock \in {None, c}
      BY <1>3 DEF WaitSleep, InWait, SleepTicks
    <2>3. p + 1 # None
      BY ProcFacts
    <2>4. /\ state' = [state EXCEPT ![p] = "SLEEPING"]
          /\ \A q \in Proc \ {p} : pc'[q] = pc[q]
      BY <1>3, <1>t DEF WaitSleep, SleepTicks, GoTo, TypeOK
    <2>5. /\ state'[p] = "SLEEPING"
          /\ \A q \in Proc \ {p} : state'[q] = state[q]
      BY <1>t, <2>4 DEF TypeOK
    <2> QED
      BY <1>3, <2>1, <2>2, <2>3, <2>4, <2>5 DEF WaitSleep, SleepTicks, Sched, Actor
  <1> QED
    BY <1>1, <1>2, <1>3

\* A process runs on one CPU at most.
LEMMA RunStep ==
    ASSUME ProcInv, [Next]_vars
    PROVE  OneCPU'
  <1>t. TypeOK /\ OneCPU
    BY DEF ProcInv
  <1>a. /\ state \in [Proc -> State] /\ cproc \in [CPU -> Proc \cup {None}]
        /\ None \notin Proc
    BY <1>t, ProcFacts DEF TypeOK
  <1>1. ASSUME cproc' = cproc,
               \A q \in Proc : state'[q] = "RUNNING" <=> state[q] = "RUNNING"
        PROVE  OneCPU'
    BY <1>1, <1>t DEF OneCPU
  <1>2. ASSUME NEW c \in CPU, NEW p \in Proc, SchedPick(c, p) PROVE OneCPU'
    <2>1. /\ cproc[c] = None /\ cproc' = [cproc EXCEPT ![c] = p]
          /\ state[p] = "RUNNABLE" /\ state' = [state EXCEPT ![p] = "RUNNING"]
      BY <1>2 DEF SchedPick
    <2>2. \A d \in CPU : cproc[d] # p
      BY <1>t, <2>1 DEF OneCPU
    <2> QED
      BY <1>a, <1>t, <2>1, <2>2 DEF OneCPU
  <1>3. ASSUME NEW c \in CPU,
               \/ Yield(c)
               \/ \E p \in Proc : Exit(c, p) \/ WaitSleep(c, p) \/ SleepTicks(c, p)
        PROVE  OneCPU'
    <2>1. PICK p \in Proc :
             /\ cproc[c] = p /\ cproc' = [cproc EXCEPT ![c] = None]
             /\ state'[p] # "RUNNING"
             /\ \A q \in Proc \ {p} : state'[q] = "RUNNING" <=> state[q] = "RUNNING"
      BY <1>3, SchedFacts
    <2>2. ASSUME NEW b \in CPU, NEW d \in CPU, cproc'[b] = cproc'[d],
                 cproc'[b] # None
          PROVE  b = d
      BY <1>a, <1>t, <2>1, <2>2 DEF OneCPU
    <2>3. ASSUME NEW q \in Proc
          PROVE  state'[q] = "RUNNING" <=> \E d \in CPU : cproc'[d] = q
      <3>1. CASE q = p
        BY <1>a, <1>t, <2>1, <3>1 DEF OneCPU
      <3>2. CASE q # p
        BY <1>a, <1>t, <2>1, <3>2 DEF OneCPU
      <3> QED
        BY <3>1, <3>2
    <2> QED
      BY <2>2, <2>3 DEF OneCPU
  <1>4. ASSUME NEW c \in CPU, TickWakeup(c) PROVE OneCPU'
    BY <1>1, <1>4 DEF TickWakeup, Wakeup1
  <1>5. ASSUME NEW c \in CPU, NEW p \in Proc, NEW q \in Proc,
               ForkAlloc(c, p, q) \/ WaitReap(c, p, q)
        PROVE  OneCPU'
    BY <1>1, <1>5, <1>a DEF ForkAlloc, FirstUnused, WaitReap, Zombies
  <1>6. ASSUME NEW c \in CPU, NEW p \in Proc,
               ForkFail(c, p) \/ ForkFull(c, p) \/ ForkDone(c, p)
        PROVE  OneCPU'
    <2>1. np[p] \in Proc /\ state[np[p]] = "EMBRYO"
      BY <1>6, ForkSlot DEF ForkFail, ForkFull, ForkDone
    <2>2. /\ cproc' = cproc
          /\ \/ state' = [state EXCEPT ![np[p]] = "UNUSED"]
             \/ state' = [state EXCEPT ![np[p]] = "RUNNABLE"]
      BY <1>6 DEF ForkFail, ForkFull, ForkDone
    <2> QED
      BY <1>1, <1>a, <2>1, <2>2
  <1>7. ASSUME NEW c \in CPU, NEW p \in Proc, NEW q \in Proc, NEW k \in KillPid,
               Kill(c, p, q, k)
        PROVE  OneCPU'
    BY <1>1, <1>7, <1>a DEF Kill, KillWakes
  <1>8. CASE UNCHANGED vars
    BY <1>1, <1>8 DEF vars
  <1>9. ASSUME NEW c \in CPU, NEW p \in Proc,
               \/ SchedStart(c) \/ SchedEnd(c) \/ Timer(c) \/ TrapReturn(c)
               \/ Resume(c, p) \/ TrapKilled(c, p) \/ ExitCall(c, p)
               \/ WaitFail(c, p) \/ \E n \in 1 .. MaxSleep : SleepCall(c, p, n)
               \/ SleepCheck(c, p) \/ SleepWoken(c, p) \/ SleepRelock(c, p)
        PROVE  OneCPU'
    BY <1>1, <1>9
    DEF SchedStart, SchedEnd, Timer, TimerTick, TimerOther, TrapReturn, Resume,
        TrapKilled, ExitCall, WaitFail, SleepCall, SleepCheck, SleepWoken,
        SleepRelock
  <1> QED
    BY <1>2, <1>3, <1>4, <1>5, <1>6, <1>7, <1>8, <1>9, ProcFacts
    DEF Next, KernelStep, ForkEnd, Interrupt, WaitStep, UserStep

\* ptable.lock is with the CPU that is in its scheduler's loop, or whose
\* process has not yet released it after sched().
LEMMA LockStep ==
    ASSUME ProcInv, [Next]_vars
    PROVE  LockHandoff'
  <1>t. TypeOK /\ OneCPU /\ LockHandoff /\ Parked
    BY DEF ProcInv
  <1>a. /\ state \in [Proc -> State] /\ cproc \in [CPU -> Proc \cup {None}]
        /\ pc \in [Proc -> PC] /\ scan \in [CPU -> 0 .. NPROC + 1]
        /\ None \notin Proc /\ None \notin CPU
    BY <1>t, ProcFacts DEF TypeOK
  \* Nothing of the handoff changes.
  <1>1. ASSUME UNCHANGED <<lock, cproc, scan>>,
               \A d \in CPU : cproc[d] # None
                  => (pc'[cproc[d]] \in AfterSched <=> pc[cproc[d]] \in AfterSched)
        PROVE  LockHandoff'
    <2>1. ASSUME NEW d \in CPU
          PROVE  lock' = d <=> \/ cproc'[d] = None /\ scan'[d] # None
                               \/ cproc'[d] # None /\ pc'[cproc'[d]] \in AfterSched
      BY <1>1, <1>t DEF LockHandoff
    <2> QED
      BY <2>1 DEF LockHandoff
  \* The process of c, or its scheduler, releases the lock or has not got it.
  <1>2. ASSUME NEW c \in CPU, NEW p \in Proc, cproc[c] = p, lock \in {None, c},
               lock' = None, UNCHANGED <<cproc, scan>>, pc'[p] \notin AfterSched,
               \A q \in Proc \ {p} : pc'[q] = pc[q]
        PROVE  LockHandoff'
    <2>1. ASSUME NEW d \in CPU
          PROVE  lock' = d <=> \/ cproc'[d] = None /\ scan'[d] # None
                               \/ cproc'[d] # None /\ pc'[cproc'[d]] \in AfterSched
      <3>1. CASE d = c
        BY <1>2, <1>a, <3>1
      <3>2. CASE d # c
        <4>1. lock # d /\ cproc[d] # p
          BY <1>2, <1>a, <1>t, <3>2 DEF OneCPU
        <4> QED
          BY <1>2, <1>a, <1>t, <4>1 DEF LockHandoff
      <3> QED
        BY <3>1, <3>2
    <2> QED
      BY <2>1 DEF LockHandoff
  <1>3. ASSUME NEW c \in CPU, SchedStart(c) PROVE LockHandoff'
    <2>1. /\ cproc[c] = None /\ lock = None /\ lock' = c
          /\ scan' = [scan EXCEPT ![c] = 1] /\ 1 # None /\ UNCHANGED <<cproc, pc>>
      BY <1>3, ProcFacts DEF SchedStart
    <2> QED
      BY <1>a, <1>t, <2>1 DEF LockHandoff
  <1>4. ASSUME NEW c \in CPU, SchedEnd(c) PROVE LockHandoff'
    <2>1. /\ cproc[c] = None /\ lock = c /\ lock' = None
          /\ scan' = [scan EXCEPT ![c] = None] /\ UNCHANGED <<cproc, pc>>
      BY <1>4 DEF SchedEnd
    <2> QED
      BY <1>a, <1>t, <2>1 DEF LockHandoff
  <1>5. ASSUME NEW c \in CPU, NEW p \in Proc, SchedPick(c, p) PROVE LockHandoff'
    <2>1. /\ lock = c /\ lock' = c /\ cproc' = [cproc EXCEPT ![c] = p]
          /\ scan' = [scan EXCEPT ![c] = p] /\ pc' = pc
      BY <1>5 DEF SchedPick
    <2>2. pc[p] \in AfterSched
      BY <1>5, <1>t DEF SchedPick, Parked
    <2> QED
      BY <1>a, <1>t, <2>1, <2>2 DEF LockHandoff
  <1>6. ASSUME NEW c \in CPU,
               \/ Yield(c)
               \/ \E p \in Proc : Exit(c, p) \/ WaitSleep(c, p) \/ SleepTicks(c, p)
        PROVE  LockHandoff'
    <2>1. PICK p \in Proc :
             /\ cproc[c] = p /\ cproc' = [cproc EXCEPT ![c] = None]
             /\ scan' = [scan EXCEPT ![c] = p + 1] /\ p + 1 # None
             /\ lock \in {None, c} /\ lock' = c
             /\ \A q \in Proc \ {p} : pc'[q] = pc[q]
      BY <1>6, SchedFacts
    <2>2. ASSUME NEW d \in CPU
          PROVE  lock' = d <=> \/ cproc'[d] = None /\ scan'[d] # None
                               \/ cproc'[d] # None /\ pc'[cproc'[d]] \in AfterSched
      <3>1. CASE d = c
        BY <1>a, <2>1, <3>1
      <3>2. CASE d # c
        <4>1. /\ lock # d /\ lock' # d /\ cproc[d] # p
              /\ cproc'[d] = cproc[d] /\ scan'[d] = scan[d]
          BY <1>a, <1>t, <2>1, <3>2 DEF OneCPU
        <4> QED
          BY <1>a, <1>t, <2>1, <4>1 DEF LockHandoff
      <3> QED
        BY <3>1, <3>2
    <2> QED
      BY <2>2 DEF LockHandoff
  <1>7. ASSUME NEW c \in CPU, NEW p \in Proc, Resume(c, p) PROVE LockHandoff'
    <2>1. Resumed(pc[p]) \notin AfterSched
      BY <1>7, PreemptFacts DEF Resume, Preemptible, AfterSched, Yielded
    <2> QED
      BY <1>2, <1>7, <1>a, <2>1 DEF Resume, GoTo
  <1>8. ASSUME NEW c \in CPU, NEW p \in Proc,
               WaitFail(c, p) \/ \E q \in Proc : WaitReap(c, p, q)
        PROVE  LockHandoff'
    <2>1. cproc[c] = p /\ lock \in {None, c}
      BY <1>8 DEF WaitFail, WaitReap, InWait, Calls, On
    <2>2. /\ lock' = None /\ UNCHANGED <<cproc, scan>>
          /\ pc' = [pc EXCEPT ![p] = "user"]
      BY <1>8 DEF WaitFail, WaitReap, GoTo
    <2>3. "user" \notin AfterSched
      BY DEF AfterSched, Yielded
    <2> QED
      BY <1>2, <1>a, <2>1, <2>2, <2>3
  <1>9. ASSUME NEW c \in CPU, NEW p \in Proc, SleepWoken(c, p) PROVE LockHandoff'
    <2>1. "retick" \notin AfterSched
      BY DEF AfterSched, Yielded
    <2> QED
      BY <1>2, <1>9, <1>a, <2>1 DEF SleepWoken, On, GoTo
  \* A step within a system call, the lock being left alone.
  <1>10. ASSUME NEW c \in CPU, NEW p \in Proc,
                \/ TrapKilled(c, p) \/ ExitCall(c, p)
                \/ \E q \in Proc : ForkAlloc(c, p, q)
                \/ ForkFail(c, p) \/ ForkFull(c, p)
                \/ \E n \in 1 .. MaxSleep : SleepCall(c, p, n)
                \/ SleepCheck(c, p) \/ SleepRelock(c, p)
         PROVE  LockHandoff'
    <2>1. /\ UNCHANGED <<lock, cproc, scan>>
          /\ pc[p] \in {"user", "fork", "tocheck", "retick"}
          /\ \A q \in Proc \ {p} : pc'[q] = pc[q]
          /\ pc'[p] \in {"exit", "fork", "user", "tocheck", "tosleep"}
      BY <1>10, <1>a
      DEF TrapKilled, ExitCall, ForkAlloc, ForkFail, ForkFull, ForkReturns,
          SleepCall, SleepCheck, SleepRelock, Calls, On, GoTo
    <2>2. pc[p] \notin AfterSched /\ pc'[p] \notin AfterSched
      BY <2>1 DEF AfterSched, Yielded
    <2> QED
      BY <1>1, <1>a, <2>1, <2>2
  <1>11. ASSUME NEW c \in CPU, NEW p \in Proc, ForkDone(c, p) PROVE LockHandoff'
    <2>1. \A d \in CPU : cproc[d] # np[p]
      BY <1>11, ForkSlot DEF ForkDone
    <2>2. /\ UNCHANGED <<lock, cproc, scan>> /\ pc[p] = "fork"
          /\ pc' = [pc EXCEPT ![p] = "user", ![np[p]] = "resume"]
      BY <1>11 DEF ForkDone, On
    <2>3. "fork" \notin AfterSched /\ "user" \notin AfterSched
      BY DEF AfterSched, Yielded
    <2>4. \A d \in CPU : cproc[d] # None
             => pc'[cproc[d]] = IF cproc[d] = p THEN "user" ELSE pc[cproc[d]]
      BY <1>a, <2>1, <2>2
    <2>5. ASSUME NEW d \in CPU, cproc[d] # None
          PROVE  pc'[cproc[d]] \in AfterSched <=> pc[cproc[d]] \in AfterSched
      <3>1. CASE cproc[d] = p
        BY <2>2, <2>3, <2>4, <2>5, <3>1
      <3>2. CASE cproc[d] # p
        BY <2>4, <2>5, <3>2
      <3> QED
        BY <3>1, <3>2
    <2> QED
      BY <1>1, <2>2, <2>5
  <1>12. ASSUME NEW c \in CPU, TrapReturn(c) PROVE LockHandoff'
    <2>1. CASE cproc[c] = None
      BY <1>1, <1>12, <2>1 DEF TrapReturn
    <2>2. CASE cproc[c] # None
      <3>1. /\ UNCHANGED <<lock, cproc, scan>> /\ pc[cproc[c]] = "user"
            /\ pc' = [pc EXCEPT ![cproc[c]] = "exit"]
        BY <1>12, <2>2 DEF TrapReturn
      <3>2. "exit" \notin AfterSched /\ "user" \notin AfterSched
        BY DEF AfterSched, Yielded
      <3>3. \A d \in CPU : cproc[d] # None
               => pc'[cproc[d]] = IF cproc[d] = cproc[c] THEN "exit"
                                  ELSE pc[cproc[d]]
        BY <1>a, <2>2, <3>1
      <3> QED
        BY <1>1, <3>1, <3>2, <3>3
    <2> QED
      BY <2>1, <2>2
  <1>13. ASSUME NEW c \in CPU,
                \/ Timer(c) \/ TickWakeup(c)
                \/ \E p, q \in Proc, k \in KillPid : Kill(c, p, q, k)
         PROVE  LockHandoff'
    BY <1>1, <1>13 DEF Timer, TimerTick, TimerOther, TickWakeup, Kill
  <1>14. CASE UNCHANGED vars
    BY <1>1, <1>14 DEF vars
  <1> QED
    BY <1>3, <1>4, <1>5, <1>6, <1>7, <1>8, <1>9, <1>10, <1>11, <1>12, <1>13,
       <1>14
    DEF Next, KernelStep, ForkEnd, Interrupt, WaitStep, UserStep

\* A step of a process, in a system call or back from one, that leaves the
\* table alone but for its own channel.
Quiet(c, p) ==
    \/ Resume(c, p) \/ TrapKilled(c, p) \/ ExitCall(c, p) \/ WaitFail(c, p)
    \/ \E n \in 1 .. MaxSleep : SleepCall(c, p, n)
    \/ SleepCheck(c, p) \/ SleepWoken(c, p) \/ SleepRelock(c, p)

\* What such a step changes.
LEMMA QuietFacts ==
    ASSUME ProcInv, NEW c \in CPU, NEW p \in Proc, Quiet(c, p)
    PROVE  /\ Actor(c, p)
           /\ UNCHANGED <<state, parent, killed, np, cproc, scan, intr>>
           /\ \A q \in Proc \ {p} : pc'[q] = pc[q] /\ chan'[q] = chan[q]
           /\ pc'[p] \in Forking <=> pc[p] \in Forking
  <1>t. pc \in [Proc -> PC] /\ chan \in [Proc -> Proc \cup {None, TICKS}]
    BY DEF ProcInv, TypeOK
  <1>1. Actor(c, p)
    BY StepActor DEF Quiet, WaitFail
  <1>2. UNCHANGED <<state, parent, killed, np, cproc, scan, intr>>
    BY DEF Quiet, Resume, TrapKilled, ExitCall, WaitFail, SleepCall, SleepCheck,
           SleepWoken, SleepRelock
  <1>3. \A q \in Proc \ {p} : pc'[q] = pc[q] /\ chan'[q] = chan[q]
    BY <1>t DEF Quiet, Resume, TrapKilled, ExitCall, WaitFail, SleepCall,
                SleepCheck, SleepWoken, SleepRelock, GoTo
  <1>4. pc'[p] \in Forking <=> pc[p] \in Forking
    <2>1. CASE Resume(c, p)
      <3>1. pc[p] \in Yielded /\ pc'[p] = Resumed(pc[p])
        BY <1>t, <2>1 DEF Resume, GoTo
      <3> QED
        BY <3>1, PreemptFacts DEF Forking, Yielded, Preemptible
    <2>2. CASE ~Resume(c, p)
      <3>1. /\ pc[p] \in {"user", "wait", "tocheck", "woken", "retick"}
            /\ pc'[p] \in {"exit", "user", "tocheck", "tosleep", "retick"}
        BY <1>t, <2>2
        DEF Quiet, TrapKilled, ExitCall, WaitFail, SleepCall, SleepCheck,
            SleepWoken, SleepRelock, InWait, Calls, On, GoTo
      <3> QED
        BY <3>1 DEF Forking
    <2> QED
      BY <2>1, <2>2
  <1> QED
    BY <1>1, <1>2, <1>3, <1>4

\* What the end of a wait that has found a zombie changes.
LEMMA ReapFacts ==
    ASSUME ProcInv, NEW c \in CPU, NEW p \in Proc, NEW q \in Proc,
           WaitReap(c, p, q)
    PROVE  /\ Actor(c, p) /\ p # q
           /\ state[q] = "ZOMBIE" /\ parent[q] = p /\ state'[q] = "UNUSED"
           /\ parent'[q] = None /\ pc[p] \in {"user", "wait"} /\ pc'[p] = "user"
           /\ \A r \in Proc \ {q} : state'[r] = state[r] /\ parent'[r] = parent[r]
           /\ \A r \in Proc \ {p} : pc'[r] = pc[r] /\ chan'[r] = chan[r]
           /\ \A r \in Proc \ {q} : killed'[r] = killed[r]
           /\ UNCHANGED <<np, cproc, scan, intr>>
  <1>t. /\ pc \in [Proc -> PC] /\ chan \in [Proc -> Proc \cup {None, TICKS}]
        /\ state \in [Proc -> State] /\ parent \in [Proc -> Proc \cup {None}]
    BY DEF ProcInv, TypeOK
  <1>b. killed \in [Proc -> BOOLEAN]
    BY DEF ProcInv, TypeOK
  <1>1. Actor(c, p)
    BY StepActor DEF WaitReap
  <1>2. state[q] = "ZOMBIE" /\ parent[q] = p
    BY DEF WaitReap, Zombies, Kids
  <1>3. p # q
    BY <1>1, <1>2 DEF Actor
  <1>4. pc[p] \in {"user", "wait"}
    BY DEF WaitReap, InWait, Calls, On
  <1>5. /\ state'[q] = "UNUSED" /\ parent'[q] = None /\ pc'[p] = "user"
        /\ \A r \in Proc \ {q} : state'[r] = state[r] /\ parent'[r] = parent[r]
        /\ \A r \in Proc \ {p} : pc'[r] = pc[r] /\ chan'[r] = chan[r]
    BY <1>t DEF WaitReap, GoTo
  <1>6. \A r \in Proc \ {q} : killed'[r] = killed[r]
    BY <1>b DEF WaitReap
  <1> QED
    BY <1>1, <1>2, <1>3, <1>4, <1>5, <1>6 DEF WaitReap

\* What the start of a fork changes.
LEMMA AllocFacts ==
    ASSUME ProcInv, NEW c \in CPU, NEW p \in Proc, NEW q \in Proc,
           ForkAlloc(c, p, q)
    PROVE  /\ Actor(c, p) /\ p # q /\ pc[p] = "user" /\ pc'[p] = "fork"
           /\ state[q] = "UNUSED" /\ state'[q] = "EMBRYO" /\ np'[p] = q
           /\ \A r \in Proc \ {q} : state'[r] = state[r]
           /\ \A r \in Proc \ {p} : pc'[r] = pc[r] /\ np'[r] = np[r]
           /\ UNCHANGED <<parent, killed, chan, cproc, scan, intr>>
  <1>t. /\ pc \in [Proc -> PC] /\ np \in [Proc -> Proc \cup {None}]
        /\ state \in [Proc -> State]
    BY DEF ProcInv, TypeOK
  <1>1. Actor(c, p)
    BY StepActor
  <1>2. pc[p] = "user" /\ state[q] = "UNUSED" /\ p # q
    BY <1>1 DEF ForkAlloc, Calls, On, FirstUnused, Actor
  <1> QED
    BY <1>1, <1>2, <1>t DEF ForkAlloc, GoTo

\* What the end of a fork changes, whichever it is.
LEMMA ForkEndFacts ==
    ASSUME ProcInv, NEW c \in CPU, NEW p \in Proc, ForkEnd(c, p)
    PROVE  \E n \in Proc :
              /\ Actor(c, p) /\ n = np[p] /\ n # p /\ state[n] = "EMBRYO"
              /\ \A d \in CPU : cproc[d] # n
              /\ \A q \in Proc \ {p} : np[q] # n
              /\ np[n] = None /\ pc'[p] = "user" /\ np'[p] = None
              /\ \/ state'[n] = "UNUSED" /\ pc'[n] = pc[n]
                 \/ state'[n] = "RUNNABLE" /\ pc'[n] = "resume" /\ parent'[n] = p
              /\ parent'[n] \in {parent[n], p}
              /\ \A q \in Proc \ {n} : state'[q] = state[q] /\ parent'[q] = parent[q]
              /\ \A q \in Proc \ {p} : np'[q] = np[q]
              /\ \A q \in Proc \ {p, n} : pc'[q] = pc[q]
              /\ UNCHANGED <<killed, chan, cproc, scan, intr>>
  <1>t. /\ pc \in [Proc -> PC] /\ np \in [Proc -> Proc \cup {None}]
        /\ state \in [Proc -> State] /\ parent \in [Proc -> Proc \cup {None}]
    BY DEF ProcInv, TypeOK
  <1>1. Actor(c, p)
    BY StepActor DEF ForkEnd
  <1>2. PICK n \in Proc :
           /\ n = np[p] /\ n # p /\ state[n] = "EMBRYO"
           /\ \A d \in CPU : cproc[d] # n
           /\ \A q \in Proc \ {p} : np[q] # n
           /\ np[n] = None
    BY ForkSlot DEF ForkEnd, ForkFail, ForkFull, ForkDone
  <1>3. /\ np' = [np EXCEPT ![p] = None]
        /\ UNCHANGED <<killed, chan, cproc, scan, intr>>
        /\ parent' = parent \/ parent' = [parent EXCEPT ![n] = p]
    BY <1>2 DEF ForkEnd, ForkFail, ForkFull, ForkDone, ForkReturns
  <1>4. \/ /\ state' = [state EXCEPT ![n] = "UNUSED"]
           /\ pc' = [pc EXCEPT ![p] = "user"]
        \/ /\ state' = [state EXCEPT ![n] = "RUNNABLE"]
           /\ pc' = [pc EXCEPT ![p] = "user", ![n] = "resume"]
           /\ parent' = [parent EXCEPT ![n] = p]
    BY <1>2 DEF ForkEnd, ForkFail, ForkFull, ForkDone, ForkReturns, GoTo
  <1>5. /\ \/ state'[n] = "UNUSED" /\ pc'[n] = pc[n]
           \/ state'[n] = "RUNNABLE" /\ pc'[n] = "resume" /\ parent'[n] = p
        /\ \A q \in Proc \ {n} : state'[q] = state[q]
        /\ \A q \in Proc \ {p, n} : pc'[q] = pc[q]
        /\ pc'[p] = "user"
    BY <1>t, <1>2, <1>4
  <1>6. /\ parent'[n] \in {parent[n], p} /\ np'[p] = None
        /\ \A q \in Proc \ {n} : parent'[q] = parent[q]
        /\ \A q \in Proc \ {p} : np'[q] = np[q]
    BY <1>t, <1>3
  <1> QED
    BY <1>1, <1>2, <1>3, <1>5, <1>6

\* A process that does not run goes on with ptable.lock held.
LEMMA ParkedStep ==
    ASSUME ProcInv, [Next]_vars
    PROVE  Parked'
  <1>t. TypeOK /\ OneCPU /\ Parked /\ IntrInv
    BY DEF ProcInv
  <1>a. state \in [Proc -> State] /\ pc \in [Proc -> PC]
    BY <1>t DEF TypeOK
  <1>b. "wait" \in AfterSched /\ "woken" \in AfterSched /\ Yielded \subseteq AfterSched
    BY DEF AfterSched
  <1>1. ASSUME \A q \in Proc :
                  /\ state'[q] = "RUNNABLE"
                       => pc'[q] = pc[q] /\ state[q] \in {"RUNNABLE", "SLEEPING"}
                  /\ state'[q] = "SLEEPING"
                       => pc'[q] = pc[q] /\ state[q] = "SLEEPING"
        PROVE  Parked'
    BY <1>1, <1>b, <1>t DEF Parked
  <1>2. ASSUME NEW c \in CPU, NEW p \in Proc, Quiet(c, p) PROVE Parked'
    <2>1. /\ state' = state /\ state[p] = "RUNNING"
          /\ \A q \in Proc \ {p} : pc'[q] = pc[q]
      BY <1>2, QuietFacts DEF Actor
    <2> QED
      BY <1>1, <2>1
  <1>3. ASSUME NEW c \in CPU, NEW p \in Proc, NEW q \in Proc, WaitReap(c, p, q)
        PROVE  Parked'
    <2>1. /\ p # q /\ state[p] = "RUNNING" /\ state'[q] = "UNUSED"
          /\ \A r \in Proc \ {q} : state'[r] = state[r]
          /\ \A r \in Proc \ {p} : pc'[r] = pc[r]
      BY <1>3, ReapFacts DEF Actor
    <2> QED
      BY <1>1, <2>1
  <1>4. ASSUME NEW c \in CPU, NEW p \in Proc, NEW q \in Proc, ForkAlloc(c, p, q)
        PROVE  Parked'
    <2>1. /\ p # q /\ state[p] = "RUNNING" /\ state'[q] = "EMBRYO"
          /\ \A r \in Proc \ {q} : state'[r] = state[r]
          /\ \A r \in Proc \ {p} : pc'[r] = pc[r]
      BY <1>4, AllocFacts DEF Actor
    <2> QED
      BY <1>1, <2>1
  <1>5. ASSUME NEW c \in CPU, NEW p \in Proc, ForkEnd(c, p) PROVE Parked'
    <2>1. PICK n \in Proc :
             /\ n # p /\ state[p] = "RUNNING"
             /\ \/ state'[n] = "UNUSED"
                \/ state'[n] = "RUNNABLE" /\ pc'[n] = "resume"
             /\ \A q \in Proc \ {n} : state'[q] = state[q]
             /\ \A q \in Proc \ {p, n} : pc'[q] = pc[q]
      BY <1>5, ForkEndFacts DEF Actor
    <2>2. "resume" \in AfterSched
      BY DEF AfterSched, Yielded
    <2> QED
      BY <1>t, <2>1, <2>2 DEF Parked
  <1>6. ASSUME NEW c \in CPU, NEW p \in Proc, WaitSleep(c, p) \/ SleepTicks(c, p)
        PROVE  Parked'
    <2>1. /\ state' = [state EXCEPT ![p] = "SLEEPING"]
          /\ \/ pc' = [pc EXCEPT ![p] = "wait"]
             \/ pc' = [pc EXCEPT ![p] = "woken"]
      BY <1>6 DEF WaitSleep, SleepTicks, GoTo
    <2> QED
      BY <1>a, <1>t, <2>1 DEF Parked
  <1>7. ASSUME NEW c \in CPU, Yield(c) PROVE Parked'
    <2>1. PICK p \in Proc : cproc[c] = p /\ pc[p] \in Preemptible
      BY <1>7, <1>t DEF Yield, TypeOK, IntrInv
    <2>2. /\ state' = [state EXCEPT ![p] = "RUNNABLE"]
          /\ pc' = [pc EXCEPT ![p] = Preempted(pc[p])]
      BY <1>7, <2>1 DEF Yield, GoTo
    <2>3. Preempted(pc[p]) \in AfterSched
      BY <1>b, <2>1, PreemptFacts
    <2> QED
      BY <1>a, <1>t, <2>2, <2>3 DEF Parked
  <1>8. ASSUME NEW c \in CPU, NEW p \in Proc, Exit(c, p) PROVE Parked'
    <2>1. /\ state'[p] = "ZOMBIE" /\ pc' = pc
          /\ \A q \in Proc \ {p} :
                /\ state[q] # "SLEEPING" => state'[q] = state[q]
                /\ state[q] = "SLEEPING" => state'[q] \in {"SLEEPING", "RUNNABLE"}
      BY <1>8, <1>t, ExitState DEF Exit
    <2> QED
      BY <1>1, <2>1
  <1>9. ASSUME NEW c \in CPU, TickWakeup(c) PROVE Parked'
    BY <1>1, <1>9 DEF TickWakeup, Wakeup1
  <1>10. ASSUME NEW c \in CPU, NEW p \in Proc,
                SchedPick(c, p) \/ \E q \in Proc, k \in KillPid : Kill(c, p, q, k)
         PROVE  Parked'
    BY <1>1, <1>10, <1>a DEF SchedPick, Kill, KillWakes
  <1>11. ASSUME NEW c \in CPU, TrapReturn(c) PROVE Parked'
    <2>1. CASE cproc[c] = None
      BY <1>1, <1>11, <2>1 DEF TrapReturn
    <2>2. CASE cproc[c] # None
      <3>1. PICK p \in Proc : cproc[c] = p /\ state[p] = "RUNNING"
        BY <1>t, <2>2 DEF TypeOK, OneCPU
      <3>2. state' = state /\ pc' = [pc EXCEPT ![p] = "exit"]
        BY <1>11, <2>2, <3>1 DEF TrapReturn
      <3> QED
        BY <1>1, <1>a, <3>1, <3>2
    <2> QED
      BY <2>1, <2>2
  <1>12. ASSUME NEW c \in CPU, SchedStart(c) \/ SchedEnd(c) \/ Timer(c)
         PROVE  Parked'
    BY <1>1, <1>12 DEF SchedStart, SchedEnd, Timer, TimerTick, TimerOther
  <1>13. CASE UNCHANGED vars
    BY <1>1, <1>13 DEF vars
  <1> QED
    BY <1>2, <1>3, <1>4, <1>5, <1>6, <1>7, <1>8, <1>9, <1>10, <1>11, <1>12,
       <1>13
    DEF Next, KernelStep, Interrupt, WaitStep, UserStep, Quiet

\* A timer interrupt stays on the code that it stopped.
LEMMA IntrStep ==
    ASSUME ProcInv, [Next]_vars
    PROVE  IntrInv'
  <1>t. TypeOK /\ OneCPU /\ IntrInv
    BY DEF ProcInv
  <1>a. /\ cproc \in [CPU -> Proc \cup {None}] /\ pc \in [Proc -> PC]
        /\ scan \in [CPU -> 0 .. NPROC + 1] /\ None \notin Proc
        /\ intr \in [CPU -> {"none", "tick", "yield"}]
    BY <1>t, ProcFacts DEF TypeOK
  <1>1. ASSUME \A d \in CPU : intr'[d] # "none"
                  => /\ intr[d] # "none" /\ cproc'[d] = cproc[d]
                     /\ scan'[d] = scan[d]
                     /\ cproc[d] # None => pc'[cproc[d]] = pc[cproc[d]]
        PROVE  IntrInv'
    <2>1. ASSUME NEW d \in CPU, intr'[d] # "none"
          PROVE  IF cproc'[d] = None THEN scan'[d] = None
                 ELSE pc'[cproc'[d]] \in Preemptible
      BY <1>1, <1>t, <2>1 DEF IntrInv
    <2> QED
      BY <2>1 DEF IntrInv
  \* A step of the process of a CPU on which no interrupt is handled.
  <1>2. ASSUME NEW c \in CPU, NEW p \in Proc, Actor(c, p),
               UNCHANGED <<cproc, scan, intr>>,
               \A q \in Proc \ {p} : pc'[q] = pc[q] \/ \A d \in CPU : cproc[d] # q
        PROVE  IntrInv'
    BY <1>1, <1>2, <1>a DEF Actor
  <1>3. ASSUME NEW c \in CPU, NEW p \in Proc, Quiet(c, p) PROVE IntrInv'
    BY <1>2, <1>3, QuietFacts
  <1>4. ASSUME NEW c \in CPU, NEW p \in Proc, NEW q \in Proc,
               WaitReap(c, p, q) \/ ForkAlloc(c, p, q)
        PROVE  IntrInv'
    BY <1>2, <1>4, ReapFacts, AllocFacts
  <1>5. ASSUME NEW c \in CPU, NEW p \in Proc, ForkEnd(c, p) PROVE IntrInv'
    <2>1. PICK n \in Proc :
             /\ Actor(c, p) /\ \A d \in CPU : cproc[d] # n
             /\ \A q \in Proc \ {p, n} : pc'[q] = pc[q]
             /\ UNCHANGED <<cproc, scan, intr>>
      BY <1>5, ForkEndFacts
    <2> QED
      BY <1>2, <2>1
  <1>6. ASSUME NEW c \in CPU,
               \/ Yield(c)
               \/ \E p \in Proc : Exit(c, p) \/ WaitSleep(c, p) \/ SleepTicks(c, p)
        PROVE  IntrInv'
    <2>1. PICK p \in Proc :
             /\ cproc[c] = p /\ cproc' = [cproc EXCEPT ![c] = None]
             /\ scan' = [scan EXCEPT ![c] = p + 1]
             /\ \A q \in Proc \ {p} : pc'[q] = pc[q]
             /\ intr'[c] = "none" /\ \A d \in CPU \ {c} : intr'[d] = intr[d]
      BY <1>6, SchedFacts
    <2>2. \A d \in CPU \ {c} : cproc[d] # p
      BY <1>a, <1>t, <2>1 DEF OneCPU
    <2>3. \A d \in CPU \ {c} : cproc'[d] = cproc[d] /\ scan'[d] = scan[d]
      BY <1>a, <2>1
    <2> QED
      BY <1>1, <1>a, <2>1, <2>2, <2>3
  <1>7. ASSUME NEW c \in CPU, SchedStart(c) \/ SchedEnd(c) PROVE IntrInv'
    <2>1. intr[c] = "none"
      BY <1>7, <1>t DEF SchedStart, SchedEnd, IntrInv
    <2> QED
      BY <1>1, <1>7, <1>a, <2>1 DEF SchedStart, SchedEnd
  <1>8. ASSUME NEW c \in CPU, NEW p \in Proc, SchedPick(c, p) PROVE IntrInv'
    <2>1. intr[c] = "none"
      BY <1>8, <1>t DEF SchedPick, IntrInv
    <2> QED
      BY <1>1, <1>8, <1>a, <2>1 DEF SchedPick
  <1>9. ASSUME NEW c \in CPU, Timer(c) PROVE IntrInv'
    BY <1>9, <1>a, <1>t
    DEF Timer, TimerTick, TimerOther, Interruptible, IntrInv
  <1>10. ASSUME NEW c \in CPU, TickWakeup(c) PROVE IntrInv'
    BY <1>1, <1>10, <1>a DEF TickWakeup
  <1>11. ASSUME NEW c \in CPU, TrapReturn(c) PROVE IntrInv'
    <2>1. /\ intr'[c] = "none" /\ \A d \in CPU \ {c} : intr'[d] = intr[d]
          /\ UNCHANGED <<cproc, scan>>
      BY <1>11, <1>a DEF TrapReturn
    <2>2. \A d \in CPU \ {c} : cproc[d] # None => pc'[cproc[d]] = pc[cproc[d]]
      BY <1>11, <1>a, <1>t DEF TrapReturn, OneCPU
    <2> QED
      BY <1>1, <2>1, <2>2
  <1>12. CASE UNCHANGED vars \/ \E c \in CPU, p, q \in Proc, k \in KillPid :
                                   Kill(c, p, q, k)
    BY <1>1, <1>12 DEF vars, Kill
  <1> QED
    BY <1>3, <1>4, <1>5, <1>6, <1>7, <1>8, <1>9, <1>10, <1>11, <1>12
    DEF Next, KernelStep, Interrupt, WaitStep, UserStep, Quiet

\* The slot of a fork is its own until the fork ends.
LEMMA ForkStep ==
    ASSUME ProcInv, [Next]_vars
    PROVE  ForkInv'
  <1>t. TypeOK /\ OneCPU /\ IntrInv /\ ForkInv
    BY DEF ProcInv
  <1>a. /\ state \in [Proc -> State] /\ pc \in [Proc -> PC]
        /\ np \in [Proc -> Proc \cup {None}] /\ None \notin Proc
    BY <1>t, ProcFacts DEF TypeOK
  <1>1. ASSUME np' = np,
               \A q \in Proc :
                  /\ pc'[q] \in Forking <=> pc[q] \in Forking
                  /\ state[q] = "EMBRYO" => state'[q] = "EMBRYO"
                  /\ np[q] # None => state'[q] \in {"RUNNING", "RUNNABLE"}
        PROVE  ForkInv'
    BY <1>1, <1>a, <1>t DEF ForkInv
  \* The table and the pcs are left alone, but that processes run and wake up.
  <1>2. ASSUME np' = np, pc' = pc,
               \A q \in Proc :
                  /\ state[q] \in {"RUNNING", "RUNNABLE"}
                       => state'[q] \in {"RUNNING", "RUNNABLE"}
                  /\ state[q] = "EMBRYO" => state'[q] = "EMBRYO"
        PROVE  ForkInv'
    BY <1>1, <1>2, <1>t DEF ForkInv
  <1>3. ASSUME NEW c \in CPU, NEW p \in Proc, Quiet(c, p) PROVE ForkInv'
    <2>1. /\ UNCHANGED <<state, np>>
          /\ \A q \in Proc : pc'[q] \in Forking <=> pc[q] \in Forking
      BY <1>3, QuietFacts
    <2> QED
      BY <1>1, <1>t, <2>1 DEF ForkInv
  <1>4. ASSUME NEW c \in CPU, NEW p \in Proc, NEW q \in Proc, WaitReap(c, p, q)
        PROVE  ForkInv'
    <2>1. /\ state[q] = "ZOMBIE" /\ np' = np
          /\ \A r \in Proc \ {q} : state'[r] = state[r]
          /\ \A r \in Proc \ {p} : pc'[r] = pc[r]
          /\ pc[p] \in {"user", "wait"} /\ pc'[p] = "user"
      BY <1>4, ReapFacts
    <2>2. \A r \in Proc : pc'[r] \in Forking <=> pc[r] \in Forking
      BY <2>1 DEF Forking
    <2>3. np[q] = None
      BY <1>t, <2>1 DEF ForkInv
    <2> QED
      BY <1>1, <1>t, <2>1, <2>2, <2>3 DEF ForkInv
  <1>5. ASSUME NEW c \in CPU, NEW p \in Proc, NEW q \in Proc, ForkAlloc(c, p, q)
        PROVE  ForkInv'
    <2>1. /\ p # q /\ pc[p] = "user" /\ pc'[p] = "fork" /\ state[p] = "RUNNING"
          /\ state[q] = "UNUSED" /\ state'[q] = "EMBRYO" /\ np'[p] = q
          /\ \A r \in Proc \ {q} : state'[r] = state[r]
          /\ \A r \in Proc \ {p} : pc'[r] = pc[r] /\ np'[r] = np[r]
      BY <1>5, AllocFacts DEF Actor
    <2>2. np[q] = None /\ \A r \in Proc : np[r] # q
      BY <1>a, <1>t, <2>1 DEF ForkInv
    <2>3. \A r \in Proc : pc'[r] \in Forking <=> np'[r] # None
      BY <1>a, <1>t, <2>1 DEF ForkInv, Forking
    <2>4. ASSUME NEW r \in Proc, np'[r] # None
          PROVE  state'[r] \in {"RUNNING", "RUNNABLE"} /\ state'[np'[r]] = "EMBRYO"
      <3>1. CASE r = p
        BY <2>1, <3>1
      <3>2. CASE r # p
        BY <1>a, <1>t, <2>1, <2>2, <2>4, <3>2 DEF ForkInv
      <3> QED
        BY <3>1, <3>2
    <2>5. \A r, u \in Proc : np'[r] = np'[u] /\ np'[r] # None => r = u
      BY <1>t, <2>1, <2>2 DEF ForkInv
    <2> QED
      BY <2>3, <2>4, <2>5 DEF ForkInv
  <1>6. ASSUME NEW c \in CPU, NEW p \in Proc, ForkEnd(c, p) PROVE ForkInv'
    <2>1. PICK n \in Proc :
             /\ n # p /\ np[n] = None
             /\ \A q \in Proc \ {p} : np[q] # n
             /\ pc'[p] = "user" /\ np'[p] = None
             /\ pc'[n] = pc[n] \/ pc'[n] = "resume"
             /\ \A q \in Proc \ {n} : state'[q] = state[q]
             /\ \A q \in Proc \ {p} : np'[q] = np[q]
             /\ \A q \in Proc \ {p, n} : pc'[q] = pc[q]
      BY <1>6, ForkEndFacts
    <2>2. ASSUME NEW r \in Proc PROVE pc'[r] \in Forking <=> np'[r] # None
      <3>1. CASE r = p
        BY <2>1, <3>1 DEF Forking
      <3>2. CASE r = n
        BY <1>t, <2>1, <3>2 DEF ForkInv, Forking
      <3>3. CASE r # p /\ r # n
        BY <1>t, <2>1, <3>3 DEF ForkInv
      <3> QED
        BY <3>1, <3>2, <3>3
    <2>3. ASSUME NEW r \in Proc, np'[r] # None
          PROVE  state'[r] \in {"RUNNING", "RUNNABLE"} /\ state'[np'[r]] = "EMBRYO"
      <3>1. r # p /\ r # n /\ np'[r] = np[r] /\ np[r] \in Proc \ {n}
        BY <1>a, <2>1, <2>3
      <3> QED
        BY <1>t, <2>1, <2>3, <3>1 DEF ForkInv
    <2>4. \A r, u \in Proc : np'[r] = np'[u] /\ np'[r] # None => r = u
      BY <1>t, <2>1 DEF ForkInv
    <2> QED
      BY <2>2, <2>3, <2>4 DEF ForkInv
  <1>7. ASSUME NEW c \in CPU, NEW p \in Proc, WaitSleep(c, p) \/ SleepTicks(c, p)
        PROVE  ForkInv'
    <2>1. /\ pc[p] \in {"user", "wait", "tosleep"} /\ np' = np
          /\ state' = [state EXCEPT ![p] = "SLEEPING"]
          /\ \/ pc' = [pc EXCEPT ![p] = "wait"]
             \/ pc' = [pc EXCEPT ![p] = "woken"]
      BY <1>7 DEF WaitSleep, SleepTicks, InWait, Calls, On, GoTo
    <2>2. state[p] = "RUNNING"
      BY <1>7, StepActor DEF Actor, WaitSleep
    <2>3. \A q \in Proc : pc'[q] \in Forking <=> pc[q] \in Forking
      BY <1>a, <2>1 DEF Forking
    <2>4. np[p] = None
      BY <1>t, <2>1 DEF ForkInv, Forking
    <2>5. \A q \in Proc \ {p} : state'[q] = state[q]
      BY <1>a, <2>1
    <2> QED
      BY <1>1, <1>t, <2>1, <2>2, <2>3, <2>4, <2>5 DEF ForkInv
  <1>8. ASSUME NEW c \in CPU, Yield(c) PROVE ForkInv'
    <2>1. PICK p \in Proc : /\ cproc[c] = p /\ pc[p] \in Preemptible
                            /\ state[p] = "RUNNING"
      BY <1>8, <1>t DEF Yield, TypeOK, IntrInv, OneCPU
    <2>2. /\ state' = [state EXCEPT ![p] = "RUNNABLE"] /\ np' = np
          /\ pc' = [pc EXCEPT ![p] = Preempted(pc[p])]
      BY <1>8, <2>1 DEF Yield, GoTo
    <2>3. Preempted(pc[p]) \in Forking <=> pc[p] \in Forking
      BY <2>1, PreemptFacts DEF Forking, Preemptible, Yielded
    <2>4. \A q \in Proc : pc'[q] \in Forking <=> pc[q] \in Forking
      BY <1>a, <2>2, <2>3
    <2>5. state'[p] = "RUNNABLE" /\ \A q \in Proc \ {p} : state'[q] = state[q]
      BY <1>a, <2>2
    <2> QED
      BY <1>1, <1>t, <2>1, <2>2, <2>4, <2>5 DEF ForkInv
  <1>9. ASSUME NEW c \in CPU, NEW p \in Proc, Exit(c, p) PROVE ForkInv'
    <2>1. /\ UNCHANGED <<pc, np>> /\ pc[p] = "exit"
          /\ \A q \in Proc \ {p} : state[q] # "SLEEPING" => state'[q] = state[q]
      BY <1>9, <1>t, ExitState DEF Exit, On
    <2>2. np[p] = None /\ state[p] = "RUNNING"
      BY <1>9, <1>t, <2>1, StepActor DEF ForkInv, Forking, Actor
    <2> QED
      BY <1>1, <1>t, <2>1, <2>2 DEF ForkInv
  <1>10. ASSUME NEW c \in CPU, TickWakeup(c) PROVE ForkInv'
    BY <1>2, <1>10 DEF TickWakeup, Wakeup1
  <1>11. ASSUME NEW c \in CPU, NEW p \in Proc,
                SchedPick(c, p) \/ \E q \in Proc, k \in KillPid : Kill(c, p, q, k)
         PROVE  ForkInv'
    BY <1>2, <1>11, <1>a DEF SchedPick, Kill, KillWakes
  <1>12. ASSUME NEW c \in CPU, TrapReturn(c) PROVE ForkInv'
    <2>1. CASE cproc[c] = None
      BY <1>2, <1>12, <2>1 DEF TrapReturn
    <2>2. CASE cproc[c] # None
      <3>1. PICK p \in Proc : cproc[c] = p
        BY <1>t, <2>2 DEF TypeOK
      <3>2. /\ UNCHANGED <<state, np>> /\ pc' = [pc EXCEPT ![p] = "exit"]
            /\ pc[p] = "user"
        BY <1>12, <2>2, <3>1 DEF TrapReturn
      <3>3. \A q \in Proc : pc'[q] \in Forking <=> pc[q] \in Forking
        BY <1>a, <3>2 DEF Forking
      <3> QED
        BY <1>1, <1>t, <3>2, <3>3 DEF ForkInv
    <2> QED
      BY <2>1, <2>2
  <1>13. ASSUME NEW c \in CPU, SchedStart(c) \/ SchedEnd(c) \/ Timer(c)
         PROVE  ForkInv'
    BY <1>2, <1>13 DEF SchedStart, SchedEnd, Timer, TimerTick, TimerOther
  <1>14. CASE UNCHANGED vars
    BY <1>2, <1>14 DEF vars
  <1> QED
    BY <1>3, <1>4, <1>5, <1>6, <1>7, <1>8, <1>9, <1>10, <1>11, <1>12, <1>13,
       <1>14
    DEF Next, KernelStep, Interrupt, WaitStep, UserStep, Quiet

\* Every process keeps a parent that lives, and init its place at the root.
LEMMA TreeStep ==
    ASSUME ProcInv, [Next]_vars
    PROVE  TreeInv'
  <1>t. TypeOK /\ OneCPU /\ ForkInv /\ TreeInv
    BY DEF ProcInv
  <1>a. /\ state \in [Proc -> State] /\ parent \in [Proc -> Proc \cup {None}]
        /\ None \notin Proc /\ initproc \in Proc
    BY <1>t, ProcFacts DEF TypeOK
  <1>1. ASSUME parent' = parent,
               \A q \in Proc :
                  /\ state[q] \in Alive => state'[q] \in Alive
                  /\ state'[q] \notin {"UNUSED", "EMBRYO"}
                       => state[q] \notin {"UNUSED", "EMBRYO"}
        PROVE  TreeInv'
    <2>1. ASSUME NEW q \in Proc \ {initproc}, state'[q] \notin {"UNUSED", "EMBRYO"}
          PROVE  parent'[q] # None /\ state'[parent'[q]] \in Alive
      <3>1. parent[q] # None /\ state[parent[q]] \in Alive
        BY <1>1, <1>t, <2>1 DEF TreeInv
      <3> QED
        BY <1>1, <1>a, <3>1
    <2> QED
      BY <1>1, <1>a, <1>t, <2>1 DEF TreeInv
  <1>2. ASSUME NEW c \in CPU, NEW p \in Proc, Quiet(c, p) PROVE TreeInv'
    BY <1>1, <1>2, QuietFacts
  <1>3. ASSUME NEW c \in CPU, NEW p \in Proc, NEW q \in Proc, WaitReap(c, p, q)
        PROVE  TreeInv'
    <2>1. /\ state[q] = "ZOMBIE" /\ state'[q] = "UNUSED" /\ parent'[q] = None
          /\ \A r \in Proc \ {q} : state'[r] = state[r] /\ parent'[r] = parent[r]
      BY <1>3, ReapFacts
    <2>2. q # initproc
      BY <1>t, <2>1 DEF TreeInv, Alive
    <2>3. ASSUME NEW r \in Proc \ {initproc}, state'[r] \notin {"UNUSED", "EMBRYO"}
          PROVE  parent'[r] # None /\ state'[parent'[r]] \in Alive
      <3>1. r # q /\ parent'[r] = parent[r] /\ state'[r] = state[r]
        BY <2>1, <2>3
      <3>2. parent[r] # None /\ state[parent[r]] \in Alive
        BY <1>t, <2>3, <3>1 DEF TreeInv
      <3>3. parent[r] \in Proc /\ parent[r] # q
        BY <1>a, <2>1, <3>2 DEF Alive
      <3> QED
        BY <2>1, <3>1, <3>2, <3>3
    <2>4. state'[initproc] \in Alive /\ parent'[initproc] = None
      BY <1>a, <1>t, <2>1, <2>2 DEF TreeInv
    <2>5. \A r \in Proc : parent'[r] # r
      BY <1>a, <1>t, <2>1 DEF TreeInv
    <2> QED
      BY <2>3, <2>4, <2>5 DEF TreeInv
  <1>4. ASSUME NEW c \in CPU, NEW p \in Proc, NEW q \in Proc, ForkAlloc(c, p, q)
        PROVE  TreeInv'
    <2>1. /\ state[q] = "UNUSED" /\ state'[q] = "EMBRYO" /\ parent' = parent
          /\ \A r \in Proc \ {q} : state'[r] = state[r]
      BY <1>4, AllocFacts
    <2> QED
      BY <1>1, <2>1 DEF Alive
  <1>5. ASSUME NEW c \in CPU, NEW p \in Proc, ForkEnd(c, p) PROVE TreeInv'
    <2>1. PICK n \in Proc :
             /\ n # p /\ state[n] = "EMBRYO" /\ state[p] = "RUNNING"
             /\ \/ state'[n] = "UNUSED"
                \/ state'[n] = "RUNNABLE" /\ parent'[n] = p
             /\ parent'[n] \in {parent[n], p}
             /\ \A q \in Proc \ {n} : state'[q] = state[q] /\ parent'[q] = parent[q]
      BY <1>5, ForkEndFacts DEF Actor
    <2>2. n # initproc
      BY <1>t, <2>1 DEF TreeInv, Alive
    <2>3. ASSUME NEW r \in Proc \ {initproc}, state'[r] \notin {"UNUSED", "EMBRYO"}
          PROVE  parent'[r] # None /\ state'[parent'[r]] \in Alive
      <3>1. CASE r = n
        BY <1>a, <2>1, <2>3, <3>1 DEF Alive
      <3>2. CASE r # n
        <4>1. parent[r] # None /\ state[parent[r]] \in Alive /\ parent'[r] = parent[r]
          BY <1>t, <2>1, <2>3, <3>2 DEF TreeInv
        <4>2. parent[r] \in Proc /\ parent[r] # n
          BY <1>a, <2>1, <4>1 DEF Alive
        <4> QED
          BY <2>1, <4>1, <4>2
      <3> QED
        BY <3>1, <3>2
    <2>4. state'[initproc] \in Alive /\ parent'[initproc] = None
      BY <1>a, <1>t, <2>1, <2>2 DEF TreeInv
    <2>5. \A r \in Proc : parent'[r] # r
      BY <1>t, <2>1 DEF TreeInv
    <2> QED
      BY <2>3, <2>4, <2>5 DEF TreeInv
  <1>6. ASSUME NEW c \in CPU, NEW p \in Proc, Exit(c, p) PROVE TreeInv'
    <2>1. /\ p # initproc /\ state[p] = "RUNNING"
          /\ \A q \in Proc : parent'[q] = IF parent[q] = p THEN initproc ELSE parent[q]
      BY <1>6, StepActor DEF Exit, Reparent, Actor
    <2>2. \A q \in Proc \ {p} :
             /\ state[q] \in Alive => state'[q] \in Alive
             /\ state'[q] \notin {"UNUSED", "EMBRYO"}
                  => state[q] \notin {"UNUSED", "EMBRYO"}
      BY <1>6, <1>t, ExitState DEF Alive
    <2>3. state'[initproc] \in Alive /\ parent'[initproc] = None
      BY <1>a, <1>t, <2>1, <2>2 DEF TreeInv
    <2>4. ASSUME NEW r \in Proc \ {initproc}, state'[r] \notin {"UNUSED", "EMBRYO"}
          PROVE  parent'[r] # None /\ state'[parent'[r]] \in Alive
      <3>1. state[r] \notin {"UNUSED", "EMBRYO"}
        BY <2>1, <2>2, <2>4
      <3>2. parent[r] # None /\ state[parent[r]] \in Alive /\ parent[r] \in Proc
        BY <1>a, <1>t, <3>1 DEF TreeInv
      <3>3. CASE parent[r] = p
        BY <1>a, <2>1, <2>3, <3>3
      <3>4. CASE parent[r] # p
        BY <2>1, <2>2, <3>2, <3>4
      <3> QED
        BY <3>3, <3>4
    <2>5. \A r \in Proc : parent'[r] # r
      BY <1>a, <1>t, <2>1 DEF TreeInv
    <2> QED
      BY <2>3, <2>4, <2>5 DEF TreeInv
  <1>7. ASSUME NEW c \in CPU, NEW p \in Proc, WaitSleep(c, p) \/ SleepTicks(c, p)
        PROVE  TreeInv'
    <2>1. /\ state' = [state EXCEPT ![p] = "SLEEPING"] /\ parent' = parent
          /\ state[p] = "RUNNING"
      BY <1>7, StepActor DEF WaitSleep, SleepTicks, Actor
    <2> QED
      BY <1>1, <1>a, <2>1 DEF Alive
  <1>8. ASSUME NEW c \in CPU, Yield(c) PROVE TreeInv'
    <2>1. PICK p \in Proc : cproc[c] = p /\ state[p] = "RUNNING"
      BY <1>8, <1>t DEF Yield, TypeOK, OneCPU
    <2>2. state' = [state EXCEPT ![p] = "RUNNABLE"] /\ parent' = parent
      BY <1>8, <2>1 DEF Yield
    <2> QED
      BY <1>1, <1>a, <2>1, <2>2 DEF Alive
  <1>9. ASSUME NEW c \in CPU, TickWakeup(c) PROVE TreeInv'
    BY <1>1, <1>9 DEF TickWakeup, Wakeup1, Alive
  <1>10. ASSUME NEW c \in CPU, NEW p \in Proc,
                SchedPick(c, p) \/ \E q \in Proc, k \in KillPid : Kill(c, p, q, k)
         PROVE  TreeInv'
    BY <1>1, <1>10, <1>a DEF SchedPick, Kill, KillWakes, Alive
  <1>11. ASSUME NEW c \in CPU,
                SchedStart(c) \/ SchedEnd(c) \/ Timer(c) \/ TrapReturn(c)
         PROVE  TreeInv'
    BY <1>1, <1>11
    DEF SchedStart, SchedEnd, Timer, TimerTick, TimerOther, TrapReturn
  <1>12. CASE UNCHANGED vars
    BY <1>1, <1>12 DEF vars
  <1> QED
    BY <1>2, <1>3, <1>4, <1>5, <1>6, <1>7, <1>8, <1>9, <1>10, <1>11, <1>12
    DEF Next, KernelStep, Interrupt, WaitStep, UserStep, Quiet

\* wait's sleeper is woken by the exit of a child, by a zombie that it
\* inherits and by kill.
LEMMA WakeStep ==
    ASSUME ProcInv, [Next]_vars
    PROVE  NoLostWakeup'
  <1>t. TypeOK /\ OneCPU /\ TreeInv /\ NoLostWakeup
    BY DEF ProcInv
  <1>a. /\ state \in [Proc -> State] /\ parent \in [Proc -> Proc \cup {None}]
        /\ chan \in [Proc -> Proc \cup {None, TICKS}]
        /\ None \notin Proc /\ TICKS \notin Proc /\ initproc \in Proc
    BY <1>t, ProcFacts DEF TypeOK
  <1>b. killed \in [Proc -> BOOLEAN]
    BY <1>t DEF TypeOK
  <1>c. \A p \in Proc : state[p] = "SLEEPING" /\ chan[p] = p
           => ~killed[p] /\ \A q \in Proc : parent[q] = p => state[q] # "ZOMBIE"
    BY <1>t DEF NoLostWakeup, Zombies, Kids
  <1>d. ASSUME \A p \in Proc : state'[p] = "SLEEPING" /\ chan'[p] = p
                  => /\ ~killed'[p]
                     /\ \A q \in Proc : parent'[q] = p => state'[q] # "ZOMBIE"
        PROVE  NoLostWakeup'
    BY <1>d DEF NoLostWakeup, Zombies, Kids
  <1>1. ASSUME \A q \in Proc :
                  /\ state'[q] = "SLEEPING"
                       => /\ state[q] = "SLEEPING" /\ chan'[q] = chan[q]
                          /\ killed'[q] = killed[q]
                  /\ state'[q] = "ZOMBIE"
                       => state[q] = "ZOMBIE" /\ parent'[q] = parent[q]
        PROVE  NoLostWakeup'
    BY <1>1, <1>c, <1>d
  <1>2. ASSUME NEW c \in CPU, NEW p \in Proc, Quiet(c, p) PROVE NoLostWakeup'
    <2>1. /\ UNCHANGED <<state, parent, killed>> /\ state[p] = "RUNNING"
          /\ \A q \in Proc \ {p} : chan'[q] = chan[q]
      BY <1>2, QuietFacts DEF Actor
    <2> QED
      BY <1>1, <2>1
  <1>3. ASSUME NEW c \in CPU, NEW p \in Proc, NEW q \in Proc, WaitReap(c, p, q)
        PROVE  NoLostWakeup'
    <2>1. /\ state[p] = "RUNNING" /\ state'[q] = "UNUSED" /\ p # q
          /\ \A r \in Proc \ {q} : state'[r] = state[r] /\ parent'[r] = parent[r]
          /\ \A r \in Proc \ {p} : chan'[r] = chan[r]
          /\ \A r \in Proc \ {q} : killed'[r] = killed[r]
      BY <1>3, ReapFacts DEF Actor
    <2> QED
      BY <1>1, <2>1
  <1>4. ASSUME NEW c \in CPU, NEW p \in Proc, NEW q \in Proc, ForkAlloc(c, p, q)
        PROVE  NoLostWakeup'
    <2>1. /\ state'[q] = "EMBRYO" /\ UNCHANGED <<parent, killed, chan>>
          /\ \A r \in Proc \ {q} : state'[r] = state[r]
      BY <1>4, AllocFacts
    <2> QED
      BY <1>1, <2>1
  <1>5. ASSUME NEW c \in CPU, NEW p \in Proc, ForkEnd(c, p) PROVE NoLostWakeup'
    <2>1. PICK n \in Proc :
             /\ state'[n] \in {"UNUSED", "RUNNABLE"} /\ UNCHANGED <<killed, chan>>
             /\ \A q \in Proc \ {n} : state'[q] = state[q] /\ parent'[q] = parent[q]
      BY <1>5, ForkEndFacts
    <2> QED
      BY <1>1, <2>1
  <1>6. ASSUME NEW c \in CPU, NEW p \in Proc, Exit(c, p) PROVE NoLostWakeup'
    <2>1. /\ p # initproc /\ state[p] = "RUNNING" /\ UNCHANGED <<killed, chan>>
          /\ \A q \in Proc : parent'[q] = IF parent[q] = p THEN initproc ELSE parent[q]
      BY <1>6, StepActor DEF Exit, Reparent, Actor
    <2>2. /\ state'[p] = "ZOMBIE"
          /\ \A q \in Proc \ {p} :
                /\ state'[q] = "SLEEPING" => state[q] = "SLEEPING"
                /\ state'[q] = "ZOMBIE" => state[q] = "ZOMBIE"
                /\ chan[q] = parent[p] => state'[q] # "SLEEPING"
                /\ /\ \E r \in Proc : parent[r] = p /\ state[r] = "ZOMBIE"
                   /\ chan[q] = initproc
                   => state'[q] # "SLEEPING"
      BY <1>6, <1>t, <1>a, ExitState DEF State
    <2>3. parent[p] # p
      BY <1>t DEF TreeInv
    <2>4. ASSUME NEW r \in Proc, state'[r] = "SLEEPING", chan'[r] = r
          PROVE  ~killed'[r]
      BY <1>c, <2>1, <2>2, <2>4
    <2>5. ASSUME NEW r \in Proc, state'[r] = "SLEEPING", chan'[r] = r,
                 NEW q \in Proc, parent'[q] = r
          PROVE  state'[q] # "ZOMBIE"
      <3>0. r # p /\ state[r] = "SLEEPING" /\ chan[r] = r
        BY <2>1, <2>2, <2>5
      <3>1. CASE q = p
        BY <2>1, <2>2, <2>3, <2>5, <3>0, <3>1
      <3>2. CASE q # p /\ parent[q] = p
        BY <2>1, <2>2, <2>5, <3>0, <3>2
      <3>3. CASE q # p /\ parent[q] # p
        BY <1>c, <2>1, <2>2, <2>5, <3>0, <3>3
      <3> QED
        BY <3>1, <3>2, <3>3
    <2> QED
      BY <1>d, <2>4, <2>5
  <1>7. ASSUME NEW c \in CPU, NEW p \in Proc, WaitSleep(c, p) PROVE NoLostWakeup'
    <2>1. /\ state' = [state EXCEPT ![p] = "SLEEPING"]
          /\ chan' = [chan EXCEPT ![p] = p] /\ UNCHANGED <<parent, killed>>
          /\ Zombies(p) = {} /\ ~killed[p]
      BY <1>7 DEF WaitSleep
    <2>2. \A q \in Proc : parent[q] = p => state[q] # "ZOMBIE"
      BY <2>1 DEF Zombies, Kids
    <2>3. /\ state'[p] = "SLEEPING"
          /\ \A q \in Proc \ {p} : state'[q] = state[q] /\ chan'[q] = chan[q]
      BY <1>a, <2>1
    <2>4. ASSUME NEW r \in Proc, state'[r] = "SLEEPING", chan'[r] = r
          PROVE  ~killed'[r]
      <3>1. CASE r = p
        BY <2>1, <3>1
      <3>2. CASE r # p
        BY <1>c, <2>1, <2>3, <2>4, <3>2
      <3> QED
        BY <3>1, <3>2
    <2>5. ASSUME NEW r \in Proc, state'[r] = "SLEEPING", chan'[r] = r,
                 NEW q \in Proc, parent'[q] = r
          PROVE  state'[q] # "ZOMBIE"
      <3>1. state[q] # "ZOMBIE"
        BY <1>c, <2>1, <2>2, <2>3, <2>5
      <3> QED
        BY <2>3, <3>1
    <2> QED
      BY <1>d, <2>4, <2>5
  <1>8. ASSUME NEW c \in CPU, NEW p \in Proc, SleepTicks(c, p) PROVE NoLostWakeup'
    <2>1. /\ state' = [state EXCEPT ![p] = "SLEEPING"]
          /\ chan' = [chan EXCEPT ![p] = TICKS] /\ UNCHANGED <<parent, killed>>
      BY <1>8 DEF SleepTicks
    <2>2. /\ state'[p] = "SLEEPING" /\ chan'[p] # p
          /\ \A q \in Proc \ {p} : state'[q] = state[q] /\ chan'[q] = chan[q]
      BY <1>a, <2>1
    <2>3. ASSUME NEW r \in Proc, state'[r] = "SLEEPING", chan'[r] = r
          PROVE  /\ ~killed'[r]
                 /\ \A q \in Proc : parent'[q] = r => state'[q] # "ZOMBIE"
      BY <1>c, <2>1, <2>2, <2>3
    <2> QED
      BY <1>d, <2>3
  <1>9. ASSUME NEW c \in CPU, NEW p \in Proc, NEW q \in Proc, NEW k \in KillPid,
               Kill(c, p, q, k)
        PROVE  NoLostWakeup'
    <2>1. /\ UNCHANGED <<parent, chan>> /\ state'[q] # "SLEEPING"
          /\ state'[q] = "ZOMBIE" => state[q] = "ZOMBIE"
          /\ \A r \in Proc \ {q} : state'[r] = state[r]
      BY <1>9, <1>a DEF Kill, KillWakes
    <2>2. \A r \in Proc \ {q} : killed'[r] = killed[r]
      BY <1>9, <1>b DEF Kill
    <2> QED
      BY <1>1, <2>1, <2>2
  <1>10. ASSUME NEW c \in CPU, TickWakeup(c) PROVE NoLostWakeup'
    <2>1. /\ UNCHANGED <<parent, chan, killed>>
          /\ \A q \in Proc : /\ state'[q] = "SLEEPING" => state[q] = "SLEEPING"
                             /\ state'[q] = "ZOMBIE" => state[q] = "ZOMBIE"
      BY <1>10 DEF TickWakeup, Wakeup1
    <2> QED
      BY <1>1, <2>1
  <1>11. ASSUME NEW c \in CPU, Yield(c) \/ \E p \in Proc : SchedPick(c, p)
         PROVE  NoLostWakeup'
    <2>1. PICK p \in Proc : \/ state' = [state EXCEPT ![p] = "RUNNABLE"]
                            \/ state' = [state EXCEPT ![p] = "RUNNING"]
      BY <1>11, <1>t DEF Yield, SchedPick, TypeOK
    <2>2. UNCHANGED <<parent, chan, killed>>
      BY <1>11 DEF Yield, SchedPick
    <2>3. \A q \in Proc : /\ state'[q] = "SLEEPING" => state[q] = "SLEEPING"
                          /\ state'[q] = "ZOMBIE" => state[q] = "ZOMBIE"
      BY <1>a, <2>1
    <2> QED
      BY <1>1, <2>2, <2>3
  <1>12. ASSUME NEW c \in CPU,
                SchedStart(c) \/ SchedEnd(c) \/ Timer(c) \/ TrapReturn(c)
         PROVE  NoLostWakeup'
    <2>1. UNCHANGED <<state, parent, chan, killed>>
      BY <1>12
      DEF SchedStart, SchedEnd, Timer, TimerTick, TimerOther, TrapReturn
    <2> QED
      BY <1>1, <2>1
  <1>13. CASE UNCHANGED vars
    BY <1>1, <1>13 DEF vars
  <1> QED
    BY <1>2, <1>3, <1>4, <1>5, <1>6, <1>7, <1>8, <1>9, <1>10, <1>11, <1>12,
       <1>13
    DEF Next, KernelStep, Interrupt, WaitStep, UserStep, Quiet

(***************************************************************************)
(* The invariant and the theorems                                          *)
(***************************************************************************)

\* The invariant holds when init is the only process.
LEMMA ProcInit == Init => ProcInv
  <1> SUFFICES ASSUME Init PROVE ProcInv
    OBVIOUS
  <1>a. /\ initproc \in Proc /\ None \notin Proc /\ None \notin CPU
        /\ TICKS \notin Proc
    BY ProcFacts
  <1>1. TypeOK
    <2>1. pid \in [Proc -> 0 .. MaxPid] /\ nextpid \in 1 .. MaxPid + 1
      BY ProcFacts DEF Init
    <2>2. left \in [Proc -> 0 .. MaxSleep] /\ scan \in [CPU -> 0 .. NPROC + 1]
      BY ProcFacts DEF Init
    <2>3. killed \in [Proc -> BOOLEAN]
      BY DEF Init
    <2>4. state \in [Proc -> State] /\ pc \in [Proc -> PC]
      BY DEF Init, State, PC
    <2> QED
      BY <2>1, <2>2, <2>3, <2>4 DEF Init, TypeOK
  <1>2. OneCPU /\ LockHandoff /\ IntrInv
    BY <1>a DEF Init, OneCPU, LockHandoff, IntrInv
  <1>3. Parked
    BY <1>a DEF Init, Parked, AfterSched, Yielded
  <1>4. ForkInv
    BY <1>a DEF Init, ForkInv, Forking
  <1>5. TreeInv
    BY <1>a DEF Init, TreeInv, Alive
  <1>6. NoLostWakeup
    BY <1>a DEF Init, NoLostWakeup
  <1> QED
    BY <1>1, <1>2, <1>3, <1>4, <1>5, <1>6 DEF ProcInv

\* Every step keeps the invariant.
LEMMA ProcStep == ProcInv /\ [Next]_vars => ProcInv'
  BY TypeStep, RunStep, LockStep, ParkedStep, IntrStep, ForkStep, TreeStep,
     WakeStep
  DEF ProcInv

\* The invariant holds throughout.
LEMMA ProcInvariance == Spec => []ProcInv
  BY ProcInit, ProcStep, PTL DEF Spec

\* The slots and the CPUs agree on who runs where and who has ptable.lock, and
\* every process that was forked has a parent that lives, whichever exits
\* first.
THEOREM ProcSafe == Spec => []ProcSound
  <1>1. ProcInv => ProcSound
    BY DEF ProcInv, TreeInv, Alive, ProcSound, ParentAlive
  <1> QED
    BY <1>1, ProcInvariance, PTL

\* Who sleeps in wait has no zombie child and has not been killed.
THEOREM ProcWakeups == Spec => []NoLostWakeup
  <1>1. ProcInv => NoLostWakeup
    BY DEF ProcInv
  <1> QED
    BY <1>1, ProcInvariance, PTL
=============================================================================
