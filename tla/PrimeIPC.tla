------------------------------ MODULE PrimeIPC ------------------------------
(***************************************************************************)
(* The three programs of the demonstration (primestart, primecom,          *)
(* primecalc) on the memory they share, and the part of sys_get_shared     *)
(* that is not the table search: the kernel-wide flag "primecom" that      *)
(* every call reads and writes without a lock.                             *)
(*                                                                         *)
(* A step is one access to shared memory, or one access to the flag.       *)
(* Both children run at once (two CPUs, and timer interrupts reach system  *)
(* calls).  Candidates above MaxI count as composite, so that primecalc's  *)
(* loop goes on for ever over a finite state.                              *)
(***************************************************************************)
EXTENDS Integers

CONSTANTS
    MaxI,   \* bound: primecalc finds primes up to MaxI
    NIZ     \* ints that fit in the pages mapped for "niz"

ASSUME PrimeAssumption == MaxI \in Nat /\ MaxI >= 2 /\ NIZ \in Nat \ {0}

VARIABLES
    niz, idx, kom,  \* the shared regions "niz", "index" and "komanda"
    flag,           \* static int primecom of sys_get_shared
    panicked,       \* the kernel called panic()
    calc,           \* primecalc: pc, in (inside get_shared), i, n
    com,            \* primecom: pc, in, cmd (command), arg, k (index it read)
    start,          \* primestart: how many children wait() returned; 3 = exited
    out,            \* what primecom printed last
    base,           \* history: primes published when the command was read
    late            \* history: primes stored since the last pause

vars == <<niz, idx, kom, flag, panicked, calc, com, start, out, base, late>>

Cmd == {"latest", "prime", "resume", "pause", "end"}
Unset == 0                       \* primestart's malloc'ed array is zeroed
NoOut == [what |-> "nothing", val |-> 0]
Junk == MaxI + 1                 \* the int before the array: malloc's header

CalcPC == {"test", "niz", "index", "store", "publish", "komanda", "read",
           "sleep", "komanda2", "read2", "exited"}
ComPC == {"gets", "index", "niz", "readidx", "readniz", "komanda", "write",
          "exited"}

CalcState == [pc : CalcPC, in : BOOLEAN, i : 2 .. MaxI + 1, n : 0 .. NIZ]
ComState == [pc : ComPC, in : BOOLEAN, cmd : Cmd, arg : 0 .. NIZ + 1,
             k : 0 .. NIZ - 1]
Output == [what : {"nothing", "latest", "prime", "error"}, val : Nat]

TypeOK ==
    /\ niz \in [0 .. NIZ - 1 -> 0 .. MaxI]
    /\ idx \in 0 .. NIZ - 1
    /\ kom \in {0, 3, 4, 5}
    /\ flag \in {0, 1}
    /\ panicked \in BOOLEAN
    /\ calc \in CalcState /\ com \in ComState
    /\ start \in 0 .. 3
    /\ out \in Output
    /\ base \in 0 .. NIZ
    /\ late \in 0 .. NIZ

(***************************************************************************)
(* sys_get_shared.  primecom's call raises the flag and every call lowers  *)
(* it when it leaves.  When primecalc finds it raised it calls sleep with  *)
(* &curproc->parent for a lock; release() finds it not held and panics.    *)
(***************************************************************************)
ComEnter ==
    /\ ~panicked /\ com.pc \in {"index", "niz", "komanda"} /\ ~com.in
    /\ flag' = 1
    /\ com' = [com EXCEPT !.in = TRUE]
    /\ UNCHANGED <<niz, idx, kom, panicked, calc, start, out, base, late>>

AfterCom(pc) ==
    CASE pc = "index" -> "niz" [] pc = "niz" -> "readidx"
      [] pc = "komanda" -> "write"

ComLeave ==
    /\ ~panicked /\ com.in
    /\ flag' = 0
    /\ com' = [com EXCEPT !.in = FALSE, !.pc = AfterCom(@)]
    /\ UNCHANGED <<niz, idx, kom, panicked, calc, start, out, base, late>>

CalcEnter ==
    /\ ~panicked /\ ~calc.in
    /\ calc.pc \in {"niz", "index", "komanda", "komanda2"}
    /\ IF flag = 1 THEN panicked' = TRUE /\ UNCHANGED calc
       ELSE calc' = [calc EXCEPT !.in = TRUE] /\ UNCHANGED panicked
    /\ UNCHANGED <<niz, idx, kom, flag, com, start, out, base, late>>

AfterCalc(pc) ==
    CASE pc = "niz" -> "index" [] pc = "index" -> "store"
      [] pc = "komanda" -> "read" [] pc = "komanda2" -> "read2"

CalcLeave ==
    /\ ~panicked /\ calc.in
    /\ flag' = 0
    /\ calc' = [calc EXCEPT !.in = FALSE, !.pc = AfterCalc(@)]
    /\ UNCHANGED <<niz, idx, kom, panicked, com, start, out, base, late>>

(***************************************************************************)
(* primecalc                                                               *)
(***************************************************************************)
\* The test of the inner loop: j from 2 while j < i / 2.
IsPrime(i) == \A j \in 2 .. MaxI : j < i \div 2 => i % j # 0

CalcTest ==
    /\ ~panicked /\ calc.pc = "test"
    /\ calc' = [calc EXCEPT
                  !.pc = IF calc.i <= MaxI /\ IsPrime(calc.i) THEN "niz"
                         ELSE "komanda"]
    /\ UNCHANGED <<niz, idx, kom, flag, panicked, com, start, out, base, late>>

\* Mutant: the prime goes to the element that *idx points to.
CalcStoreOver ==
    /\ ~panicked /\ calc.pc = "store"
    /\ IF calc.n < NIZ
       THEN /\ niz' = [niz EXCEPT ![idx] = calc.i]
            /\ calc' = [calc EXCEPT !.pc = "publish"]
            /\ late' = IF kom = 4 THEN late + 1 ELSE late
       ELSE /\ calc' = [calc EXCEPT !.pc = "exited"]
            /\ UNCHANGED <<niz, late>>
    /\ UNCHANGED <<idx, kom, flag, panicked, com, start, out, base>>

\* niz[n] = i.  Past the pages of the region it faults, and trap() kills it.
CalcStore ==
    /\ ~panicked /\ calc.pc = "store"
    /\ IF calc.n < NIZ
       THEN /\ niz' = [niz EXCEPT ![calc.n] = calc.i]
            /\ calc' = [calc EXCEPT !.pc = "publish"]
            /\ late' = IF kom = 4 THEN late + 1 ELSE late
       ELSE /\ calc' = [calc EXCEPT !.pc = "exited"]
            /\ UNCHANGED <<niz, late>>
    /\ UNCHANGED <<idx, kom, flag, panicked, com, start, out, base>>

\* *idx = n; n++
CalcPublish ==
    /\ ~panicked /\ calc.pc = "publish"
    /\ idx' = calc.n
    /\ calc' = [calc EXCEPT !.pc = "komanda", !.n = @ + 1]
    /\ UNCHANGED <<niz, kom, flag, panicked, com, start, out, base, late>>

NextI == IF calc.i <= MaxI THEN calc.i + 1 ELSE calc.i

\* Mutant: the pause command is not looked at.
HeardRunningOn(k) == IF k = 5 THEN "exited" ELSE "test"

\* Mutant: the pause loop looks for "resume" only.
HeardPausedDeaf(k) == IF k = 3 THEN "test" ELSE "sleep"

\* What the main loop and the pause loop do on a command.
HeardRunning(k) == CASE k = 4 -> "sleep" [] k = 5 -> "exited" [] OTHER -> "test"
HeardPaused(k) == CASE k = 3 -> "test" [] k = 5 -> "exited" [] OTHER -> "sleep"

Obey(at) == calc' = [calc EXCEPT !.pc = at,
                                 !.i = IF at = "test" THEN NextI ELSE @]

CalcRead ==
    /\ ~panicked /\ calc.pc = "read"
    /\ Obey(HeardRunning(kom))
    /\ UNCHANGED <<niz, idx, kom, flag, panicked, com, start, out, base, late>>

\* The pause loop: sleep(1), then look at the command again.
CalcSleep ==
    /\ ~panicked /\ calc.pc = "sleep"
    /\ calc' = [calc EXCEPT !.pc = "komanda2"]
    /\ UNCHANGED <<niz, idx, kom, flag, panicked, com, start, out, base, late>>

CalcRead2 ==
    /\ ~panicked /\ calc.pc = "read2"
    /\ Obey(HeardPaused(kom))
    /\ UNCHANGED <<niz, idx, kom, flag, panicked, com, start, out, base, late>>

(***************************************************************************)
(* primecom                                                                *)
(***************************************************************************)
ComGets(c, a) ==
    /\ ~panicked /\ com.pc = "gets"
    /\ com' = [com EXCEPT !.pc = IF c \in {"latest", "prime"} THEN "index"
                                 ELSE "komanda",
                          !.cmd = c, !.arg = a]
    /\ base' = calc.n
    /\ out' = NoOut
    /\ UNCHANGED <<niz, idx, kom, flag, panicked, calc, start, late>>

\* Mutant: primecom asks again until the n-th prime is there.
ComReadIdxRetry ==
    /\ ~panicked /\ com.pc = "readidx"
    /\ IF com.cmd = "prime" /\ com.arg > idx
       THEN /\ out' = [what |-> "error", val |-> com.arg]
            /\ com' = [com EXCEPT !.pc = "index"]
       ELSE /\ com' = [com EXCEPT !.pc = "readniz", !.k = idx]
            /\ UNCHANGED out
    /\ UNCHANGED <<niz, idx, kom, flag, panicked, calc, start, base, late>>

\* One load of *idx serves the whole printf or comparison.
ComReadIdx ==
    /\ ~panicked /\ com.pc = "readidx"
    /\ IF com.cmd = "prime" /\ com.arg > idx
       THEN /\ out' = [what |-> "error", val |-> com.arg]
            /\ com' = [com EXCEPT !.pc = "gets"]
       ELSE /\ com' = [com EXCEPT !.pc = "readniz", !.k = idx]
            /\ UNCHANGED out
    /\ UNCHANGED <<niz, idx, kom, flag, panicked, calc, start, base, late>>

\* niz[k - 1]; for k = 0 it is the word before the array.
NizBefore(k) == IF k = 0 THEN Junk ELSE niz[k - 1]

ComReadNiz ==
    /\ ~panicked /\ com.pc = "readniz"
    /\ out' = [what |-> com.cmd,
               val |-> NizBefore(IF com.cmd = "latest" THEN com.k ELSE com.arg)]
    /\ com' = [com EXCEPT !.pc = "gets"]
    /\ UNCHANGED <<niz, idx, kom, flag, panicked, calc, start, base, late>>

Code(c) == CASE c = "resume" -> 3 [] c = "pause" -> 4 [] c = "end" -> 5

ComWrite ==
    /\ ~panicked /\ com.pc = "write"
    /\ kom' = Code(com.cmd)
    /\ com' = [com EXCEPT !.pc = IF com.cmd = "end" THEN "exited" ELSE "gets"]
    /\ late' = 0
    /\ UNCHANGED <<niz, idx, flag, panicked, calc, start, out, base>>

(***************************************************************************)
(* primestart: two calls of wait(), then exit                              *)
(***************************************************************************)
Exited == (IF calc.pc = "exited" THEN 1 ELSE 0)
          + (IF com.pc = "exited" THEN 1 ELSE 0)

StartWait ==
    /\ ~panicked /\ start < 2 /\ start < Exited
    /\ start' = start + 1
    /\ UNCHANGED <<niz, idx, kom, flag, panicked, calc, com, out, base, late>>

StartExit ==
    /\ ~panicked /\ start = 2
    /\ start' = 3
    /\ UNCHANGED <<niz, idx, kom, flag, panicked, calc, com, out, base, late>>

Init ==
    /\ niz = [k \in 0 .. NIZ - 1 |-> Unset]
    /\ idx = 0 /\ kom = 0 /\ flag = 0
    /\ panicked = FALSE
    /\ calc = [pc |-> "test", in |-> FALSE, i |-> 2, n |-> 0]
    /\ com = [pc |-> "gets", in |-> FALSE, cmd |-> "latest", arg |-> 0,
              k |-> 0]
    /\ start = 0 /\ out = NoOut /\ base = 0 /\ late = 0

CalcNext == CalcEnter \/ CalcLeave \/ CalcTest \/ CalcStore \/ CalcPublish
            \/ CalcRead \/ CalcSleep \/ CalcRead2
ComNext == ComEnter \/ ComLeave \/ ComReadIdx \/ ComReadNiz \/ ComWrite
StartNext == StartWait \/ StartExit

Next ==
    \/ CalcNext \/ ComNext \/ StartNext
    \/ \E c \in Cmd, a \in 0 .. NIZ + 1 : (c # "prime" => a = 0) /\ ComGets(c, a)

\* xv6's scheduler runs every RUNNABLE process again and again; nothing makes
\* the user type a command.
Fairness == WF_vars(CalcNext) /\ WF_vars(ComNext) /\ WF_vars(StartNext)

Spec == Init /\ [][Next]_vars /\ Fairness

(***************************************************************************)
(* Properties                                                              *)
(***************************************************************************)

\* The index is published after the prime it points to: whatever primecom
\* reads at or below *idx has been written, at every interleaving.
PublishedWritten ==
    calc.n > 0 => \A k \in 0 .. idx : niz[k] # Unset

\* What a reader found once stays: *idx never moves back and a published
\* element of the array is never overwritten.
PublishedStable ==
    [][calc.n > 0 => /\ idx' >= idx
                     /\ \A k \in 0 .. idx : niz'[k] = niz[k]]_vars

\* A pause takes effect: after primecom wrote it primecalc stores at most the
\* one prime whose test was already behind it.
PauseHonoured == late <= 1

\* Publication order and pause, without a lock, at every interleaving.
PrimeSound == TypeOK /\ PublishedWritten /\ PauseHonoured

\* "end" reaches primecalc even when it is paused: once primecom has ended,
\* primecalc ends, and primestart collects both and exits.
EndReachesAll == com.pc = "exited" ~> start = 3

\* Every command that was typed is finished, unless the kernel panics.
CommandFinishes == com.pc # "gets" ~> (com.pc \in {"gets", "exited"} \/ panicked)

\* README: "latest: Prints the most recently calculated prime number": one
\* at least as recent as the last prime published when it was typed.
LatestIsLatest ==
    out.what = "latest" /\ base > 0
    => \E k \in base - 1 .. NIZ - 1 : niz[k] # Unset /\ out.val = niz[k]

\* README: "If the n-th prime is not yet calculated, an error message is
\* displayed": no error for one calculated before the command was typed.
NoFalseError == out.what = "error" => out.val > base

\* README: primecalc "calculates prime numbers": all it stores are prime.
AllPrime ==
    \A k \in 0 .. NIZ - 1 : niz[k] # Unset
        => \A j \in 2 .. niz[k] - 1 : niz[k] % j # 0

\* sleep "atomically releases lock" (proc.c), so its caller holds one:
\* get_shared never makes release() panic.
NoReleasePanic == ~panicked
=============================================================================
