------------------------------ MODULE Console ------------------------------
(***************************************************************************)
(* The console's input: consoleintr edits the line in a ring buffer, and   *)
(* consoleread takes characters out of it, both under cons.lock.           *)
(*                                                                         *)
(* A step is one character: the handler's loop may let go of the lock      *)
(* between two of them, which another interrupt would allow as well.  The  *)
(* test of killed and the call of sleep are two steps, since kill does not *)
(* take cons.lock.  r, w and e are uints; Wrap stands for 2^32.            *)
(***************************************************************************)
EXTENDS Integers, Sequences

CONSTANTS
    Proc,        \* processes that read from the console
    NoProc,      \* nobody
    Char,        \* characters that can be typed, NL and EOT among them
    NL, EOT,     \* '\n', which '\r' becomes, and C('D')
    INPUT_BUF,
    Wrap,        \* where the indices wrap
    MaxCount     \* bound: characters that one read asks for

ASSUME ConsoleAssumption ==
    /\ NoProc \notin Proc /\ {NL, EOT} \subseteq Char
    /\ INPUT_BUF \in Nat \ {0} /\ MaxCount \in Nat
    /\ Wrap \in Nat /\ Wrap >= 2 * INPUT_BUF /\ Wrap % INPUT_BUF = 0

VARIABLES
    buf, r, w, e,   \* input
    lock,           \* the reader that holds cons.lock
    pc,             \* idle, lock (wants the lock), read, tested, sleep
    n, target,      \* locals of consoleread
    killed

vars == <<buf, r, w, e, lock, pc, n, target, killed>>

PC == {"idle", "lock", "read", "tested", "sleep"}

TypeOK ==
    /\ buf \in [0 .. INPUT_BUF - 1 -> Char]
    /\ {r, w, e} \subseteq 0 .. Wrap - 1
    /\ lock \in Proc \cup {NoProc}
    /\ pc \in [Proc -> PC]
    /\ n \in [Proc -> 0 .. MaxCount] /\ target \in [Proc -> 0 .. MaxCount]
    /\ killed \in [Proc -> BOOLEAN]

\* Arithmetic of uints.
Plus(a, k) == (a + k) % Wrap
Dist(a, b) == (b - a) % Wrap

At(a) == buf[a % INPUT_BUF]

(***************************************************************************)
(* consoleintr                                                             *)
(***************************************************************************)
\* Mutant: one reader is woken.
WakeupOne(f) ==
    LET S == {p \in Proc : f[p] = "sleep"}
    IN  IF S = {} THEN f ELSE [f EXCEPT ![CHOOSE p \in S : TRUE] = "lock"]

\* wakeup(&input.r)
Wakeup(f) == [p \in Proc |-> IF f[p] = "sleep" THEN "lock" ELSE f[p]]

\* c ends the line, or the buffer is full.
Complete(c, last) == c \in {NL, EOT} \/ last = Plus(r, INPUT_BUF)

\* Mutant: the room that is left is counted from w.
HasRoomW == Dist(w, e) < INPUT_BUF

HasRoom == Dist(r, e) < INPUT_BUF

\* An ordinary character; it is dropped when the buffer is full.
Intr(c) ==
    /\ lock = NoProc
    /\ HasRoom
    /\ buf' = [buf EXCEPT ![e % INPUT_BUF] = c]
    /\ e' = Plus(e, 1)
    /\ IF Complete(c, e')
       THEN w' = e' /\ pc' = Wakeup(pc)
       ELSE UNCHANGED <<w, pc>>
    /\ UNCHANGED <<r, lock, n, target, killed>>

Backspace ==
    /\ lock = NoProc
    /\ e # w
    /\ e' = Plus(e, -1)
    /\ UNCHANGED <<buf, r, w, lock, pc, n, target, killed>>

\* Back to the end of the last line: the number of characters removed.
KillLine ==
    /\ lock = NoProc
    /\ \E k \in 0 .. INPUT_BUF :
          /\ \A i \in 1 .. k : Plus(e, 1 - i) # w /\ At(Plus(e, -i)) # NL
          /\ Plus(e, -k) = w \/ At(Plus(e, -k - 1)) = NL
          /\ e' = Plus(e, -k)
    /\ UNCHANGED <<buf, r, w, lock, pc, n, target, killed>>

(***************************************************************************)
(* consoleread                                                             *)
(***************************************************************************)
ReadCall(p, k) ==
    /\ pc[p] = "idle" /\ ~killed[p]
    /\ n' = [n EXCEPT ![p] = k] /\ target' = [target EXCEPT ![p] = k]
    /\ pc' = [pc EXCEPT ![p] = "lock"]
    /\ UNCHANGED <<buf, r, w, e, lock, killed>>

\* acquire(&cons.lock), at the start and in sleep.
ReadLock(p) ==
    /\ pc[p] = "lock" /\ lock = NoProc
    /\ lock' = p
    /\ pc' = [pc EXCEPT ![p] = "read"]
    /\ UNCHANGED <<buf, r, w, e, n, target, killed>>

\* The function ends: n is forgotten.
Return(p) ==
    /\ lock' = NoProc
    /\ pc' = [pc EXCEPT ![p] = "idle"]
    /\ n' = [n EXCEPT ![p] = 0] /\ target' = [target EXCEPT ![p] = 0]

ReadEnd(p) ==
    /\ pc[p] = "read" /\ n[p] = 0
    /\ Return(p)
    /\ UNCHANGED <<buf, r, w, e, killed>>

ReadKilled(p) ==
    /\ pc[p] = "read" /\ n[p] > 0 /\ r = w /\ killed[p]
    /\ Return(p)
    /\ UNCHANGED <<buf, r, w, e, killed>>

ReadEmpty(p) ==
    /\ pc[p] = "read" /\ n[p] > 0 /\ r = w /\ ~killed[p]
    /\ pc' = [pc EXCEPT ![p] = "tested"]
    /\ UNCHANGED <<buf, r, w, e, lock, n, target, killed>>

\* sleep(&input.r, &cons.lock)
ReadSleep(p) ==
    /\ pc[p] = "tested"
    /\ lock' = NoProc
    /\ pc' = [pc EXCEPT ![p] = "sleep"]
    /\ UNCHANGED <<buf, r, w, e, n, target, killed>>

\* Mutant: the end of the file is not saved.
SavedNever(p) == Plus(r, 1)

\* Where r is after C('D'): saved for the next time if something was read.
Saved(p) == IF n[p] < target[p] THEN r ELSE Plus(r, 1)

ReadEOT(p) ==
    /\ pc[p] = "read" /\ n[p] > 0 /\ r # w /\ At(r) = EOT
    /\ r' = Saved(p)
    /\ Return(p)
    /\ UNCHANGED <<buf, w, e, killed>>

\* One character; a line's end ends the loop.
ReadChar(p) ==
    /\ pc[p] = "read" /\ n[p] > 0 /\ r # w /\ At(r) # EOT
    /\ r' = Plus(r, 1)
    /\ IF At(r) = NL
       THEN Return(p)
       ELSE n' = [n EXCEPT ![p] = @ - 1] /\ UNCHANGED <<lock, pc, target>>
    /\ UNCHANGED <<buf, w, e, killed>>

\* kill wakes a process that sleeps already.
Kill(p) ==
    /\ ~killed[p]
    /\ killed' = [killed EXCEPT ![p] = TRUE]
    /\ pc' = [pc EXCEPT ![p] = IF @ = "sleep" THEN "lock" ELSE @]
    /\ UNCHANGED <<buf, r, w, e, lock, n, target>>

(***************************************************************************)
(* The specification                                                       *)
(***************************************************************************)
Init ==
    /\ \E c \in Char : buf = [i \in 0 .. INPUT_BUF - 1 |-> c]
    /\ r = 0 /\ w = 0 /\ e = 0
    /\ lock = NoProc
    /\ pc = [p \in Proc |-> "idle"]
    /\ n = [p \in Proc |-> 0] /\ target = [p \in Proc |-> 0]
    /\ killed = [p \in Proc |-> FALSE]

Read(p) ==
    \/ ReadLock(p) \/ ReadEnd(p) \/ ReadKilled(p) \/ ReadEmpty(p)
    \/ ReadSleep(p) \/ ReadEOT(p) \/ ReadChar(p)

Next ==
    \/ Backspace \/ KillLine \/ \E c \in Char : Intr(c)
    \/ \E p \in Proc : \/ Read(p) \/ Kill(p)
                       \/ \E k \in 0 .. MaxCount : ReadCall(p, k)

Spec == Init /\ [][Next]_vars

(***************************************************************************)
(* Properties                                                              *)
(***************************************************************************)

Chars(from, to) == [i \in 1 .. Dist(from, to) |-> At(Plus(from, i - 1))]

\* The ring, with its three wrapping indices, is a line being edited and the
\* complete lines before it: nothing typed is lost, doubled or reordered, and
\* no character of a complete line can be erased any more.
Lines == INSTANCE LineQueue WITH Size <- INPUT_BUF, ready <- Chars(r, w),
                                 line <- Chars(w, e)
IsLineQueue == Lines!LineSpec

\* No lost wakeup: while nobody is in the critical section, readers sleep
\* only if there is nothing to read.
NoLostWakeup ==
    lock = NoProc => \A p \in Proc : pc[p] = "sleep" => r = w

\* The indices stay in their ring, and no reader misses a line.
ReaderSound == TypeOK /\ NoLostWakeup

\* "Save ^D for next time, to make sure caller gets a 0-byte result": an EOT
\* is passed by a read that returns nothing else, and by no other; and a read
\* of a process that is not killed returns nothing only because of an EOT.
EndOfFileOnce ==
    [][\A p \in Proc :
          /\ lock = p /\ r # w /\ At(r) = EOT /\ r' # r
             => n[p] = target[p] /\ pc'[p] = "idle"
          /\ lock = p /\ pc'[p] = "idle" /\ n[p] = target[p] /\ n[p] > 0
             => killed[p] \/ r' # r]_vars
=============================================================================
