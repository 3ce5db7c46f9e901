------------------------------- MODULE Shell -------------------------------
(***************************************************************************)
(* The shell: user/sh.c's main and runcmd as processes that fork, wait,    *)
(* open, dup, close and make pipes, with user/init.c, which reaps orphans  *)
(* and starts the shell again, and the programs user/echo.c and            *)
(* user/cat.c at the ends of the pipes.                                    *)
(*                                                                         *)
(* A process is the list of system calls it still has to make (todo): Code *)
(* is the list that runcmd makes of a command.  Every call is a step.  The *)
(* kernel's calls are what sh.c relies on: descriptors are the lowest free *)
(* ones, a pipe holds PIPESIZE = 1 chunk, reading ends when the last write *)
(* end is closed, and writing to a full pipe fails once nobody can read.   *)
(* Reading a file or the console is at its end at once.                    *)
(***************************************************************************)
EXTENDS ShParse

CONSTANTS
    NPROC,       \* processes besides init, enough for the sessions
    NOFILE,      \* descriptors of a process
    Word,        \* words that are typed
    MaxTokens,   \* bound: tokens of a typed line
    Sessions,    \* what is run: sequences of lines, <<>> the end of input
    Files,       \* files that exist; open with O_CREATE makes any other
    MaxFail      \* bound: calls of fork and pipe, and execs of sh, that fail

VARIABLES
    typed,       \* the line being typed
    jobs,        \* the lines run so far
    proc,        \* the processes
    full,        \* the pipes that hold a chunk
    fails,       \* what failed: fork, pipe, exec
    initpc       \* init: about to fork, in wait, or exited (a kernel panic)

vars == <<typed, jobs, proc, full, fails, initpc>>

Pid == 1 .. NPROC
Fd == 0 .. NOFILE - 1
Lines == UNION {Range(s) : s \in Sessions} \ {<<>>}
init == 0
Programs == {"echo", "cat"}

\* Open files.  A pipe is named after the line and the place in its command
\* that made it.
None == <<"none">>
Console == <<"console">>
File(f) == <<"file", f>>
End(kind, id) == <<kind, id[1], id[2]>>

NoFds == [f \in Fd |-> None]
Unused == [st |-> "UNUSED", parent |-> init, fd |-> NoFds, todo |-> <<>>,
           p |-> <<0, 0>>, job |-> 0, at |-> <<>>, main |-> FALSE,
           prog |-> FALSE]

\* The calls of runcmd(c), c at place q of its line.  fork's second part is
\* what the child does.  runcmd in the same process goes on as "run".
Run(c, q) == <<"run", c, q>>

\* Mutant: the child keeps the write end it was given.
PipeSideKeeps(fd, end, run) ==
    <<<<"close", fd>>, <<"dupp", end>>, <<"closep", 1>>, run>>

\* A side of a pipe puts its end p[end] at descriptor fd.
PipeSide(fd, end, run) ==
    <<<<"close", fd>>, <<"dupp", end>>, <<"closep", 1>>, <<"closep", 2>>, run>>

\* Mutant: the parent keeps its write end.
PipeParentKeeps == <<<<"closep", 1>>, <<"wait">>, <<"wait">>, <<"exit">>>>

\* Mutant: the parent waits for one side.
PipeParentOnce == <<<<"closep", 1>>, <<"closep", 2>>, <<"wait">>, <<"exit">>>>

PipeParent ==
    <<<<"closep", 1>>, <<"closep", 2>>, <<"wait">>, <<"wait">>, <<"exit">>>>

Code(c, q) ==
    CASE c.type = "EXEC" /\ c.argv = <<>> -> <<<<"exit">>>>
      [] c.type = "EXEC" /\ c.argv # <<>> -> <<<<"exec", c.argv>>, <<"exit">>>>
      [] c.type = "REDIR" -> <<<<"close", c.fd>>, <<"open", c.fd, c.file>>,
                               Run(c.cmd, Append(q, "c"))>>
      [] c.type = "LIST" -> <<<<"fork", <<Run(c.left, Append(q, "l"))>>>>,
                              <<"wait">>, Run(c.right, Append(q, "r"))>>
      [] c.type = "PIPE" ->
            <<<<"pipe">>,
              <<"fork", PipeSide(1, 2, Run(c.left, Append(q, "l")))>>,
              <<"fork", PipeSide(0, 1, Run(c.right, Append(q, "r")))>>>>
            \o PipeParent
      [] c.type = "BACK" -> <<<<"fork", <<Run(c.cmd, Append(q, "c"))>>>>,
                              <<"exit">>>>

\* The main loop: fork a child for the line, wait for it, prompt again.
LineCode == <<<<"fork", <<<<"parse">>>>>>, <<"wait">>, <<"getcmd">>>>

(***************************************************************************)
(* Steps of processes                                                      *)
(***************************************************************************)
Live(p) == proc[p].st = "RUN"
At(p, op) == Live(p) /\ proc[p].todo # <<>> /\ Head(proc[p].todo)[1] = op
Arg(p, i) == Head(proc[p].todo)[i]

\* Process record r goes on with t; runcmd starts on a command.
Goes(r, t) ==
    IF t # <<>> /\ Head(t)[1] = "run"
    THEN [r EXCEPT !.todo = Code(Head(t)[2], Head(t)[3]), !.at = Head(t)[3]]
    ELSE [r EXCEPT !.todo = t]
Next1(r) == Goes(r, Tail(r.todo))

Exited == <<<<"exit">>>>
Lowest(r) == {f \in Fd : r.fd[f] = None /\ \A g \in 0 .. f - 1 : r.fd[g] # None}

\* Which ends of pipe id are open in the processes of ps.
Opened(ps, kind, id) ==
    \E p \in Pid, f \in Fd : ps[p].fd[f] = End(kind, id)

\* A pipe whose ends are all closed is freed with what it holds.
Put(ps, holds) ==
    /\ proc' = ps
    /\ full' = {id \in holds : Opened(ps, "rd", id) \/ Opened(ps, "wr", id)}

Become(p, r) == Put([proc EXCEPT ![p] = r], full)

Close(p) ==
    /\ At(p, "close")
    /\ Become(p, Next1([proc[p] EXCEPT !.fd[Arg(p, 2)] = None]))
    /\ UNCHANGED <<typed, jobs, fails, initpc>>

CloseP(p) ==
    /\ At(p, "closep")
    /\ Become(p, Next1([proc[p] EXCEPT !.fd[proc[p].p[Arg(p, 2)]] = None]))
    /\ UNCHANGED <<typed, jobs, fails, initpc>>

\* dup's result is not looked at.
DupP(p) ==
    /\ At(p, "dupp")
    /\ \E f \in Lowest(proc[p]) :
          Become(p, Next1([proc[p] EXCEPT !.fd[f] =
                              proc[p].fd[proc[p].p[Arg(p, 2)]]]))
    /\ UNCHANGED <<typed, jobs, fails, initpc>>

\* A redirection: reading needs the file, writing creates it.
Open(p) ==
    LET f == Arg(p, 3)
    IN  /\ At(p, "open")
        /\ \/ /\ Arg(p, 2) = 1 \/ f \in Files
              /\ \E d \in Lowest(proc[p]) :
                    Become(p, Next1([proc[p] EXCEPT !.fd[d] = File(f)]))
           \/ /\ Arg(p, 2) = 0 /\ f \notin Files
              /\ Become(p, Goes(proc[p], Exited))
        /\ UNCHANGED <<typed, jobs, fails, initpc>>

Fails(call) == Len(fails) < MaxFail /\ fails' = Append(fails, call)

\* pipe: two descriptors, or panic.
Pipe(p) ==
    LET r == proc[p]
        id == <<r.job, r.at>>
    IN  /\ At(p, "pipe") /\ UNCHANGED <<typed, jobs, initpc>>
        /\ \/ \E a \in Lowest(r) :
                 LET r1 == [r EXCEPT !.fd[a] = End("rd", id)]
                 IN  \E b \in Lowest(r1) :
                        Become(p, Next1([r1 EXCEPT !.fd[b] = End("wr", id),
                                                   !.p = <<a, b>>]))
              /\ UNCHANGED fails
           \/ Fails("pipe") /\ Become(p, Goes(r, Exited))

FreeSlot == {q \in Pid : /\ proc[q].st = "UNUSED"
                         /\ \A s \in 1 .. q - 1 : proc[s].st # "UNUSED"}

\* fork1: the child has the parent's descriptors; the parent panics when
\* fork fails, the shell itself included.
Fork(p) ==
    LET r == proc[p]
    IN  /\ At(p, "fork") /\ UNCHANGED <<typed, jobs, initpc>>
        /\ \/ \E q \in FreeSlot :
                 LET child == Goes([r EXCEPT !.parent = p, !.main = FALSE,
                                             !.job = IF r.main THEN Len(jobs) ELSE @],
                                   Arg(p, 2))
                 IN  Put([proc EXCEPT ![p] = Next1(r), ![q] = child], full)
              /\ UNCHANGED fails
           \/ Fails("fork") /\ Become(p, Goes(r, Exited))

Children(p) == {q \in Pid : proc[q].parent = p /\ proc[q].st # "UNUSED"}
Zombies(p) == {q \in Children(p) : proc[q].st = "ZOMBIE"}

\* wait for a zombie child (ForegroundDone: there always is a child).
Wait(p) ==
    /\ At(p, "wait")
    /\ \E q \in Zombies(p) :
          Put([proc EXCEPT ![p] = Next1(@), ![q] = Unused], full)
    /\ UNCHANGED <<typed, jobs, fails, initpc>>

\* exit: descriptors closed, children go to init.
Exit(p) ==
    /\ At(p, "exit")
    /\ Put([q \in Pid |->
              IF q = p THEN [Unused EXCEPT !.st = "ZOMBIE", !.main = proc[p].main,
                                           !.parent = proc[p].parent]
              ELSE IF q \in Children(p) THEN [proc[q] EXCEPT !.parent = init]
              ELSE proc[q]], full)
    /\ UNCHANGED <<typed, jobs, fails, initpc>>

\* echo writes one chunk per argument, cat with no argument copies.
Program(argv) ==
    IF argv[1] = "echo" THEN [i \in 1 .. Len(argv) |->
                                IF i < Len(argv) THEN <<"write">> ELSE <<"exit">>]
    ELSE <<<<"read">>>>

Exec(p) ==
    LET r == proc[p]
        argv == Arg(p, 2)
    IN  /\ At(p, "exec")
        /\ \/ /\ argv[1] \in Programs
              /\ Become(p, Goes([r EXCEPT !.prog = TRUE], Program(argv)))
           \/ argv[1] \notin Programs /\ Become(p, Next1(r))
        /\ UNCHANGED <<typed, jobs, fails, initpc>>

(***************************************************************************)
(* The programs                                                            *)
(***************************************************************************)
IdOf(f) == <<f[2], f[3]>>

\* echo ignores the result; cat stops when it cannot write.
Write(p) ==
    LET r == proc[p]
        f == r.fd[1]
        fail == IF At(p, "copy") THEN Goes(r, Exited) ELSE Next1(r)
    IN  /\ At(p, "write") \/ At(p, "copy")
        /\ \/ f[1] \in {"console", "file"} /\ Become(p, Next1(r))
           \/ /\ f[1] = "wr" /\ IdOf(f) \notin full
              /\ Put([proc EXCEPT ![p] = Next1(r)], full \cup {IdOf(f)})
           \/ /\ \/ f[1] = "wr" /\ IdOf(f) \in full
                                /\ ~Opened(proc, "rd", IdOf(f))
                 \/ f[1] \in {"none", "rd"}
              /\ Become(p, fail)
        /\ UNCHANGED <<typed, jobs, fails, initpc>>

Read(p) ==
    LET r == proc[p]
        f == r.fd[0]
    IN  /\ At(p, "read")
        /\ \/ /\ f[1] = "rd" /\ IdOf(f) \in full
              /\ Put([proc EXCEPT ![p] = Goes(r, <<<<"copy">>, <<"read">>>>)],
                     full \ {IdOf(f)})
           \/ /\ f[1] = "rd" => IdOf(f) \notin full
                                /\ ~Opened(proc, "wr", IdOf(f))
              /\ Become(p, Goes(r, Exited))
        /\ UNCHANGED <<typed, jobs, fails, initpc>>

(***************************************************************************)
(* The shell's main loop, its user, and init                               *)
(***************************************************************************)
\* Three descriptors are open before the first prompt.
Start(p) ==
    /\ At(p, "start")
    /\ Become(p, Next1([proc[p] EXCEPT !.fd =
                  [f \in Fd |-> IF f < 3 /\ @[f] = None THEN Console ELSE @[f]]]))
    /\ UNCHANGED <<typed, jobs, fails, initpc>>

\* The child parses; a syntax error ends it.
Parsed == [l \in Lines |-> parsecmd(l)]
Parse(p) ==
    LET c == Parsed[jobs[proc[p].job]]
    IN  /\ At(p, "parse")
        /\ Become(p, Goes(proc[p], IF c = Panic THEN Exited
                                   ELSE <<Run(c, <<>>)>>))
        /\ UNCHANGED <<typed, jobs, fails, initpc>>

\* Any text may be typed at the first prompt.
Type(t) ==
    /\ jobs = <<>> /\ Len(typed) < MaxTokens
    /\ \E p \in Pid : At(p, "getcmd")
    /\ typed' = Append(typed, t)
    /\ UNCHANGED <<jobs, proc, full, fails, initpc>>

\* getcmd gets the next line of a session.
GetCmd(p, l) ==
    /\ At(p, "getcmd")
    /\ \E s \in Sessions : IsPrefix(Append(jobs, l), s)
    /\ jobs' = Append(jobs, l)

\* A line is run: token by token at the first prompt, at once later on.  cd
\* is done by the shell itself.
Enter(p, l) ==
    /\ GetCmd(p, l) /\ typed \in {<<>>, l} /\ typed' = <<>>
    /\ \/ l[1] = "cd" /\ Len(l) > 1 /\ UNCHANGED proc
       \/ (l[1] = "cd" => Len(l) = 1) /\ proc' = [proc EXCEPT ![p].todo = LineCode]
    /\ UNCHANGED <<full, fails, initpc>>

\* getcmd sees the end of its input: the shell exits.
EndOfInput(p) ==
    /\ GetCmd(p, <<>>) /\ typed = <<>>
    /\ proc' = [proc EXCEPT ![p].todo = Exited]
    /\ UNCHANGED <<typed, full, fails, initpc>>

\* The child that init forks, which has init's descriptors.
NewShell == [Unused EXCEPT !.st = "RUN", !.main = TRUE,
                           !.fd = [f \in Fd |-> IF f < 3 THEN Console ELSE None],
                           !.todo = <<<<"execsh">>, <<"exit">>>>]

\* init exits when it cannot fork: panic("init exiting").
InitFork ==
    /\ initpc = "fork" /\ UNCHANGED <<typed, jobs>>
    /\ \/ /\ \E q \in FreeSlot : Become(q, NewShell)
          /\ initpc' = "wait" /\ UNCHANGED fails
       \/ Fails("fork") /\ initpc' = "panic" /\ UNCHANGED <<proc, full>>

ExecSh(p) ==
    /\ At(p, "execsh") /\ UNCHANGED <<typed, jobs, initpc>>
    /\ \/ /\ Become(p, Goes(proc[p], <<<<"start">>, <<"getcmd">>>>))
          /\ UNCHANGED fails
       \/ Fails("exec") /\ Become(p, Next1(proc[p]))

\* init waits for its children, orphans too; after the shell, or the child that
\* could not become one, it forks again.
InitReap(q) ==
    /\ initpc = "wait" /\ proc[q].st = "ZOMBIE" /\ proc[q].parent = init
    /\ Become(q, Unused)
    /\ initpc' = IF proc[q].main THEN "fork" ELSE "wait"
    /\ UNCHANGED <<typed, jobs, fails>>

InitStep == InitFork \/ \E q \in Pid : InitReap(q)

Init ==
    /\ typed = <<>> /\ jobs = <<>> /\ full = {} /\ fails = <<>>
    /\ proc = [p \in Pid |-> Unused]
    /\ initpc = "fork"

Step(p) ==
    \/ Start(p) \/ Parse(p) \/ Close(p) \/ CloseP(p) \/ DupP(p) \/ Open(p)
    \/ Pipe(p) \/ Fork(p) \/ Wait(p) \/ Exit(p) \/ Exec(p) \/ Write(p)
    \/ Read(p) \/ ExecSh(p)

User == \/ \E t \in Word \cup Symbols : Type(t)
        \/ \E p \in Pid : EndOfInput(p) \/ \E l \in Lines : Enter(p, l)

Next == User \/ InitStep \/ \E p \in Pid : Step(p)

\* Every process is scheduled; nobody has to type.
Spec == Init /\ [][Next]_vars
        /\ WF_vars(InitStep) /\ \A p \in Pid : WF_vars(Step(p))

(***************************************************************************)
(* Properties                                                              *)
(***************************************************************************)

\* Whatever is typed, the recursive descent of parseline, parsepipe, parseexec
\* and parseredirs finds what the line means by its outermost separators, or
\* panics exactly on the lines that mean nothing.
ParseRight == parsecmd(typed) = Meaning(typed)

Meant == [l \in Lines |-> Meaning(l)]

\* The file that descriptor fd of the command at path should be: the innermost
\* redirection or pipe on the way to it decides.
RECURSIVE Stream(_, _, _, _, _)
Stream(c, id, rest, fd, cur) ==
    IF rest = <<>> THEN cur
    ELSE LET side == Head(rest)
             sub == CASE side = "l" -> c.left [] side = "r" -> c.right
                      [] side = "c" -> c.cmd
             now == CASE c.type = "REDIR" /\ c.fd = fd -> File(c.file)
                      [] c.type = "PIPE" /\ <<side, fd>> = <<"l", 1>> -> End("wr", id)
                      [] c.type = "PIPE" /\ <<side, fd>> = <<"r", 0>> -> End("rd", id)
                      [] OTHER -> cur
         IN  Stream(sub, <<id[1], Append(id[2], side)>>, Tail(rest), fd, now)

\* A program that exec starts has exactly descriptors 0, 1 and 2, and they are
\* the streams its place in the command line says: no end of a pipe is left
\* open in it by runcmd's closes and dups, whatever is redirected around it.
StreamsRight ==
    \A p \in Pid : Live(p) /\ proc[p].prog =>
        LET r == proc[p]
            c == Meant[jobs[r.job]]
        IN  \A f \in Fd :
              r.fd[f] = IF f > 2 THEN None
                        ELSE Stream(c, <<r.job, <<>>>>, r.at, f, Console)

\* The place is in something started with &.
RECURSIVE UnderBack(_, _)
UnderBack(c, rest) ==
    /\ rest # <<>>
    /\ \/ c.type = "BACK"
       \/ UnderBack(CASE Head(rest) = "l" -> c.left [] Head(rest) = "r" -> c.right
                      [] Head(rest) = "c" -> c.cmd, Tail(rest))

\* When the shell prompts again, everything the line started in the foreground
\* has ended, however deep in pipes, lists and blocks, and no child of the
\* shell is left that a later wait would take for its own.  (A fork that
\* fails for the right side of a pipe leaves the left side running.)  And
\* who calls wait has a child.
ForegroundDone ==
    /\ \A s \in Pid : At(s, "getcmd") =>
          /\ Children(s) = {}
          /\ "fork" \notin Range(fails) =>
                \A p \in Pid \ {s} : Live(p) =>
                    UnderBack(Meant[jobs[proc[p].job]], proc[p].at)
    /\ \A p \in Pid : At(p, "wait") => Children(p) # {}

\* The shell prompts again and again until there is nothing left to do: no
\* pipeline hangs because an end of a pipe stays open somewhere, whatever
\* fork, pipe, open or exec fails, and background jobs end too.  A shell that
\* ended is followed by another one, unless the fork that fails is init's own:
\* then init exits, and the kernel panics.
Quiet == /\ \E s \in Pid : At(s, "getcmd") /\ \A p \in Pid \ {s} : proc[p] = Unused
         /\ full = {}
Settles == []<>(Quiet \/ initpc = "panic")
=============================================================================
