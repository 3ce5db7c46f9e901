# A TLA+ model of the xv6 with shared memory regions

The repository is the teaching kernel xv6 for x86, extended with named shared
memory regions: a process registers regions of its memory (`share_mem`), its
children inherit the table on `fork`, and on `exec` the kernel maps the
parent's physical pages into the child's address space, where it finds them
by name (`get_shared`).  Three programs (`primestart`, `primecalc`,
`primecom`) use this to calculate primes in one process and to command it
from another.

This directory models the parts of the kernel in which the order of events
matters, checks them with TLC on small instances, and proves with TLAPS, for
every size of the instance, the safety of the shared regions, the prime
programs, the process table, the pipe, the log, the buffer cache, the
console, the spin locks and the page allocator.  Paths below are relative to `src/`.

1. [Inventory](#1-inventory)
2. [Modules and the code they model](#2-modules-and-the-code-they-model)
3. [Runs](#3-runs)
4. [Disagreements between code and documentation](#4-disagreements-between-code-and-documentation)
5. [Proofs](#5-proofs)
6. [What is not modelled](#6-what-is-not-modelled)
7. [Plan](#7-plan)

## 1. Inventory

| Component | State | Operations | Hard behaviour | What makes it correct |
|---|---|---|---|---|
| Shared regions and user memory (`kernel/sysfile.c`, `vm.c`, `exec.c`, `proc.c`) | per process: table of ten `(name, size, memstart)`, size, page directory, pointer to the parent's directory; free list of pages | `share_mem`, `get_shared`, `sbrk`, `fork`, `exec` (`linkphysaddr`, `mappa2va`), `exit`, `wait` | `exec` reads another process's page directory with no lock; entries of earlier processes stay in the table; failures half way through a region; `uint` arithmetic | a page has one private owner, is never lost or used while free; a child's region is the parent's memory; lookups return live regions |
| Prime programs (`user/prime*.c`) | the regions `niz`, `index`, `komanda`; the static flag in `sys_get_shared` | find, store, publish; `latest`, `prime n`, `pause`, `resume`, `end` | two processes on plain memory without locks; an unlocked kernel flag | an element is there before its index; nothing published changes; pause and end are heard |
| Process table and scheduler (`kernel/proc.c`, `trap.c`, `sysproc.c`) | `ptable`, `ptable.lock`, `ticks`, per-CPU `proc` | `scheduler`, `sched`, `yield`, `fork`, `exit`, `wait`, `kill`, `sleep`, `wakeup`, timer tick | a lock passed from thread to thread across `swtch`; exits of parents and children in every order; kill at every step | one CPU per process; no lost wakeup; orphans are reaped; the killed exit |
| Pipe (`kernel/pipe.c`, `file.c`) | ring buffer, two wrapping counters, two open flags, lock | `pipewrite`, `piperead`, `pipeclose`, kill while asleep | several readers and writers on two channels, wrap of the counters, free at the last close | bounded FIFO; no lost wakeup; not used after it was freed |
| Write-ahead log (`kernel/log.c`) | header in memory and on disk, log blocks, `outstanding`, `committing` | `begin_op`, `log_write`, `end_op`, commit, recovery | a crash between any two disk writes, also in recovery; several operations in a commit; limited space | the disk shows whole operations only; reserved space suffices; nobody waits for ever |
| Buffer cache, sleep locks (`kernel/bio.c`, `sleeplock.c`) | LRU list of buffers with reference counts and sleep locks | `bread`, `bwrite`, `brelse`, `acquiresleep`, `releasesleep` | two lookups of one block, recycling, sleeping for a buffer | a block has one value and one user; a buffer in use or dirty is not recycled |
| Disk driver (`kernel/ide.c`) | request queue | `iderw`, `ideintr` | interrupt against the next request | a request is in the queue while its process waits; every request is answered |
| Files, inodes and directories (`kernel/file.c`, `fs.c`, `sysfile.c`) | file table, inode cache, inodes and directories on disk | `open`, `close`, `dup`, `link`, `unlink`, `mkdir`, `mknod`, `chdir` | last unlink against lookup, tables that are full, lock order | counts are exact; what is open or named is not freed |
| Contents of files (`kernel/fs.c`, `file.c`) | free map, addresses and sizes, indirect blocks, offsets | `readi`, `writei`, `bmap`, `balloc`, `itrunc`, `fileread`, `filewrite` | writes cut into transactions, open files shared by processes, blocks used again | a file is its bytes; a block has one owner; a transaction fits the log |
| Console (`kernel/console.c`) | input ring `r`, `w`, `e` | `consoleintr`, `consoleread` | interrupt against several readers, a full ring, end of file in the middle of a read | a line is delivered once, in order; no reader misses one |
| Spin locks, interrupts, page allocator (`kernel/spinlock.c`, `kalloc.c`, `main.c`) | `locked` and owner; per CPU `ncli`, `intena` and the interrupt flag; free list and `use_lock` | `acquire`, `release`, `pushcli`, `popcli`, `kalloc`, `kfree`, boot, timer interrupt | an interrupt between any two instructions; `intena` belongs to the thread but is kept per CPU; unlocked use of the free list during boot | one holder; no interrupt under a lock; interrupts come back on; a page is in one place |
| Shell and init (`user/sh.c`, `init.c`) | the line, descriptors, children | `parsecmd`, `runcmd`, the main loop, init's `wait` | who closes which end of a pipe, in which process; failures of `fork`, `pipe`, `open` and `exec` half way; orphans | a line is parsed as its grammar says; a program has its streams and no others; no pipeline hangs |
| Image of the disk (`tools/mkfs.c`) | `freeinode`, `freeblock` | `ialloc`, `iappend`, `balloc` | direct and indirect blocks by hand, outside of the kernel | files and directories hold what they should; the free map agrees |
| Traps, system calls | trap frame | | modelled where their users need them | |
| Boot code, devices, user library, tests | | | sequential, or hardware | |

How they interact: system calls reach the kernel through `trap` and
`syscall`; everything that blocks does so with `sleep(chan, lock)` and
`wakeup(chan)` of `proc.c`; `fork`, `exec`, `exit` and `wait` couple process
table, page allocator and shared regions; file system calls run between
`begin_op` and `end_op` and change blocks only through `log_write`, which
pins their buffers; the prime programs meet only in shared memory and in
`get_shared`; the shell is a client of `fork`, `wait`, descriptors and pipes;
`mkfs` makes the disk that the kernel starts on.  `PROJECT.json` lists the hazards line by line.

## 2. Modules and the code they model

| Module | Role |
|---|---|
| `ShMem`, `MCShMem` | shared regions, page directories, allocator |
| `PrimeIPC`, `MCPrimeIPC` | the prime programs and the flag of `sys_get_shared` |
| `ProcTable`, `MCProcTable` | process table, scheduler, sleep and wakeup, timer |
| `Pipe`, `MCPipe` | the pipe |
| `PipeFIFO` | abstract specification: a bounded FIFO queue with two ends |
| `Log`, `MCLog` | the write-ahead log, crashes, recovery |
| `AtomicOps` | abstract specification: groups of operations take effect whole |
| `Bcache` | buffer cache, sleep locks, the disk driver's queue |
| `BlockStore` | abstract specification: blocks that one process at a time has |
| `Inode`, `MCInode` | inode cache, directories, paths, file table |
| `FileData`, `MCFileData` | free map, block addresses, reading, writing, truncating |
| `FileStore` | abstract specification: files as strings of bytes, open files with offsets |
| `Mkfs` | the image that `mkfs` makes, as operators; `FileData` starts on it |
| `Console` | the console's input |
| `LineQueue` | abstract specification: a line being edited, and complete lines |
| `ShParse` | the shell's parser, and what a line means, as operators |
| `Shell`, `MCShell` | the shell's processes, init, `echo` and `cat` |
| `Kmem`, `MCKmem` | spin locks, interrupts, the page allocator, boot |
| `PipeProofs`, `LogProofs`, `BcacheProofs`, `ProcProofs`, `ConsoleProofs`, `PrimeProofs`, `ShMemProofs`, `KmemProofs` | theorems about `Pipe`, `Log`, `Bcache`, `ProcTable`, `Console`, `PrimeIPC`, `ShMem` and `Kmem` (section 5) |

An MC module holds only the values that a `.cfg` cannot write and the
symmetry sets; `Bcache` and `Console` need none and are run as they are.
Operators commented `Mutant:` are wrong variants of the
operator below them; no specification uses them.  `PROJECT.json` pairs each
with the property that must fail when it takes the operator's place.

**ShMem.** `shared[p]` is `proc.shared`, `dir[p, "cur"]` the page directory of
`p`, and `dir[p, "new"]` the one its `exec` builds; a directory is a function
from virtual to physical page numbers.  A system call is one step, except
`exec`: it loads the image (`ExecLoad`), links one region per step
(`LinkRegion`, with the outcomes of `mappa2va` as alternatives), then commits
(`ExecCommit`) or fails (`ExecBad`), and other processes run in between.
Addresses are bytes, scaled down (`PGSIZE` 4, an `int` of 2 bytes), and wrap
as a `uint` does.  `va + sz` on a `uint *` is modelled as the code has it: the
size counts `sizeof(uint)` times.  `parentpgdir` may name a directory that has
been freed.  A behaviour has one of the `Workloads`: what regions and `sbrk`
arguments programs use, how many processes and pages there are, and whether
programs are `Disciplined`, that is, do what `primestart` and its children do:
register, fork, and stay alive and unchanged until the children have exited
(`Settled`); and, with inherited regions, exec a program that links them before
registering or forking (`Ready`).  A workload is `Fitting` if its programs are
disciplined, do not shrink, and have regions that lie in the pages `mappa2va`
counts from the size alone, `MAXSHARED` of which fit below `KERNBASE` with the
size scaled as the code scales it.  The regions of `primestart` do: `idx` and
`cmd` have four bytes, and `niz` starts 8 bytes into a page, after `malloc`'s
header, and its 400000 bytes end within the 98 pages that are counted.  Programs
are `Modest` if they leave an entry of the table unused and, where a page
table may fail, register regions of at most a page; beyond that the code loses
pages (section 4).

**PrimeIPC.** One access to shared memory or to the kernel's flag is one step.
Candidates above `MaxI` count as composite, so the endless search is a finite
graph.  `out`, `base` and `late` are history variables for what was printed
and what had been published.

**ProcTable.** A section under `ptable.lock` is one step if it ends in
`release`.  If it ends in `sched()`, the lock passes to the CPU's scheduler
(`scan`), and from there to the next process, which releases it in a step of
its own: `lock` names a CPU throughout.  `pc[p]` says where a process is; the
timer may interrupt user code, `fork` and `exit` wherever interrupts are on.
`FullTable` lets a fork fail on a full table of shared regions.

**Pipe.** One turn of a loop is one step.  The test of `killed` and the call
of `sleep` are two steps, since `kill` takes `ptable.lock` only.  `Wrap`
stands for 2^32.

**Log.** A section under `log.lock` is one step, as is each disk write of
commit and recovery; `log_write`'s first test is a step of its own because it
is made before the lock is taken.  `home`, `logged` and `head` are the disk;
`Crash` keeps them and nothing else, and leaves the system in recovery.
`Evict` is `bget` recycling a buffer that is not pinned.  A panic stops one
CPU only.  Each of the `LOGSIZE` entries of the header has a block of `logged`;
the log on disk has one less, and a write behind it would hit inode blocks.
`LogSound`, `IsAtomic` and their theorems therefore speak about logs that are
not overrun (`InLog`, section 4).

**Bcache.** `lru` is the list from `bcache.head.next`, most recent first.  A
section under `bcache.lock`, a sleep lock's spin lock or `idelock` is one
step; `releasesleep` and the rest of `brelse` are two.  `Ideintr` completes
the request at the head of `idequeue` at any time after it was queued.
`LogWrite` is what `log_write` does to a buffer, `B_DIRTY` alone.  A process
has one buffer at a time.

**Inode.** A process in a system call has a list of steps left (`todo`), one
for each stretch under an inode's sleep lock that takes no second one; `iput`
is three steps, because it lets go of `icache.lock` after its test.  `cur`,
`dp` and `ip` are the pointers of `namex`, `create`, `sys_unlink` and
`sys_link`.  A path is a sequence of names, a directory a function from names
to inodes.  A process that panics keeps its locks and stops: `"full"` when a
table has no free entry, `"panic"` when a check failed.  A cache entry that
nobody refers to is blank, since its fields are not read again.  `Workloads`
are sets of system calls; a behaviour uses one of them, in any order and any
number of times.

**FileData.** `WriteBlock`, `ReadBlock` and `TruncBlock` do one turn of the
loops of `writei`, `readi` and `itrunc`, under the inode's lock.  `Bmap`
computes what `bmap` and `balloc` leave behind, whether in the inode or in an
indirect block; `logged` collects the blocks that a transaction of
`filewrite` changes.  Cells are bytes or, in an indirect block, addresses.
The disk at the start is `main(args)` of `Mkfs`.  Transactions do not
wait here (module `Log`), and the inode's sharing is as `Inode` allows:
`itrunc` runs on a file that has no name and is not open.

**Mkfs.** `s` in the operators is the image so far with `freeinode` and
`freeblock`.  `iappend` appends cell by cell where the code appends block by
block; a directory entry is one cell.  `Wanted` says what each file should
hold, without blocks; `IsStore` compares the two in the initial state and
after every step of the kernel.  `mkfs` sets every link count to 1, the
root's too, although `dev`, `bin` and `home` have `..` in them (`fs.h:33`
"Number of links to inode in file system"); `Inode`'s root has 1 likewise.

**Console.** `Intr`, `Backspace` and `KillLine` are what `consoleintr` does
with a character, `consoleread` is a step per turn of its loop, with the test
of `killed` and `sleep` apart as in `Pipe`.

**ShParse.** The operators `parseline`, `parsepipe`, `parseexec`, `parseredirs`
and `parseblock` are the functions of `sh.c` on a sequence of tokens; each
returns a tree and the next position, or panics.  `Meaning` is the reference:
it splits a line at its outermost `;`, `&`, `|` and parentheses instead of
scanning it.  It records the grammar the code has, which differs from other
shells: `a & b` is an error, the *first* of several redirections decides
(`> a > b` writes `a`, and creates both), and `>>` does not append.

**Shell.** `proc[p].todo` is the list of system calls a process has still to
make.  `Code` is `runcmd`: the list for each kind of command, with the lists
of the children inside `fork`.  A call is a step.  Pipes hold one chunk, and
descriptors, `wait` and `exit` are what `Inode`, `Pipe` and `ProcTable` show
of the kernel; `at` is the place in the command that a process runs.  Up to
`MaxFail` calls of `fork` and `pipe` and execs of `/bin/sh` fail;
`panic("fork")` in the shell itself ends it.  init is `initpc`: it forks
(`InitFork`), its child execs the shell (`ExecSh`) or exits, and init waits
(`InitReap`) until that child has ended and forks again.  When its own fork
fails, init exits and the kernel panics (`init.c:30`, `proc.c:260`): `initpc` is
then `"panic"`, and other CPUs may go on for a while.

**Kmem.** `code[t]` is what kernel thread `t` has still to execute, one
instruction for each access to memory that other CPUs see and for each change
of the interrupt flag; `Timer` puts `trap` in front of it.  Three reductions
keep it small, each because nobody else can see the difference: `xchg` and the
store of the owner are one step (before it the owner is no CPU, or one that is
past its last look at it), `popcli` goes with the unlock, and a process enters
a system call with its first instruction.  The CPUs boot as in `main`:
`kinit1`, `startothers`, `kinit2`, `userinit`; the loops of `freerange` and
`startothers` are instructions that put a turn in front of themselves
(`FreeRange`, `StartOthers`).  Of `fork` there is the page for the stack and the
section that makes the child `RUNNABLE`, and of `trap` the timer and `yield`;
their other parts are in `ProcTable` and `ShMem`.  Processes have one of the
`Workloads`: they allocate and free pages, or sleep on `ticks`.

## 3. Runs

All bounds are small enough for TLC and large enough for the case each run is
about.

| Run | Instance | Checks |
|---|---|---|
| `ShMem` | three workloads: 3 processes and 5 pages like `primestart`, with two regions of which one starts inside a page; 3 processes and 4 pages with any exits, execs, shrinking and failing allocations; 2 processes with regions of two pages, of four times the process and of size -1 | `TableSound` (entries in use are a prefix, the lookup of a region in use returns it), `SharedSound` (programs with `Fitting` regions meet no panic or overrun, and what they map is not freed and is the parent's memory), `PagesSound` (with modest programs no page has two private owners, none is lost) |
| `PrimeIPC` | candidates to 7, array one element short | `PrimeSound` (what is published was written, a pause is honoured), `PublishedStable`, `EndReachesAll`, `CommandFinishes` |
| `PrimePanic` | as `PrimeIPC` | violates `NoReleasePanic` |
| `ProcTable` | 3 slots, 2 CPUs, 3 pids, failing forks | `ProcSound` (one CPU per process, the lock handed over across `swtch`, parents alive), `NoLostWakeup`, `KilledExits`, `SleepEnds`, `OrphansReaped` |
| `Pipe` | 2 processes, 2 bytes of room, counters modulo 4, reads and writes of one byte | `RingSound`, `NoLostWakeup`, `FreedUnused`, `IsFIFO`, `CloseUnblocks` |
| `LogCrash` | 2 processes, 2 blocks, operations of up to 2 blocks, log smaller than what `begin_op` admits | `LogSound` (reserved space suffices, a commit is alone, nothing is left at rest), `NoLostWakeup`, `IsAtomic`, `BeginProgress` |
| `Bcache` | 2 processes, 2 buffers, 3 blocks, 2 values | `CacheSound` (references counted, queue and sleepers match), `IsStore`, `Served` |
| `Inode` | 2 processes, 3 inodes, a cache of 3, 2 file structures and 2 descriptors, three workloads | `RefsSound`, `FreedUnreachable`, `NoPanicDown` |
| `FileData` | the image of a program of 3 bytes and an empty text; 2 processes, 2 open files, blocks of 2 cells, 4 of them for files, one direct and two indirect addresses, transactions of 6 blocks | `BlocksSound`, `FitsLog`, `IsStore` |
| `Console` | 2 readers, a ring of 3, indices modulo 6, reads of up to 2 characters | `ReaderSound`, `IsLineQueue`, `EndOfFileOnce` |
| `Shell` | every line of up to 5 tokens is parsed; eight sessions of one to three lines are run by up to 6 processes and init, with up to two failures of `fork`, `pipe` or the exec of `/bin/sh`, init's `fork` included | `ParseRight`, `StreamsRight`, `ForegroundDone`, `Settles` (all ends, and a shell prompts again, unless init itself cannot fork) |
| `Kmem` | 2 CPUs, 2 processes, 4 to 6 pages of which 2 are there before the second CPU starts, timer interrupts at every step | `LocksSound` (one holder, interrupts off, no check fails), `InterruptsRight`, `PagesSound` |

Why the bounds suffice.  *Shared regions*: three processes are the parent,
the child, and somebody who takes the freed pages or slot; a page of 4 bytes
with ints of 2 makes regions that start inside a page, and a table of two or
three entries is full early.  The passing runs keep a
region within one page table (`NPTE` 4), as `primestart`'s are; regions that
need two are the subject of the workload `TwoPages` below.  *Process table*: init, a parent and a child
give every order of exits of a parent and a child; the proofs cover every
number of processes, CPUs and pids, and slots that are used again.
*Pipe*: writers sleep at a full ring, readers at an empty one, and the
counters wrap after two rounds; writes that sleep in the middle, and every
size and length, are covered by the proofs.  *Log*: two
operations of two blocks give shared groups, waiting for space (one block
logged and one operation open leave too little) and absorption, with a crash
at every step.  *Bcache*: with two buffers for three blocks every lookup that
misses recycles, and one dirty buffer and one in use make `bget` panic.
*Inode*: three inodes are the root, a directory or file, and what is made in
it or after it; every table can be full; the workloads are a tree that is
rebuilt under its users, open files whose names come and go, and a directory
that is removed with a process inside.  *FileData*: the second block of a
file is indirect, a write of three bytes is cut into two transactions and
crosses a block boundary, one of them allocates the indirect block and a data
block at an unaligned offset, which with a bitmap block per block
(`BPB` 1) reaches exactly `MAXOPBLOCKS` blocks; four blocks are not enough for
two full files, so blocks are freed, used again, and run out.  The root
directory of the image uses an indirect block.  Written bytes are all 1, and
zeroes are unwritten: a block that is used again holds old bytes or old
addresses until it is zeroed.  A second value exceeds TLC's reach here.  *Console*: a ring of
three is filled by lines of two, and its indices wrap.  *Shell*: `MAXARGS` is
4, so that a line of five tokens can have too many arguments; the sessions
nest pipes, lists, blocks, redirections and background jobs in one another,
fill a pipe (two chunks for a reader that stops), and leave orphans.  *Kmem*:
two CPUs contend for each lock, the second starts while the list is used
without one, and the page or two that are left for the processes run out.

Symmetry is used over physical pages in `ShMem`, over processes in `Inode`,
`FileData` and the log's further configurations, never with a liveness
property.  Deadlock checking is off where the system may stop: a kernel that
has panicked (`ShMem`, `PrimeIPC`, `Bcache`, `FileData`), a user who has
stopped typing (`Shell`),
processes that have closed the pipe or wait for ever for one another, and in
`Inode` processes that stop in a panic or in the lock cycle of section 4.

Fairness.
* `PrimeIPC`: weak fairness of each program; the scheduler is round-robin and
  the timer preempts user code.  Nobody has to type a command: what is claimed
  is about commands that were given.
* `ProcTable`: strong fairness of each CPU's kernel steps and of its timer
  interrupt, since `scheduler` scans the whole table over and over and the
  spin lock is released again and again; a fork or exit that was begun goes
  on; init calls `wait` again (`user/init.c`).  Nothing is assumed about when
  programs make system calls.
* `Pipe`: strong fairness of a process's kernel steps, for the same reason; no
  fairness of calls, kills or closes.
* `Log`: the committing process goes on, operations end (they make finitely
  many writes), and a process in `begin_op` that is awake makes its test, which
  is weak fairness of `Begin`.  There is no queue: `wakeup` wakes all sleepers,
  and one that has just ended an operation may fill the log again before they
  run, for ever.  So `BeginProgress` says that every sleep ends, and that a
  process which never begins is overtaken again and again.
* `Bcache`: the disk answers (`Ideintr`) and kernel code goes on, both weakly
  fair.  A sleep lock has no queue, so nothing is claimed about who gets it;
  `Served` is about the disk.
* `Shell`: weak fairness of every process's steps and of init's; the
  scheduler is fair, and a step is enabled until it is taken.  Nobody has to
  type.
* `Inode`, `FileData`, `Console` and `Kmem` have safety properties only and assume no
  fairness.

Every property has a mutant in `PROJECT.json`: a wrong variant of one
operator, under which the run finds the property violated.

## 4. Disagreements between code and documentation

One run ends in a violation of what the code itself says:

* `PrimePanic` — `sleep(curproc, &curproc->parent)` at `kernel/sysfile.c:492`
  passes a pointer that is no lock; `release` panics when `primecalc` enters
  while `primecom` is inside.  `kernel/proc.c:447`: "Atomically release lock
  and sleep on chan."

### Further configurations

The following configurations ask about one more statement each, and end in
the violation named.  The first nine are `ShMem.cfg` with another workload of
`MCShMem` and the named invariant alone.  They are kept for the day the code changes: each should
then be turned into a passing run.

| Configuration | Violates | What the code does | What is said |
|---|---|---|---|
| `ShMem`, `Workloads <- OnlyOne` | `GetSharedSound` | `sysfile.c:499` compares names of entries no longer in use, and returns the address an earlier process had registered | `README.md:59` "`-2` if no shared structure with the given name exists" |
| `ShMem`, `Straddling` | `SharedSame` | `vm.c:429` counts pages from the size alone; a region that crosses a page boundary loses its last page | `README.md:19` "ensure each child process receives the same physical addresses mapped into its virtual memory space" |
| `ShMem`, `LikePrimestart`, `MAXSHARED = 2` | `ForkInherits` | `proc.c:225` gives up when all ten entries are used (its pages are lost, too) | `README.md:30` the child "inherits all common structures from its parent" |
| `ShMem`, `OnlyOneAny` | `NoDangling` | the parent's `exec`, or its exit and wait, free pages that the child maps | `vm.c:97` "mapped to phys memory allocated by the kernel" |
| `ShMem`, `TwoPages`, `NPTE = 1`, six pages | `NoAlias` | `vm.c:444`: when a region needs a second page table and there is no memory for it, the error path of `mappa2va` frees the parent's pages | as above |
| `ShMem`, `TooLarge` | `NoRemapPanic` | `share_mem` checks four bytes of a region, not its size; a later region is mapped over it and `mappages` panics | `README.md:48` "`-1` if any parameter is invalid" |
| `ShMem`, `OnlyOneAny`, `MAXSHARED = 1` | `NoOverrun` | `vm.c:471` stops at a size of 0 only, and leaves a full table | `README.md:50` "`-3` if there are more than 10 shared structures" |
| `ShMem`, `OnlyOne` | `ExecFailKeepsTable` | `vm.c:482` changes the caller's table before `exec` can still fail | `exec.c` "Commit to the user image." |
| `ShMem`, `Shrinking` | `NoCopyPanic` | `sbrk` to 0 frees the pages and reports an error (`proc.c:180`) | `vm.c:345` panic("copyuvm: page not present") |
| `PrimeLatest` | `LatestIsLatest` | `primecom.c:29` prints `niz[*idx - 1]`, the prime before the last | `README.md:72` "Prints the most recently calculated prime number" |
| `PrimeError` | `NoFalseError` | `primecom.c:35` compares a number with an index | `README.md:71` "If the *n*-th prime is not yet calculated, an error message is displayed" |
| `PrimeFour` | `AllPrime` | `primecalc.c:19` tries divisors below `i / 2`; 4 passes | `README.md:78` "calculates prime numbers" |
| `ProcWaitForever` | `WaitHasChild` | `proc.c:228` leaves `np->parent` when fork fails on a full table | `proc.c:301` "Return -1 if this process has no children." |
| `ProcKillUnused` | `KilledWasTarget` | `proc.c:518` matches pid 0 of unused slots; the mark stays | `proc.c:508` "Kill the process with the given pid." |
| `PipeKilled` | `KilledAwake` | a kill between the test of `killed` and `sleep` wakes nobody | `proc.c:520` "Wake process from sleep if necessary." |
| `LogOverrun` | `InLog` | the log on disk has `LOGSIZE - 1` data blocks, `begin_op` admits `LOGSIZE`, and the test that should catch the difference (`log.c:218`) is made outside of the lock; it takes operations that write all of their `MAXOPBLOCKS` blocks, and the callers write fewer | `param.h:11` "max data blocks in on-disk log" |
| `InodeDeadlock` | `NoLockCycle` | `create` locks the new inode and then, in `iunlockput(dp)`, its parent again, as does `sys_unlink` (`sysfile.c:225`, `280`): `iput` takes the sleep lock, and another process holds the parent and waits for the child | `fs.c:149` "The separation also helps avoid deadlock and races during pathname lookup." |
| `InodeLeak` | `NoOrphan` | `iput` releases the lock between its test of `ref` and the decrement: two last references put at once both see 2, and the inode stays allocated without a name | `fs.c:326` "If that was the last reference and the inode has no links to it, free the inode (and its content) on disk." |
| `InodeUp` | `NoPanic` | `..` of a directory that was removed, and whose parent was removed, names a freed inode | `fs.c:309` panic("ilock: no type") |

Four more come from changing a line of these configurations.
`KillPid = {1}` in `ProcKillUnused` with the invariant `InitStays`: `kill(1)`
makes init exit, which `exit` answers with `panic("init exiting")`.  The
invariant `NoTooBig` in `LogOverrun`: the operations that `begin_op` admits
make `log_write` panic without any race.  `Workloads <- LinkDot` in
`InodeDeadlock`: `dirlink` puts the inode of an entry that is there while it
holds the directory (`fs.c:555`), and for the name `.` that is the same lock.
`Workloads <- NoTables` in `ShMem`: `vm.c:478` keeps the -1 of
`mappa2va` in a `uint`, and a region is handed out unmapped (`SharedSame`).

A writer killed at a full pipe returns -1 without `wakeup(&p->nread)`
(`pipe.c:84-86`), possibly after it has put bytes.  Nothing is promised about
its readers, so `Pipe`'s `NoLostWakeup` is stated for pipes none of whose
processes has been killed.

## 5. Proofs

Each theorem holds for every value of the constants that satisfies the
module's assumption: any number of processes, CPUs, buffers, blocks and
pages, any sizes.

| Module | Theorem | Says |
|---|---|---|
| `PipeProofs` | `Invariance` | `Spec => []IInv`, the inductive invariant |
| | `RingSoundHolds` | types, the bound on the distance of the counters, one process at a time inside the lock |
| | `FreedUnusedHolds` | the pipe is freed when no process can be in a call on it |
| | `NoLostWakeupHolds` | nobody sleeps through the wakeup it waits for, as long as nobody is killed |
| | `PipeIsFIFO` | the pipe implements the bounded FIFO queue `PipeFIFO` |
| `LogProofs` | `LogSafe` | `[]LogSound`: entries and all that the operations in progress may still write fit in the header, a commit is alone, nothing is left at rest |
| | `LogWakeups` | `[]NoLostWakeup`: whoever sleeps in `begin_op` has a reason to |
| | `LogAtomic` | the log with crashes at every disk write, in recovery too, implements `AtomicOps` |
| `BcacheProofs` | `CacheSafe` | `[]CacheSound`: references counted, queue and sleepers match |
| | `CacheIsStore` | buffers, recycling, sleep locks and the disk's queue implement `BlockStore` |
| `ProcProofs` | `ProcSafe` | `[]ProcSound`: one CPU per process, `ptable.lock` handed over across `swtch`, parents alive |
| | `ProcWakeups` | `[]NoLostWakeup`: nobody sleeps in `wait` with a zombie child, its own or handed over by an exit, or killed |
| `ConsoleProofs` | `ReadersSafe` | `[]ReaderSound`: the indices stay in the ring, and no reader sleeps while a line is there |
| | `EndOfFile` | `EndOfFileOnce`: an end of file ends one read, however reads are cut |
| | `ConsoleIsLineQueue` | the ring and its three indices implement `LineQueue` |
| `PrimeProofs` | `PublicationSound` | `[]PrimeSound`: what is published was written, a pause is obeyed |
| | `PublicationStable` | `PublishedStable`: the index does not move back and nothing at or below it changes |
| `ShMemProofs` | `TableSafe` | `[]TableSound`, whatever programs register, free, exec and exit |
| | `PagesSafe` | `[]PagesSound`: every page has one owner, whatever fails and whenever a process exits, execs or shrinks, for modest programs |
| | `SharedSafe` | `[]SharedSound`: for fitting programs, linked children, grandchildren too, have their parent's bytes, nobody frees them, and linking neither panics nor overruns the table |
| `KmemProofs` | `LocksAlwaysSound` | `[]LocksSound`: one CPU in a lock's section, the lock taken exactly then, interrupts off in it, no panic |
| | `InterruptsAlwaysRight` | `[]InterruptsRight`: a thread's interrupts are as its own code says, on whichever CPU it goes on |
| | `PagesAlwaysSound` | `[]PagesSound`: a page is on the free list or with one thread, none is lost, the list ends |

### Assumptions

* `PipeAssumption`, `ConsoleAssumption`: the ring's size is positive and
  divides the range of the counters, which is at least twice as large.  The
  code has 512, 128 and 2^32.  With a size that does not divide 2^32 the slot
  `n % PIPESIZE` would jump at the wrap, so the assumption is needed.
* `LogAssumption`, `BcacheAssumption`: there are finitely many processes (the
  code has `NPROC`), since `outstanding` and `refcnt` count them; an operation
  fits in the log.
* `ShMemAssumption`: the layout of the address space, and `MAXSHARED <=
  PGSIZE` (10 and 4096), which the arithmetic of `linkphysaddr` relies on: see
  below.
* `KmemAssumption`: there are finitely many pages, page numbers are not 0 (the
  null pointer ends the list), the memory of `kinit1` has a page for the
  stack of each further CPU, and `kinit2` adds at least one, for init.  The
  code needs both: `startothers` does not look at what `kalloc` returned, and
  `userinit` panics.
* `ProcTableAssumption`, `PrimeAssumption`: numbers are in range.

### Arguments

**Pipe.** `IInv == TypeOK /\ LockOwner /\ Bounded /\ Ends /\ Sleepers`.
*Bounded* is inductive with types: a write needs `nwrite # nread + PIPESIZE`,
which the lemmas on wrapping distances (`DistPut`, `DistGet`) turn into the
statement that the distance grows only below `PIPESIZE`.  *FreedUnused* needs
`Ends`: a process in a call has its end open, an end is open exactly while
some process has it, and the pipe is freed when both are closed.
*NoLostWakeup* speaks of states in which the lock is free; to carry it across
the critical section `Sleepers` says what holds while a process is inside it,
between its test and its sleep in particular.  The refinement maps the ring to
the queue `Contents` of the bytes from `nread` to `nwrite`; `WriteByte` is the
abstract `Put` because the slots of different positions differ
(`SlotsDiffer`), `piperead`'s copy loop is one `Get`, and all other steps
leave the queue alone.

**Log.** `LogInv == TypeOK /\ CountInv /\ RoomInv /\ CommitInv /\ DiskInv /\
NoLostWakeup`.  `begin_op`
reserves `MAXOPBLOCKS` for each operation in progress, but entries that such
an operation has made count twice, in `lh.n` and in its reservation, and
entries of operations that have ended count once.  `RoomInv` (and `Reserved` in
`LogSound`) corrects for it: entries plus reservations exceed `LOGSIZE` by at
most the blocks that the operations in progress have `Charged`.  Charged
blocks are never more than reserved ones, shown by an injection into operations
times `1 .. MAXOPBLOCKS`, so the header never outgrows `LOGSIZE`.  When an
operation ends, what it charged is at most what it had reserved; when it
writes a block that is already logged, the entries stay and the charge grows.
To keep it, `CountInv` ties `outstanding` to the processes inside an operation.
The refinement maps the abstract disk to
what recovery would make of the disk as it is now.  `DiskInv` says for each
phase of the commit which of cache, log and home blocks agree: the write of
the header is the abstract commit, all others are stutters, and `Crash` is the
abstract crash at every phase.

**Bcache.** `CacheInv` adds to the types who has which buffer (`MineInv`), that
`refcnt` is the number of these processes (`RefInv`), the sleep lock from both
sides (`HoldInv`), that no block has two buffers (`DirInv`), what the flags say
about the contents (`FlagInv`), and the queue (`QueueInv`).  `CacheSound` is
part of it.  The abstract value of a block is that of its valid buffer or,
without one, the disk's; recycling does not change it because only a buffer
that is not dirty and that nobody has is recycled, and then `FlagInv` says that
it equals the disk.  Two processes cannot both have a block because of
`DirInv` and `HoldInv`.

**Process table.** `ProcInv` is `ProcSound` and `NoLostWakeup` with four more
conjuncts.  `Parked`: where a process stands when it is not running, so that
the one switched to is in the code after its `sched()` and releases the lock.
`IntrInv`: an interrupted process is at a place that may be preempted.
`ForkInv`: the slot of an unfinished fork belongs to one process, and nobody
schedules, reaps or kills it.  `TreeInv`: init is alive and everyone's parent
is alive, which needs `exit` to give away its children in the same critical
section in which it becomes a zombie.

**Console.** `ConsInv` has the lock, the bound on the distances between `r`,
`w` and `e` (`RingInv`), that the line being edited contains no newline
(`LineInv`: `KillLine` stops at a newline or at `w`, and the invariant says it
is `w`), and that a reader which has tested or sleeps has seen `r = w`
(`SleepInv`), which is stronger than what `ReaderSound` says of sleepers and
holds between test and sleep too.  `CharsOf` maps the ring to sequences as in
the pipe.

**Prime programs.** `PrimeInv` ties the place where `primecalc` is to the array
(`CalcInv`, `Published`: the index is one behind its count) and `primecom`'s
place to the bound that it has tested (`ComInv`); `PauseInv` counts what can
still be published after a pause.  No lock is involved: the argument is the
order of the two stores, and that each cell has one writer.

**Shared regions.** `TableSafe` needs that entries in use are a prefix of the
table with different names (`TableInv`); `share_mem` takes the first unused
entry, which exists as the element after the prefix.  It holds for all
workloads, with `fork` copying the prefix and `exec` rebuilding it.
`PagesSafe` rests on `Owned`: a page of the workload is in one place, the free
list or one private slot of one directory.  It is carried by lemmas about
adding pages from the list, giving pages back and moving a directory
(`exec`'s commit), which `sbrk`, `fork`, `exec`, `exit` and `wait` are
instances of.  The hard part is that linking never writes below `SHAREBASE`
and that its error path frees nothing: `LinkAt` says that `va` is less than a
page before a page that is not private.  A region that is not linked makes
`mappa2va` return -1, and `va` then moves *back* by one byte; there are at most
`MAXSHARED` of them, so with `MAXSHARED <= PGSIZE` it stays within the page.
The hypothesis `Modest` is where the code needs it: section 4 has the
counterexamples for a full table (`fork` gives up its slot with the pages) and
for a page table that fails in the middle of a region (`mappa2va` frees the
parent's pages).

`SharedSafe` adds `SharedInv == FamilyInv /\ KinInv /\ AncInv` to the invariant
of `PagesSafe`.  What `SharedSound` says of a linked child is not inductive: it
does not say what the child will find while it links, nor why its parent's
memory is still there.
* `KinInv` compares each process with its parent (`KinGood`): inherited entries
  not yet linked are the parent's entries, linked ones reach the parent's
  pages, and an `exec` in between has linked a prefix of them (`ExecGood`).
  Every registered region is mapped as far as `mappa2va` will look (`Covers`).
* `FamilyInv`: whoever has a child is `Steady`, that is, outside `exec` and
  with its own regions linked, so `parentpgdir` is the directory of a live
  parent that does not change while the child uses it.
* `AncInv`: a process may map pages of its grandparent, which `parentpgdir`
  does not name.  There is a set of ancestors for each process, each with a
  child that is the process or another of them, so that none of them can exit
  or exec, and every page mapped above `SHAREBASE` is a private page of one of
  them.  With `Owned`, which gives a page one private owner, nobody frees it.

That linking does not remap a page and stays below `KERNBASE` is the invariant
`Vacant` of the directory being built: before the i-th region `va` is at most
`SHAREBASE + i * Room`, `Room` being a `MAXSHARED`-th of the space, and nothing
is mapped from there on.  The last condition of `Fitting` keeps it; that the
table has an unused entry (`Modest`) is what ends the loop.  Without the
condition on pages the child loses the end of a region (section 4,
`Straddling`).  The theorem covers what the run is too small for: regions
of several pages in chains of several generations.

**Spin locks and pages.** A thread's state is the list of instructions it still
has to execute, so the invariant is about lists of instructions.  `LocksInv`:
* `CodeInv`: which instruction may follow which, in every list (`Fits`), and
  which thread may execute it (`Mine`); it makes the list a program of the
  kernel that was cut at the front.
* `BootInv`: until `use_lock` is set, CPU 0 alone uses the free list, with
  interrupts off, nobody takes `kmem.lock`, and there are no processes.
* `ThreadInv`: a thread that is on no CPU stands in `sched`, with
  `ptable.lock` left to whoever runs (`Parked`).
* `LockInv`: a lock is taken by the CPU whose thread is in its section, from
  `xchg` to the store that unlocks it, and `release` has cleared the owner
  when only that store is left.
* `CpuInv`: `ncli` is the number of sections the CPU's thread is in;
  interrupts are on only outside of them and of handlers; and `intena` is what
  the thread's own code says, except where `sched` has yet to put it back.

Each of the 26 actions keeps it (`KeepsLocks_...`), by what it takes off the
front of the list and what it puts there.  `LocksSound` follows because two
CPUs in one section would both have taken the lock, and `InterruptsRight` is
part of `CpuInv`.

`PageInv` says that there is a sequence, the free list, which `next` follows
from `freelist` to the null pointer (`Chain`), without repetition, and that
each page is either on it or with exactly one thread (`Placed`; the pages that
`freerange` has still to free are with the thread that boots); that a page
which an instruction frees is with its thread (`Owns`); and that what `kalloc` and `kfree` have
read is still true (`Fresh`), which is where mutual exclusion is needed: by
`LocksInv`, `OneUser` shows that no other thread is between those
instructions, with `kmem.lock` or, during boot, without.  `PagesSound` walks
the list with a recursive function; that the walk follows the sequence is an
induction over its length, made with a least counterexample instead of the
library's rule (`SetInduction`), and that the list is no longer than there are
pages is an injection.

### Only model-checked

* Liveness (`CloseUnblocks`, `KilledExits`, `SleepEnds`, `OrphansReaped`,
  `EndReachesAll`, `CommandFinishes`, `BeginProgress`, `Served`, `Settles`), which
  is beyond the prover.
* `Inode`: `RefsSound` counts pointers of processes, open files and directory
  entries at every step of `namex`, `create`, `sys_unlink` and `sys_link`; its
  inductive form has to say for each list of steps which pointers are still
  to be put.
* `FileData` and `Shell`.  `Mkfs`, on whose image `FileData` starts, and
  `ShParse` are recursive, which the prover cannot use.

## 6. What is not modelled

* `readi` and `writei` of device files, other than reading the console;
  `fstat`, which changes nothing; `sys_pipe`'s descriptors.
* Processes that hold two buffers at once, disk errors, and the second disk.
* How much of a file's data a crash keeps: `Log` shows that operations are
  whole, `FileData` which blocks an operation of `filewrite` changes; the two
  are not composed, and `itrunc`'s blocks are not counted (in the image that
  `mkfs` makes they are one bitmap block and the inode's).
* Page tables, page directories and kernel stacks are not counted as pages in
  `ShMem`; that an allocation fails is a choice.  The contents of pages are
  not modelled, only which physical page an address reaches.
* The parsing of ELF files, arguments and the prime programs' commands: a
  choice of sizes, names and commands.  The shell's characters, white space
  and the strings that `nulterminate` cuts: `ShParse` starts from tokens.
* In `Shell`, programs other than `echo` and `cat` without arguments; what a
  file or the console has to read (both are at their end at once).
* The order in which a processor makes its stores visible
  (`__sync_synchronize`), and `getcallerpcs`.  Outside of `Kmem` a lock is its
  holder's name, with interrupts off while it is held.
* `user/umalloc.c`, a sequential free list within a process; `usertests`, the
  user library and the small programs, which are clients of the system calls.
* Boot code, device set-up and output: hardware without state that other
  parts race for; `mkfs`'s super block.
* Wrap of `nextpid`: `MaxPid` bounds the pids of a run.

## 7. Plan

Done: `ShMem`, `PrimeIPC`, `ProcTable`, `Pipe` with `PipeFIFO`,
`Log` with `AtomicOps`, `Bcache` with `BlockStore`, `Inode`, `FileData` with
`FileStore` on `Mkfs`, `Console` with `LineQueue`, `Shell` with `ShParse`,
`Kmem`; proofs about `Pipe`, `Log`, `Bcache`, `ProcTable`, `Console`,
`PrimeIPC`, `ShMem` and `Kmem`.  In order:

1. Proofs: the counts of `Inode` (`RefsSound`).
2. `user/umalloc.c`: the circular free list, blocks disjoint and merged.
3. Buffers counted over `Log` and `Bcache` together: `NBUF` equals `LOGSIZE`,
   and a full group pins them all.
