------------------------------- MODULE ShMem -------------------------------
(***************************************************************************)
(* Shared memory of the modified xv6: the per-process table of shared      *)
(* regions (share_mem, get_shared), how fork inherits it, how exec maps    *)
(* the parent's physical pages at SHAREBASE (linkphysaddr, mappa2va), and  *)
(* everything else that moves user pages: sbrk, exec's image, exit, wait.  *)
(*                                                                         *)
(* A system call is one step, except exec, whose loop over the shared      *)
(* table reads ANOTHER process's page directory with no lock: exec loads   *)
(* (ExecLoad), links one region per step (LinkRegion), then commits or     *)
(* fails.  Other processes run between these steps.                        *)
(*                                                                         *)
(* Addresses are bytes, scaled down: PGSIZE, INT (sizeof(int)), SHAREBASE  *)
(* and KERNBASE are parameters, and addresses wrap at 2*KERNBASE as they   *)
(* wrap at 2^32.  A page directory is a function from virtual page numbers *)
(* to physical pages.  Page tables, page directories and kernel stacks are *)
(* not counted: allocating one may fail at any time.                       *)
(***************************************************************************)
EXTENDS Integers, FiniteSets

CONSTANTS
    NPROC,       \* slots of ptable at most; slot 1 is initproc
    Page,        \* physical pages available for user memory
    NoPage,      \* an empty page table entry
    PGSIZE,      \* bytes in a page
    INT,         \* sizeof(int) and sizeof(uint)
    NPTE,        \* entries of one page table
    SHAREBASE,   \* first address above a process's own memory
    KERNBASE,    \* first kernel address
    MAXSHARED,   \* entries of the table of shared regions
    NSTACK,      \* pages exec allocates for guard and stack (2 in the code)
    Name,        \* names of regions that programs use
    NoName,      \* the empty name of a table entry that was never written
    ExecSize,    \* image sizes of the programs given to exec
    Workloads    \* what programs do, one of these in each behaviour:
                 \*   obeys     TRUE: they follow the protocol of primestart
                 \*   region    arguments given to share_mem
                 \*   sbrk      arguments given to sbrk, also negative ones
                 \*   tablefail TRUE: linking may get no page table
                 \*   page      the physical pages there are
                 \*   nproc     the slots of ptable there are

Word == 2 * KERNBASE
Addr == 0 .. Word - 1
NVPN == KERNBASE \div PGSIZE
VPN == 0 .. NVPN - 1
PrivVPN == 0 .. (SHAREBASE \div PGSIZE) - 1
Proc == 1 .. NPROC
initproc == 1
NoProc == 0
Freed == NPROC + 1
Idx == 0 .. MAXSHARED - 1
InitPage == CHOOSE pg \in Page : TRUE

ASSUME ShMemAssumption ==
    /\ NPROC \in Nat /\ NPROC >= 2
    /\ PGSIZE \in Nat \ {0} /\ INT \in Nat \ {0} /\ NPTE \in Nat \ {0}
    /\ SHAREBASE \in Nat /\ KERNBASE \in Nat
    /\ SHAREBASE % (PGSIZE * NPTE) = 0 /\ KERNBASE % PGSIZE = 0
    /\ PGSIZE < SHAREBASE /\ SHAREBASE < KERNBASE
    /\ MAXSHARED \in 1 .. PGSIZE /\ NSTACK \in Nat \ {0}
    /\ NoPage \notin Page /\ NoName \notin Name
    /\ ExecSize \subseteq Nat \ {0}
    /\ \A w \in Workloads :
          /\ w.obeys \in BOOLEAN /\ w.tablefail \in BOOLEAN
          /\ w.region \subseteq [name : Name, memstart : Nat, sz : Int]
          /\ w.sbrk \subseteq Int
          /\ InitPage \in w.page /\ w.page \subseteq Page
          /\ w.nproc \in 1 .. NPROC

VARIABLES
    state,       \* proc.state; EMBRYO..RUNNING are all "RUN" here
    parent,      \* proc.parent
    sz,          \* proc.sz
    parentpgdir, \* proc.parentpgdir: whose directory, or Freed
    shared,      \* proc.shared
    dir,         \* directory of a process, and the one its exec builds
    exec,        \* progress of an exec: step, image size, region, va
    free,        \* the allocator's free user pages
    fault,       \* "none", or why the kernel panicked or overran its table
    inherited,   \* history: entries the process got from fork
    linked,      \* history: "started" by an exec that links, "done" at its commit
    use          \* the workload of this behaviour

vars == <<state, parent, sz, parentpgdir, shared, dir, exec, free, fault,
          inherited, linked, use>>

EmptyDir == [v \in VPN |-> NoPage]
NoEntry == [name |-> NoName, memstart |-> 0, sz |-> 0]
NoExec == [pc |-> "none", sz |-> 0, i |-> 0, va |-> 0]
DirId == Proc \X {"cur", "new"}

TypeOK ==
    /\ state \in [Proc -> {"UNUSED", "RUN", "ZOMBIE"}]
    /\ parent \in [Proc -> Proc \cup {NoProc}]
    /\ sz \in [Proc -> 0 .. SHAREBASE - 1]
    /\ parentpgdir \in [Proc -> Proc \cup {Freed}]
    /\ shared \in [Proc -> [Idx -> [name : Name \cup {NoName},
                                    memstart : Addr, sz : Int]]]
    /\ dir \in [DirId -> [VPN -> Page \cup {NoPage}]]
    /\ exec \in [Proc -> [pc : {"none", "link", "stack"},
                          sz : 0 .. SHAREBASE - 1, i : 0 .. MAXSHARED,
                          va : Addr]]
    /\ free \subseteq Page
    /\ fault \in {"none", "remap", "copyuvm", "overrun"}
    /\ inherited \in [Proc -> 0 .. MAXSHARED]
    /\ linked \in [Proc -> {"no", "started", "done"}]

(***************************************************************************)
(* Pages and directories                                                   *)
(***************************************************************************)
PGROUNDUP(a) == (((a + PGSIZE - 1) % Word) \div PGSIZE) * PGSIZE

Present(d, v) == v \in VPN /\ d[v] # NoPage

\* The pages allocuvm adds, and deallocuvm visits, between two sizes.
PagesBetween(oldsz, newsz) ==
    {v \in VPN : PGROUNDUP(oldsz) <= v * PGSIZE /\ v * PGSIZE < newsz}

\* kalloc, once per member of V: each gets a different free page.
KallocFor(V) ==
    {f \in [V -> free] : \A v, w \in V : f[v] = f[w] => v = w}

\* mappages of the pages of f in directory d.
MapPages(d, f) == [v \in VPN |-> IF v \in DOMAIN f THEN f[v] ELSE d[v]]

PagesAt(d, V) == {d[v] : v \in V} \ {NoPage}
Unmap(d, V) == [v \in VPN |-> IF v \in V THEN NoPage ELSE d[v]]

\* Mutant: freevm starts at the second page.
FreevmLate(d) == PagesAt(d, PrivVPN \ {0})

\* freevm frees what is mapped below SHAREBASE, never the shared pages.
FreevmPages(d) == PagesAt(d, PrivVPN)

\* Whoever still points to p's directory points to freed memory.
DropDir(p) ==
    [q \in Proc |-> IF parentpgdir[q] = p THEN Freed ELSE parentpgdir[q]]

\* A process outside exec.  A child that follows primestart.c exits when its
\* exec fails.
Idle(p) == fault = "none" /\ state[p] = "RUN" /\ exec[p] = NoExec
Disciplined == use.obeys
Obeys(p) == Disciplined => linked[p] # "started"

\* A process that can make a system call with arguments: the page its code
\* and data start on is mapped (sbrk may have taken it away).
CanRun(p) == Idle(p) /\ Obeys(p) /\ Present(dir[<<p, "cur">>], 0)

Children(p) == {q \in Proc : parent[q] = p /\ state[q] # "UNUSED"}

\* What primestart.c does: it registers memory it has, and a process with
\* children only waits for them.
Settled(p) == Disciplined => Children(p) = {}

\* What its children do: a process that inherited regions execs a program that
\* links them before it registers or forks itself.
Ready(p) == Disciplined => inherited[p] = 0 \/ linked[p] = "done"

(***************************************************************************)
(* The table of shared regions                                             *)
(***************************************************************************)
Active(p) == {i \in Idx : shared[p][i].sz # 0}

\* The loops over the table stop at the first entry whose size is 0.
FirstFree(t) ==
    IF \E i \in Idx : t[i].sz = 0
    THEN CHOOSE i \in Idx : t[i].sz = 0 /\ \A j \in 0 .. i - 1 : t[j].sz # 0
    ELSE MAXSHARED

ClearSizes(t) == [i \in Idx |-> [t[i] EXCEPT !.sz = 0]]

\* sys_share_mem: argptr's bounds, -3, -2, and the entry it fills.
ArgOK(p, r) == r.memstart < sz[p] /\ r.memstart + INT <= sz[p]

NameTaken(p, n) ==
    \E i \in 0 .. FirstFree(shared[p]) - 1 : shared[p][i].name = n

ShareMem(p, r) ==
    /\ CanRun(p) /\ p # initproc /\ Ready(p)
    /\ ArgOK(p, r)
    /\ Disciplined => r.memstart + r.sz <= sz[p]
    /\ FirstFree(shared[p]) < MAXSHARED
    /\ ~NameTaken(p, r.name)
    /\ shared' = [shared EXCEPT ![p][FirstFree(shared[p])] = r]
    /\ UNCHANGED <<state, parent, sz, parentpgdir, dir, exec, free, fault,
                   inherited, linked>>

\* sys_get_shared's search: the first entry with that name, used or not.
Found(p, n) == \E i \in Idx : shared[p][i].name = n
GetShared(p, n) ==
    LET i == CHOOSE j \in Idx : /\ shared[p][j].name = n
                                /\ \A k \in 0 .. j - 1 : shared[p][k].name # n
    IN  shared[p][i].memstart

(***************************************************************************)
(* sbrk: growproc, allocuvm, deallocuvm.  A grow that runs out of memory   *)
(* gives back what it took and changes nothing.                            *)
(***************************************************************************)
Grow(p, n) ==
    LET newsz == (sz[p] + n) % Word
    IN  /\ CanRun(p) /\ p # initproc
        /\ n > 0 /\ newsz < SHAREBASE /\ newsz >= sz[p]
        /\ \E f \in KallocFor(PagesBetween(sz[p], newsz)) :
              /\ dir' = [dir EXCEPT ![<<p, "cur">>] = MapPages(@, f)]
              /\ free' = free \ {f[v] : v \in DOMAIN f}
        /\ sz' = [sz EXCEPT ![p] = newsz]
        /\ UNCHANGED <<state, parent, parentpgdir, shared, exec, fault,
                       inherited, linked>>

\* Shrinking to 0 makes deallocuvm return 0, which growproc takes for an
\* error: the pages are gone and sz stays.
Shrink(p, n) ==
    LET newsz == (sz[p] + n) % Word
        V == PagesBetween(newsz, sz[p])
    IN  /\ CanRun(p) /\ p # initproc /\ Settled(p)
        /\ n < 0 /\ newsz < sz[p]
        /\ dir' = [dir EXCEPT ![<<p, "cur">>] = Unmap(@, V)]
        /\ free' = free \cup PagesAt(dir[<<p, "cur">>], V)
        /\ sz' = [sz EXCEPT ![p] = IF newsz = 0 THEN @ ELSE newsz]
        /\ UNCHANGED <<state, parent, parentpgdir, shared, exec, fault,
                       inherited, linked>>

(***************************************************************************)
(* fork: allocproc takes the first UNUSED slot and zeroes the sizes of its *)
(* table (names and addresses of an earlier process stay), copyuvm copies  *)
(* [0, sz), then the table is copied up to the first size that is 0.       *)
(***************************************************************************)
FirstUnused(q) ==
    /\ q <= use.nproc /\ state[q] = "UNUSED"
    /\ \A r \in 1 .. q - 1 : state[r] # "UNUSED"

UserPages(p) == {v \in VPN : v * PGSIZE < sz[p]}

\* Mutant: fork copies the table from entry 1 on.
InheritFromOne(p, np) ==
    [i \in Idx |-> IF 0 < i /\ i < FirstFree(shared[p]) THEN shared[p][i]
                   ELSE [shared[np][i] EXCEPT !.sz = 0]]

Inherit(p, np) ==
    [i \in Idx |-> IF i < FirstFree(shared[p]) THEN shared[p][i]
                   ELSE [shared[np][i] EXCEPT !.sz = 0]]

\* A process whose pages sbrk took away can still get here: growproc returns
\* before switchuvm, so cached translations keep it running.
CanFork(p, np) == Idle(p) /\ Obeys(p) /\ Ready(p) /\ FirstUnused(np)

\* The loop that copies the table gives up when no entry is unused: the slot
\* goes back to UNUSED with everything fork already stored in it.
Fork(p, np) ==
    /\ CanFork(p, np)
    /\ \A v \in UserPages(p) : Present(dir[<<p, "cur">>], v)
    /\ \E f \in KallocFor(UserPages(p)) :
          /\ dir' = [dir EXCEPT ![<<np, "cur">>] = MapPages(EmptyDir, f)]
          /\ free' = free \ {f[v] : v \in DOMAIN f}
    /\ state' = [state EXCEPT ![np] = IF FirstFree(shared[p]) < MAXSHARED
                                      THEN "RUN" ELSE "UNUSED"]
    /\ parent' = [parent EXCEPT ![np] = p]
    /\ sz' = [sz EXCEPT ![np] = sz[p]]
    /\ parentpgdir' = [parentpgdir EXCEPT ![np] = p]
    /\ shared' = [shared EXCEPT ![np] = Inherit(p, np)]
    /\ inherited' = [inherited EXCEPT ![np] = FirstFree(shared[p])]
    /\ linked' = [linked EXCEPT ![np] = "no"]
    /\ UNCHANGED <<exec, fault>>

\* copyuvm runs out of memory: freevm gives the copies back, pgdir is 0.
ForkNoMem(p, np) ==
    /\ CanFork(p, np)
    /\ dir' = [dir EXCEPT ![<<np, "cur">>] = EmptyDir]
    /\ shared' = [shared EXCEPT ![np] = ClearSizes(@)]
    /\ UNCHANGED <<state, parent, sz, parentpgdir, exec, free, fault,
                   inherited, linked>>

\* copyuvm panics when a page below sz is missing.
ForkPanic(p, np) ==
    /\ CanFork(p, np)
    /\ \E v \in UserPages(p) : ~Present(dir[<<p, "cur">>], v)
    /\ fault' = "copyuvm"
    /\ UNCHANGED <<state, parent, sz, parentpgdir, shared, dir, exec, free,
                   inherited, linked>>

(***************************************************************************)
(* exec                                                                    *)
(***************************************************************************)
InExec(p, pc) == fault = "none" /\ exec[p].pc = pc

\* The image is loaded in a new directory.  prime: argv[0] is "primecalc" or
\* "primecom".  A load that fails frees the new directory: nothing changed.
\* Nobody who follows primestart execs with regions that exec would leave
\* without memory: those it registered itself, or does not link.
ExecLoad(p, isz, prime) ==
    /\ CanRun(p) /\ p # initproc /\ Settled(p)
    /\ Disciplined => /\ linked[p] = "no"
                      /\ FirstFree(shared[p]) = inherited[p]
                      /\ prime \/ inherited[p] = 0
    /\ isz < SHAREBASE
    /\ \E f \in KallocFor(PagesBetween(0, isz)) :
          /\ dir' = [dir EXCEPT ![<<p, "new">>] = MapPages(EmptyDir, f)]
          /\ free' = free \ {f[v] : v \in DOMAIN f}
    /\ exec' = [exec EXCEPT ![p] = [pc |-> IF prime THEN "link" ELSE "stack",
                                    sz |-> isz, i |-> 0, va |-> SHAREBASE]]
    /\ linked' = [linked EXCEPT ![p] = IF prime THEN "started" ELSE "no"]
    /\ UNCHANGED <<state, parent, sz, parentpgdir, shared, fault, inherited>>

\* Stack pages, then the commit: the old directory goes to freevm.
ExecCommit(p) ==
    LET sz1 == PGROUNDUP(exec[p].sz)
        sz2 == sz1 + NSTACK * PGSIZE
        old == dir[<<p, "cur">>]
    IN  /\ InExec(p, "stack")
        /\ sz2 < SHAREBASE
        /\ \E f \in KallocFor(PagesBetween(sz1, sz2)) :
              /\ dir' = [dir EXCEPT
                            ![<<p, "cur">>] = MapPages(dir[<<p, "new">>], f),
                            ![<<p, "new">>] = EmptyDir]
              /\ free' = (free \ {f[v] : v \in DOMAIN f})
                         \cup FreevmPages(old)
        /\ sz' = [sz EXCEPT ![p] = sz2]
        /\ parentpgdir' = DropDir(p)
        /\ exec' = [exec EXCEPT ![p] = NoExec]
        /\ linked' = [linked EXCEPT ![p] = IF @ = "started" THEN "done" ELSE @]
        /\ UNCHANGED <<state, parent, shared, fault, inherited>>

\* No memory for the stack, or too many or unreadable arguments.
ExecBad(p) ==
    /\ InExec(p, "stack")
    /\ free' = free \cup FreevmPages(dir[<<p, "new">>])
    /\ dir' = [dir EXCEPT ![<<p, "new">>] = EmptyDir]
    /\ exec' = [exec EXCEPT ![p] = NoExec]
    /\ UNCHANGED <<state, parent, sz, parentpgdir, shared, fault, inherited,
                   linked>>

(***************************************************************************)
(* linkphysaddr, one region per step.  mappa2va returns the bytes it       *)
(* mapped or -1, but the caller keeps the result in a uint: an error is    *)
(* never seen, and va moves back by one byte.                              *)
(***************************************************************************)
USize(p) == shared[p][exec[p].i].sz % Word
Pages(p) == PGROUNDUP(USize(p)) \div PGSIZE
Source(p, k) ==
    ((shared[p][exec[p].i].memstart + k * PGSIZE) % Word) \div PGSIZE
Target(p, k) == (PGROUNDUP(exec[p].va) \div PGSIZE) + k

\* What walking parentpgdir can return for page k of the region.  Of a
\* directory that was freed (and perhaps reused) it can return anything.
WalkParent(p, k) ==
    IF parentpgdir[p] = Freed THEN use.page \cup {NoPage}
    ELSE IF Present(dir[<<parentpgdir[p], "cur">>], Source(p, k))
         THEN {dir[<<parentpgdir[p], "cur">>][Source(p, k)]}
         ELSE {NoPage}

\* The outcomes of mapping the first n pages of the region.
Walks(p, n) ==
    {w \in [0 .. n - 1 -> Page] :
        \A k \in 0 .. n - 1 : w[k] \in WalkParent(p, k)}

\* The new directory once those pages are mapped.
Linked(p, w) ==
    LET t0 == Target(p, 0)
    IN  [v \in VPN |-> IF v - t0 \in DOMAIN w THEN w[v - t0]
                       ELSE dir[<<p, "new">>][v]]

NoRemap(p, n) ==
    \A k \in 0 .. n - 1 : /\ Target(p, k) \in VPN
                          /\ ~Present(dir[<<p, "new">>], Target(p, k))

\* Mapping page k needs a new page table, which kalloc may not have.
NeedsTable(p, k) ==
    /\ use.tablefail
    /\ Target(p, k) \in VPN
    /\ k = 0 \/ Target(p, k) % NPTE = 0
    /\ \A v \in VPN : v \div NPTE = Target(p, k) \div NPTE
                      => ~Present(dir[<<p, "new">>], v)

\* va + sz with va a uint*: sz is scaled by sizeof(uint).
PtrAdd(va, n) == (va + INT * n) % Word
TooHigh(p) == PtrAdd(exec[p].va, USize(p)) >= KERNBASE

LinkStep(p) ==
    /\ InExec(p, "link")
    /\ exec[p].i < MAXSHARED /\ shared[p][exec[p].i].sz # 0

Advance(va, ret) == (va + ret) % Word

\* Mutant: the offset in the page is lost.
LinkedStartAligned(va, memstart) == va

\* The low 12 bits of the address stay.
LinkedStart(va, memstart) == (va + (memstart % PGSIZE)) % Word

\* What linkphysaddr does with mappa2va's result.
NextRegion(p, ret) ==
    LET e == exec[p]
    IN  /\ shared' = [shared EXCEPT ![p][e.i].memstart = LinkedStart(e.va, @)]
        /\ exec' = [exec EXCEPT ![p].i = @ + 1, ![p].va = Advance(@, ret)]
        /\ UNCHANGED <<state, parent, sz, parentpgdir, fault, inherited,
                       linked>>

LinkTooHigh(p) ==
    /\ LinkStep(p) /\ TooHigh(p)
    /\ NextRegion(p, -1)
    /\ UNCHANGED <<dir, free>>

LinkOK(p) ==
    /\ LinkStep(p) /\ ~TooHigh(p)
    /\ NoRemap(p, Pages(p))
    /\ \E w \in Walks(p, Pages(p)) :
          dir' = [dir EXCEPT ![<<p, "new">>] = Linked(p, w)]
    /\ NextRegion(p, Pages(p) * PGSIZE)
    /\ UNCHANGED free

\* Page n of the region is missing in the parent; the pages before it stay.
LinkMissing(p) ==
    /\ LinkStep(p) /\ ~TooHigh(p)
    /\ \E n \in 0 .. Pages(p) - 1 :
          /\ NoPage \in WalkParent(p, n)
          /\ NoRemap(p, n)
          /\ \E w \in Walks(p, n) :
                dir' = [dir EXCEPT ![<<p, "new">>] = Linked(p, w)]
    /\ NextRegion(p, -1)
    /\ UNCHANGED free

\* No page table for page n: mappa2va calls deallocuvm on what it mapped,
\* which frees the PARENT's pages.
LinkNoTable(p) ==
    /\ LinkStep(p) /\ ~TooHigh(p)
    /\ \E n \in 0 .. Pages(p) - 1 :
          /\ NeedsTable(p, n) /\ NoRemap(p, n)
          /\ WalkParent(p, n) # {NoPage}
          /\ \E w \in Walks(p, n) :
                LET V == PagesBetween(exec[p].va,
                             PtrAdd(exec[p].va, Pages(p) * PGSIZE))
                IN  /\ free' = free \cup PagesAt(Linked(p, w), V)
                    /\ dir' = [dir EXCEPT ![<<p, "new">>] =
                                             Unmap(Linked(p, w), V)]
    /\ NextRegion(p, -1)

\* mappages panics when the page is mapped already.
LinkRemap(p) ==
    /\ LinkStep(p) /\ ~TooHigh(p)
    /\ \E n \in 0 .. Pages(p) - 1 :
          /\ ~NoRemap(p, n + 1)
          /\ \E w \in Walks(p, n + 1) : TRUE
    /\ fault' = "remap"
    /\ UNCHANGED <<state, parent, sz, parentpgdir, shared, dir, exec, free,
                   inherited, linked>>

\* The loop has no bound: after the last entry it reads the next slot of
\* ptable, where proc.parent is what shared[MAXSHARED].sz would be.
NextParent(p) ==
    IF p = use.nproc THEN Proc \cup {NoProc} ELSE {parent[p + 1]}

LinkDone(p) ==
    /\ InExec(p, "link")
    /\ \/ exec[p].i < MAXSHARED /\ shared[p][exec[p].i].sz = 0
       \/ exec[p].i = MAXSHARED /\ NoProc \in NextParent(p)
    /\ exec' = [exec EXCEPT ![p].pc = "stack"]
    /\ UNCHANGED <<state, parent, sz, parentpgdir, shared, dir, free, fault,
                   inherited, linked>>

LinkOverrun(p) ==
    /\ InExec(p, "link")
    /\ exec[p].i = MAXSHARED /\ NextParent(p) # {NoProc}
    /\ fault' = "overrun"
    /\ UNCHANGED <<state, parent, sz, parentpgdir, shared, dir, exec, free,
                   inherited, linked>>

LinkRegion(p) ==
    \/ LinkTooHigh(p) \/ LinkOK(p) \/ LinkMissing(p) \/ LinkNoTable(p)
    \/ LinkRemap(p) \/ LinkDone(p) \/ LinkOverrun(p)

(***************************************************************************)
(* exit and wait                                                           *)
(***************************************************************************)
Reparent(p) == [q \in Proc |-> IF parent[q] = p THEN initproc ELSE parent[q]]

Exit(p) ==
    /\ Idle(p) /\ p # initproc /\ Settled(p)
    /\ shared' = [shared EXCEPT ![p] = ClearSizes(@)]
    /\ parent' = Reparent(p)
    /\ state' = [state EXCEPT ![p] = "ZOMBIE"]
    /\ UNCHANGED <<sz, parentpgdir, dir, exec, free, fault, inherited,
                   linked>>

\* wait finds the zombie child q and frees its directory.
Wait(p, q) ==
    /\ CanRun(p)
    /\ parent[q] = p /\ state[q] = "ZOMBIE"
    /\ \A r \in 1 .. q - 1 : ~(parent[r] = p /\ state[r] = "ZOMBIE")
    /\ free' = free \cup FreevmPages(dir[<<q, "cur">>])
    /\ dir' = [dir EXCEPT ![<<q, "cur">>] = EmptyDir]
    /\ parentpgdir' = DropDir(q)
    /\ state' = [state EXCEPT ![q] = "UNUSED"]
    /\ parent' = [parent EXCEPT ![q] = NoProc]
    /\ inherited' = [inherited EXCEPT ![q] = 0]
    /\ linked' = [linked EXCEPT ![q] = "no"]
    /\ UNCHANGED <<sz, shared, exec, fault>>

\* userinit: initproc with one page.
Init ==
    /\ state = [p \in Proc |-> IF p = initproc THEN "RUN" ELSE "UNUSED"]
    /\ parent = [p \in Proc |-> NoProc]
    /\ sz = [p \in Proc |-> IF p = initproc THEN PGSIZE ELSE 0]
    /\ parentpgdir = [p \in Proc |-> Freed]
    /\ shared = [p \in Proc |-> [i \in Idx |-> NoEntry]]
    /\ exec = [p \in Proc |-> NoExec]
    /\ use \in Workloads
    /\ dir = [d \in DirId |->
                 IF d = <<initproc, "cur">>
                 THEN [v \in VPN |-> IF v = 0 THEN InitPage ELSE NoPage]
                 ELSE EmptyDir]
    /\ free = use.page \ {InitPage}
    /\ fault = "none"
    /\ inherited = [p \in Proc |-> 0]
    /\ linked = [p \in Proc |-> "no"]

Next ==
    /\ UNCHANGED use
    /\ \E p \in Proc :
        \/ \E r \in use.region : ShareMem(p, r)
        \/ \E n \in use.sbrk : Grow(p, n) \/ Shrink(p, n)
        \/ \E np \in Proc : Fork(p, np) \/ ForkNoMem(p, np) \/ ForkPanic(p, np)
        \/ \E isz \in ExecSize, prime \in BOOLEAN : ExecLoad(p, isz, prime)
        \/ LinkRegion(p) \/ ExecCommit(p) \/ ExecBad(p)
        \/ Exit(p)
        \/ \E q \in Proc : Wait(p, q)

Spec == Init /\ [][Next]_vars

(***************************************************************************)
(* Properties                                                              *)
(***************************************************************************)

\* The used entries of a process's table are a prefix of it.  share_mem,
\* fork and linkphysaddr all stop at the first unused entry, so a hole would
\* hide regions from them; fork copies into a slot with a stale table.
ActivePrefix ==
    \A p \in Proc : \A i \in Idx : i \in Active(p) <=> i < FirstFree(shared[p])

\* get_shared searches stale entries too, yet for a region in use it returns
\* that region's own address, never a stale entry's.
LookupActive ==
    \A p \in Proc : \A i \in Active(p) :
        GetShared(p, shared[p][i].name) = shared[p][i].memstart

\* A physical page has one private owner: it is mapped below SHAREBASE in at
\* most one place of one directory (the ones exec is building included), and
\* never while it is on the allocator's free list.
NoAlias ==
    /\ \A a, b \in DirId : \A v, w \in PrivVPN :
          /\ dir[a][v] # NoPage
          /\ dir[a][v] = dir[b][w]
          => a = b /\ v = w
    /\ \A a \in DirId : \A v \in PrivVPN : dir[a][v] \notin free

\* No page is lost: each is free or privately mapped by a slot in use, after
\* every failure path of fork, exec and linkphysaddr as well.
NoLeak ==
    \A pg \in use.page :
        \/ pg \in free
        \/ \E a \in DirId : \E v \in PrivVPN :
              dir[a][v] = pg /\ state[a[1]] # "UNUSED"

\* Programs that leave an entry of the table unused (a full table makes fork
\* drop the slot with its pages) and, where linking may get no page table,
\* register regions of at most a page (mappa2va frees the pages that it mapped
\* before, which are the parent's).
Modest(w) ==
    /\ IsFiniteSet({r.name : r \in w.region})
    /\ Cardinality({r.name : r \in w.region}) < MAXSHARED
    /\ w.tablefail => \A r \in w.region : r.sz <= PGSIZE /\ r.sz >= 0

\* Pages are accounted for: each one has exactly one owner, a directory or the
\* allocator, whatever fails and whenever a process exits, execs or shrinks.
PagesSound == Modest(use) => NoAlias /\ NoLeak

\* A page that a live process can reach above SHAREBASE still belongs to
\* somebody: it is not on the free list, from where kalloc would hand it to
\* another process.
NoDangling ==
    \A p \in Proc : state[p] = "RUN" =>
        \A v \in VPN \ PrivVPN : dir[<<p, "cur">>][v] \notin free

\* README: "ensure each child process receives the same physical addresses
\* mapped".  Once a child has linked, every byte of every region it inherited
\* is on the same physical page as in its parent, at the same page offset.
PageOf(d, a) == d[(a % Word) \div PGSIZE]
SameByte(p, q, i, o) ==
    LET a == shared[p][i].memstart + o
        b == shared[q][i].memstart + o
    IN  PageOf(dir[<<q, "cur">>], b) # NoPage
        => /\ PageOf(dir[<<p, "cur">>], a) = PageOf(dir[<<q, "cur">>], b)
           /\ a % PGSIZE = b % PGSIZE

SharedSame ==
    \A p \in Proc :
        /\ state[p] = "RUN" /\ linked[p] = "done" /\ exec[p] = NoExec
        /\ parentpgdir[p] \in Proc
        => \A i \in 0 .. inherited[p] - 1 :
              \A o \in 0 .. shared[p][i].sz - 1 :
                  SameByte(p, parentpgdir[p], i, o)

\* An exec that fails before "Commit to the user image" (exec.c) leaves the
\* process as it was: its table still holds addresses of its own memory.
ExecFailKeepsTable ==
    \A p \in Proc :
        state[p] = "RUN" /\ exec[p] = NoExec /\ linked[p] = "started"
        => \A i \in Active(p) : shared[p][i].memstart < SHAREBASE

\* README: get_shared returns -2 "if no shared structure with the given name
\* exists": what it finds is a region in use.
GetSharedSound ==
    \A p \in Proc : \A n \in Name :
        CanRun(p) /\ Found(p, n) => \E i \in Active(p) : shared[p][i].name = n

\* README: on fork "the new (child) process inherits all common structures
\* from its parent"; a table that share_mem accepted never makes the slot
\* that fork took fall back to UNUSED.
ForkInherits ==
    \A q \in Proc : state[q] = "UNUSED" => Active(q) = {}

\* The kernel neither panics nor runs past the table while it links.
NoFault == fault = "none"

\* The table and what get_shared, fork and exec make of it, at every step of
\* fork, exec and exit, whatever programs do.
TableSound == TypeOK /\ ActivePrefix /\ LookupActive

\* Programs that follow primestart, with regions as it has them: the pages that
\* mappa2va counts from the size alone hold the region, and MAXSHARED regions
\* of that size fit below KERNBASE, with the size scaled as mappa2va does.
\* They do not shrink, and have the page tables that linking needs.
Fitting(w) ==
    /\ w.obeys /\ ~w.tablefail /\ Modest(w)
    /\ \A n \in w.sbrk : n >= 0
    /\ \A r \in w.region :
          /\ r.sz >= 0
          /\ (r.memstart % PGSIZE) + r.sz <= PGROUNDUP(r.sz)
          /\ INT * PGROUNDUP(r.sz) <= (KERNBASE - SHAREBASE) \div MAXSHARED

\* What linkphysaddr promises such programs: a child has its parent's bytes,
\* nobody frees them under it, and the kernel neither panics nor runs past the
\* table.
SharedSound == Fitting(use) => NoFault /\ NoDangling /\ SharedSame

\* share_mem returns -1 "if any parameter is invalid" (README), so no table
\* makes linkphysaddr map a page twice, on which mappages panics.
NoRemapPanic == fault # "remap"

\* linkphysaddr stays inside the table that share_mem lets a process fill.
NoOverrun == fault # "overrun"

\* copyuvm's own assertion, panic("copyuvm: page not present"), never fires.
NoCopyPanic == fault # "copyuvm"
=============================================================================
