---------------------------- MODULE ShMemProofs ----------------------------
(***************************************************************************)
(* Proofs about ShMem, for any number of processes, pages and table        *)
(* entries and any page size: what get_shared finds in a table that fork,  *)
(* exec and exit leave stale entries in, whatever programs register; that  *)
(* every page has one owner, for programs that are modest; and that linked *)
(* processes share their parent's bytes safely, for programs that follow   *)
(* primestart with regions that fit.                                       *)
(***************************************************************************)
EXTENDS ShMem, FiniteSetTheorems, TLAPS

(***************************************************************************)
(* Types                                                                   *)
(***************************************************************************)
Entry == [name : Name \cup {NoName}, memstart : Addr, sz : Int]
Tables == [Idx -> Entry]
Dirs == [VPN -> Page \cup {NoPage}]
Execs == [pc : {"none", "link", "stack"}, sz : 0 .. SHAREBASE - 1,
          i : 0 .. MAXSHARED, va : Addr]

\* The behaviour's workload is one of the given ones.
UseInv == use \in Workloads

\* What the assumptions say of the constants, without the divisibilities.
LEMMA ConstFacts ==
    /\ NPROC \in Nat /\ NPROC >= 2 /\ PGSIZE \in Nat \ {0} /\ INT \in Nat \ {0}
    /\ SHAREBASE \in Nat /\ KERNBASE \in Nat
    /\ PGSIZE < SHAREBASE /\ SHAREBASE < KERNBASE
    /\ MAXSHARED \in Nat \ {0} /\ NSTACK \in Nat \ {0}
    /\ NoPage \notin Page /\ NoName \notin Name
    /\ ExecSize \subseteq Nat \ {0}
  BY ShMemAssumption

\* Addresses and their range.
LEMMA WordFacts ==
    /\ Word \in Nat \ {0} /\ Word = 2 * KERNBASE
    /\ SHAREBASE \in Addr /\ 0 \in Addr /\ initproc \in Proc
    /\ NoProc \notin Proc /\ Freed \notin Proc
    /\ \A s \in Int : s % Word \in Addr
  <1>1. Word \in Nat \ {0} /\ Word = 2 * KERNBASE
    BY ConstFacts DEF Word
  <1>2. SHAREBASE \in Addr /\ 0 \in Addr
    BY <1>1, ConstFacts DEF Addr
  <1>3. initproc \in Proc /\ NoProc \notin Proc /\ Freed \notin Proc
    BY ConstFacts DEF initproc, Proc, NoProc, Freed
  <1>4. \A s \in Int : s % Word \in Addr
    BY <1>1 DEF Addr
  <1> QED  BY <1>1, <1>2, <1>3, <1>4

\* What the assumptions say of a workload.
LEMMA UseFacts ==
    ASSUME UseInv
    PROVE  /\ use.region \subseteq [name : Name, memstart : Nat, sz : Int]
           /\ use.sbrk \subseteq Int /\ use.page \subseteq Page
           /\ InitPage \in use.page
  BY ShMemAssumption DEF UseInv

\* The types, with names for the larger sets.
LEMMA TypeFacts ==
    TypeOK <=> /\ state \in [Proc -> {"UNUSED", "RUN", "ZOMBIE"}]
               /\ parent \in [Proc -> Proc \cup {NoProc}]
               /\ sz \in [Proc -> 0 .. SHAREBASE - 1]
               /\ parentpgdir \in [Proc -> Proc \cup {Freed}]
               /\ shared \in [Proc -> Tables]
               /\ dir \in [DirId -> Dirs]
               /\ exec \in [Proc -> Execs]
               /\ free \subseteq Page
               /\ fault \in {"none", "remap", "copyuvm", "overrun"}
               /\ inherited \in [Proc -> 0 .. MAXSHARED]
               /\ linked \in [Proc -> {"no", "started", "done"}]
  BY DEF TypeOK, Tables, Entry, Dirs, Execs

\* Rounding up to a page gives a natural number.
LEMMA RoundType ==
    ASSUME NEW a \in Int
    PROVE  PGROUNDUP(a) \in Nat
  <1>1. PICK s \in Nat : s = (a + PGSIZE - 1) % Word
    <2>1. a + PGSIZE - 1 \in Int
      BY ConstFacts
    <2>2. (a + PGSIZE - 1) % Word \in Addr
      BY <2>1, WordFacts
    <2> QED  BY <2>2, WordFacts DEF Addr
  <1>2. PICK q \in Nat : q = s \div PGSIZE
    BY ConstFacts
  <1>3. q * PGSIZE \in Nat
    BY ConstFacts
  <1> QED  BY <1>1, <1>2, <1>3 DEF PGROUNDUP

\* kalloc'ed pages, and directories after mapping and unmapping.
LEMMA DirTypes ==
    ASSUME NEW d \in Dirs, free \subseteq Page
    PROVE  /\ EmptyDir \in Dirs
           /\ \A V \in SUBSET VPN :
                 \A f \in KallocFor(V) : MapPages(d, f) \in Dirs
           /\ \A V \in SUBSET VPN : Unmap(d, V) \in Dirs
           /\ \A V \in SUBSET VPN : PagesAt(d, V) \subseteq Page
  <1>1. EmptyDir \in Dirs
    BY DEF EmptyDir, Dirs
  <1>2. ASSUME NEW V \in SUBSET VPN, NEW f \in KallocFor(V)
        PROVE  MapPages(d, f) \in Dirs
    <2>1. f \in [V -> free]
      BY DEF KallocFor
    <2>2. DOMAIN f = V /\ \A v \in V : f[v] \in Page
      BY <2>1
    <2> QED  BY <2>2 DEF MapPages, Dirs
  <1>3. \A V \in SUBSET VPN : Unmap(d, V) \in Dirs
    BY DEF Unmap, Dirs
  <1>4. \A V \in SUBSET VPN : PagesAt(d, V) \subseteq Page
    BY DEF PagesAt, Dirs
  <1> QED  BY <1>1, <1>2, <1>3, <1>4

\* The sets of pages that the system calls work on.
LEMMA PageSets ==
    /\ PrivVPN \subseteq VPN
    /\ \A a, b : PagesBetween(a, b) \subseteq VPN
    /\ \A p : UserPages(p) \subseteq VPN
  <1>1. SHAREBASE \div PGSIZE <= KERNBASE \div PGSIZE
    <2>1. PICK a \in Nat, b \in Nat :
             /\ a = SHAREBASE \div PGSIZE /\ b = KERNBASE \div PGSIZE
             /\ PGSIZE * a <= SHAREBASE /\ KERNBASE < PGSIZE * (b + 1)
      BY ConstFacts
    <2>2. PGSIZE * a < PGSIZE * (b + 1)
      BY <2>1, ConstFacts
    <2>3. ASSUME b + 1 <= a PROVE PGSIZE * (b + 1) <= PGSIZE * a
      BY <2>3, ConstFacts
    <2>4. PGSIZE * a \in Nat /\ PGSIZE * (b + 1) \in Nat
      BY ConstFacts
    <2>5. ~(b + 1 <= a)
      BY <2>2, <2>3, <2>4
    <2> QED  BY <2>1, <2>5
  <1>2. PrivVPN \subseteq VPN
    <2>1. SHAREBASE \div PGSIZE \in Int /\ KERNBASE \div PGSIZE \in Int
      BY ConstFacts
    <2> QED  BY <1>1, <2>1 DEF PrivVPN, VPN, NVPN
  <1> QED  BY <1>2 DEF PagesBetween, UserPages

(***************************************************************************)
(* The table of shared regions                                             *)
(***************************************************************************)

\* The first k entries are the ones in use.
PrefixOf(t, k) == \A i \in Idx : t[i].sz # 0 <=> i < k

\* No name is in use twice.
Distinct(t) ==
    \A i, j \in Idx :
        t[i].sz # 0 /\ t[j].sz # 0 /\ t[i].name = t[j].name => i = j

\* What is in use was registered by some program.
From(t, R) ==
    \A i \in Idx :
        t[i].sz # 0 => \E r \in R : r.name = t[i].name /\ r.sz = t[i].sz

GoodTable(t, R) ==
    /\ \E k \in 0 .. MAXSHARED : PrefixOf(t, k)
    /\ Distinct(t)
    /\ From(t, R)

TableInv == \A p \in Proc : GoodTable(shared[p], use.region)

\* The loops' first unused entry is the end of the prefix.  FirstFree is the
\* least entry of some kind: that there is one follows from the prefix.
LEMMA FirstFreeIs ==
    ASSUME NEW t \in Tables, NEW k \in 0 .. MAXSHARED, PrefixOf(t, k)
    PROVE  FirstFree(t) = k
  <1>1. CASE k = MAXSHARED
    <2>1. \A i \in Idx : t[i].sz # 0
      BY <1>1, ConstFacts DEF PrefixOf, Idx
    <2> QED  BY <1>1, <2>1 DEF FirstFree
  <1>2. CASE k < MAXSHARED
    <2>1. k \in Idx /\ t[k].sz = 0 /\ \A j \in 0 .. k - 1 : j \in Idx /\ j < k
      BY <1>2, ConstFacts DEF PrefixOf, Idx
    <2>2. \A j \in 0 .. k - 1 : t[j].sz # 0
      BY <2>1 DEF PrefixOf
    <2>3. ASSUME NEW i \in Idx, t[i].sz = 0, \A j \in 0 .. i - 1 : t[j].sz # 0
          PROVE  i = k
      <3>1. ~(i < k)
        BY <2>3 DEF PrefixOf
      <3>2. ~(k < i)
        <4> SUFFICES ASSUME k < i PROVE FALSE
          OBVIOUS
        <4>1. k \in 0 .. i - 1
          BY DEF Idx
        <4> QED  BY <2>1, <2>3, <4>1
      <3> QED  BY <3>1, <3>2, ConstFacts DEF Idx
    <2> QED  BY <2>1, <2>2, <2>3 DEF FirstFree
  <1> QED  BY <1>1, <1>2, ConstFacts

\* The same for a process's table.
LEMMA PrefixFacts ==
    ASSUME TypeOK, TableInv, NEW p \in Proc
    PROVE  /\ shared[p] \in Tables /\ GoodTable(shared[p], use.region)
           /\ FirstFree(shared[p]) \in 0 .. MAXSHARED
           /\ PrefixOf(shared[p], FirstFree(shared[p]))
  <1>1. shared[p] \in Tables /\ GoodTable(shared[p], use.region)
    BY TypeFacts DEF TableInv
  <1>2. PICK k \in 0 .. MAXSHARED : PrefixOf(shared[p], k)
    BY <1>1 DEF GoodTable
  <1>3. FirstFree(shared[p]) = k
    BY <1>1, <1>2, FirstFreeIs
  <1> QED  BY <1>1, <1>2, <1>3

\* exit and allocproc clear the sizes, and leave a good table.
LEMMA ClearGood ==
    ASSUME NEW t \in Tables, NEW R
    PROVE  ClearSizes(t) \in Tables /\ GoodTable(ClearSizes(t), R)
  <1>1. ClearSizes(t) \in Tables /\ \A i \in Idx : ClearSizes(t)[i].sz = 0
    BY DEF ClearSizes, Tables, Entry
  <1>2. 0 \in 0 .. MAXSHARED /\ \A i \in Idx : ~(i < 0)
    BY ConstFacts DEF Idx
  <1>3. PrefixOf(ClearSizes(t), 0)
    BY <1>1, <1>2 DEF PrefixOf
  <1> QED  BY <1>1, <1>2, <1>3 DEF GoodTable, Distinct, From

\* A table that has the sizes and names of a good one is good: linkphysaddr
\* changes addresses only.
LEMMA SameGood ==
    ASSUME NEW t \in Tables, NEW R, NEW u, GoodTable(t, R),
           \A i \in Idx : u[i].sz = t[i].sz /\ u[i].name = t[i].name
    PROVE  GoodTable(u, R)
  <1>1. PICK k \in 0 .. MAXSHARED : PrefixOf(t, k)
    BY DEF GoodTable
  <1>2. PrefixOf(u, k)
    BY <1>1 DEF PrefixOf
  <1>3. Distinct(u) /\ From(u, R)
    BY DEF GoodTable, Distinct, From
  <1> QED  BY <1>2, <1>3 DEF GoodTable

\* sys_share_mem appends to a good table.
LEMMA ShareGood ==
    ASSUME TypeOK, UseInv, TableInv, NEW p \in Proc, NEW r \in use.region,
           ShareMem(p, r)
    PROVE  \E t \in Tables : /\ shared' = [shared EXCEPT ![p] = t]
                             /\ GoodTable(t, use.region)
  <1>1. PICK s \in Tables : s = shared[p] /\ GoodTable(s, use.region)
    BY PrefixFacts
  <1>2. PICK k \in Idx : k = FirstFree(s) /\ PrefixOf(s, k)
    BY <1>1, PrefixFacts, ConstFacts DEF ShareMem, Idx
  <1>3. r \in Entry
    <2>1. r \in [name : Name, memstart : Nat, sz : Int]
      BY UseFacts
    <2>2. r.memstart \in Addr
      <3>1. sz[p] \in 0 .. SHAREBASE - 1 /\ r.memstart < sz[p]
        BY TypeFacts DEF ShareMem, ArgOK
      <3> QED  BY <2>1, <3>1, ConstFacts DEF Addr, Word
    <2> QED  BY <2>1, <2>2 DEF Entry
  <1>4. PICK t : t = [s EXCEPT ![k] = r]
    OBVIOUS
  <1>5. t \in Tables /\ t[k] = r /\ \A i \in Idx \ {k} : t[i] = s[i]
    BY <1>3, <1>4 DEF Tables
  <1>6. shared' = [shared EXCEPT ![p] = t]
    BY <1>1, <1>2, <1>4, TypeFacts DEF ShareMem
  <1>7. \A i \in Idx : i < k => s[i].name # r.name
    <2>1. \A i \in Idx : i < k => i \in 0 .. k - 1
      BY DEF Idx
    <2> QED  BY <1>1, <1>2, <2>1 DEF ShareMem, NameTaken
  <1>8. \A i \in Idx : t[i].sz # 0 => i < k \/ i = k
    BY <1>2, <1>5 DEF PrefixOf
  <1>9. \E m \in 0 .. MAXSHARED : PrefixOf(t, m)
    <2>1. k \in 0 .. MAXSHARED /\ k + 1 \in 0 .. MAXSHARED
          /\ \A i \in Idx : /\ i < k + 1 <=> i < k \/ i = k
                            /\ ~(k < k)
      BY ConstFacts DEF Idx
    <2>2. CASE r.sz = 0
      <3>1. PrefixOf(t, k)
        BY <1>2, <1>5, <2>1, <2>2 DEF PrefixOf
      <3> QED  BY <2>1, <3>1
    <2>3. CASE r.sz # 0
      <3>1. PrefixOf(t, k + 1)
        BY <1>2, <1>5, <2>1, <2>3 DEF PrefixOf
      <3> QED  BY <2>1, <3>1
    <2> QED  BY <2>2, <2>3
  <1>10. Distinct(t)
    <2> SUFFICES ASSUME NEW i \in Idx, NEW j \in Idx, t[i].sz # 0,
                        t[j].sz # 0, t[i].name = t[j].name
                 PROVE  i = j
      BY DEF Distinct
    <2>1. (i < k \/ i = k) /\ (j < k \/ j = k) /\ ~(k < k)
      BY <1>8 DEF Idx
    <2>2. CASE i # k /\ j # k
      BY <1>1, <1>5, <2>2 DEF GoodTable, Distinct
    <2>3. CASE i = k /\ j # k
      BY <1>5, <1>7, <2>1, <2>3
    <2>4. CASE i # k /\ j = k
      BY <1>5, <1>7, <2>1, <2>4
    <2> QED  BY <2>2, <2>3, <2>4
  <1>11. From(t, use.region)
    BY <1>1, <1>5 DEF GoodTable, From
  <1> QED  BY <1>5, <1>6, <1>9, <1>10, <1>11 DEF GoodTable

\* fork copies the used entries, and clears the sizes of the others.
LEMMA InheritGood ==
    ASSUME TypeOK, TableInv, NEW p \in Proc, NEW np \in Proc
    PROVE  Inherit(p, np) \in Tables /\ GoodTable(Inherit(p, np), use.region)
  <1>1. PICK s \in Tables : s = shared[p] /\ GoodTable(s, use.region)
    BY PrefixFacts
  <1>2. PICK k \in 0 .. MAXSHARED : k = FirstFree(s) /\ PrefixOf(s, k)
    BY <1>1, PrefixFacts
  <1>3. PICK u \in Tables : u = shared[np]
    BY PrefixFacts
  <1>4. PICK t : t = Inherit(p, np)
    OBVIOUS
  <1>5. t = [i \in Idx |-> IF i < k THEN s[i] ELSE [u[i] EXCEPT !.sz = 0]]
    BY <1>1, <1>2, <1>3, <1>4 DEF Inherit
  <1>6. \A i \in Idx : s[i] \in Entry /\ [u[i] EXCEPT !.sz = 0] \in Entry
    BY DEF Tables, Entry
  <1>7. t \in Tables
    BY <1>5, <1>6 DEF Tables
  <1>8. \A i \in Idx : /\ i < k => t[i] = s[i]
                       /\ ~(i < k) => t[i].sz = 0
    <2>1. \A i \in Idx : [u[i] EXCEPT !.sz = 0].sz = 0
      BY DEF Tables, Entry
    <2> QED  BY <1>5, <2>1
  <1>9. PrefixOf(t, k)
    BY <1>2, <1>8 DEF PrefixOf
  <1>10. Distinct(t) /\ From(t, use.region)
    BY <1>1, <1>8 DEF GoodTable, Distinct, From
  <1> QED  BY <1>4, <1>7, <1>9, <1>10 DEF GoodTable

\* linkphysaddr's use of mappa2va's result.
LEMMA RegionGood ==
    ASSUME TypeOK, TableInv, NEW p \in Proc, NEW ret, NextRegion(p, ret),
           exec[p].i < MAXSHARED
    PROVE  \E t \in Tables : /\ shared' = [shared EXCEPT ![p] = t]
                             /\ GoodTable(t, use.region)
  <1>1. PICK s \in Tables : s = shared[p] /\ GoodTable(s, use.region)
    BY PrefixFacts
  <1>2. PICK i \in Idx, va \in Addr : i = exec[p].i /\ va = exec[p].va
    <2>1. exec[p] \in Execs
      BY TypeFacts
    <2> QED  BY <2>1, ConstFacts DEF Execs, Idx
  <1>3. PICK a : a = LinkedStart(va, s[i].memstart)
    OBVIOUS
  <1>4. a \in Addr
    <2>1. s[i].memstart \in Int /\ va \in Int
      BY WordFacts DEF Tables, Entry, Addr
    <2>2. s[i].memstart % PGSIZE \in Int
      BY <2>1, ConstFacts
    <2>3. va + (s[i].memstart % PGSIZE) \in Int
      BY <2>1, <2>2
    <2> QED  BY <1>3, <2>3, WordFacts DEF LinkedStart
  <1>5. PICK t : t = [s EXCEPT ![i] = [s[i] EXCEPT !.memstart = a]]
    OBVIOUS
  <1>6. [s[i] EXCEPT !.memstart = a] \in Entry
    BY <1>4 DEF Tables, Entry
  <1>7. t \in Tables
    BY <1>5, <1>6 DEF Tables
  <1>8. \A j \in Idx : t[j].sz = s[j].sz /\ t[j].name = s[j].name
    BY <1>5 DEF Tables, Entry
  <1>9. GoodTable(t, use.region)
    BY <1>1, <1>8, SameGood
  <1>10. shared' = [shared EXCEPT ![p] = t]
    BY <1>1, <1>2, <1>3, <1>5, TypeFacts DEF NextRegion, Tables, Entry
  <1> QED  BY <1>7, <1>9, <1>10

\* The outcomes of mappa2va after which linkphysaddr goes on.
Linking(p) == LinkTooHigh(p) \/ LinkOK(p) \/ LinkMissing(p) \/ LinkNoTable(p)

\* The steps that end in a panic or in a run past the table.
Failing(p) ==
    LinkRemap(p) \/ LinkOverrun(p) \/ \E np \in Proc : ForkPanic(p, np)

\* The steps of the kernel, as the proofs below take them apart.
LEMMA Steps ==
    ASSUME [Next]_vars
    PROVE  \/ UNCHANGED vars
           \/ /\ use' = use
              /\ \E p \in Proc :
                    \/ \E r \in use.region : ShareMem(p, r)
                    \/ \E n \in use.sbrk : Grow(p, n)
                    \/ \E n \in use.sbrk : Shrink(p, n)
                    \/ \E np \in Proc : Fork(p, np)
                    \/ \E np \in Proc : ForkNoMem(p, np)
                    \/ \E isz \in ExecSize, prime \in BOOLEAN :
                          ExecLoad(p, isz, prime)
                    \/ Linking(p)
                    \/ LinkDone(p)
                    \/ ExecCommit(p)
                    \/ ExecBad(p)
                    \/ Exit(p)
                    \/ \E q \in Proc : Wait(p, q)
                    \/ Failing(p)
  BY DEF Next, LinkRegion, Linking, Failing

\* What linking a region changes besides the new directory and the free list.
LEMMA LinkingFacts ==
    ASSUME NEW p \in Proc, Linking(p)
    PROVE  /\ LinkStep(p) /\ exec[p].i < MAXSHARED
           /\ \E ret : NextRegion(p, ret)
  BY DEF Linking, LinkTooHigh, LinkOK, LinkMissing, LinkNoTable, LinkStep

\* A failing step changes nothing but fault.
LEMMA FailingFacts ==
    ASSUME NEW p \in Proc, Failing(p)
    PROVE  /\ fault' \in {"remap", "copyuvm", "overrun"}
           /\ UNCHANGED <<state, parent, sz, parentpgdir, shared, dir, exec,
                          free, inherited, linked>>
  BY DEF Failing, LinkRemap, LinkOverrun, ForkPanic

\* A step changes at most one table, and leaves it good.
LEMMA TableStep ==
    ASSUME TypeOK, UseInv, TableInv, [Next]_vars
    PROVE  TableInv' /\ UseInv' /\ shared' \in [Proc -> Tables]
  <1>1. use' = use
    BY Steps DEF vars
  <1>2. \/ shared' = shared
        \/ \E p \in Proc, t \in Tables : /\ shared' = [shared EXCEPT ![p] = t]
                                         /\ GoodTable(t, use.region)
    <2>0. shared \in [Proc -> Tables]
      BY TypeFacts
    <2>1. ASSUME NEW p \in Proc, NEW r \in use.region, ShareMem(p, r)
          PROVE  \E t \in Tables : /\ shared' = [shared EXCEPT ![p] = t]
                                   /\ GoodTable(t, use.region)
      BY <2>1, ShareGood
    <2>2. ASSUME NEW p \in Proc, NEW np \in Proc, Fork(p, np)
          PROVE  \E t \in Tables : /\ shared' = [shared EXCEPT ![np] = t]
                                   /\ GoodTable(t, use.region)
      BY <2>2, InheritGood DEF Fork
    <2>3. ASSUME NEW p \in Proc, NEW np \in Proc, ForkNoMem(p, np)
          PROVE  \E t \in Tables : /\ shared' = [shared EXCEPT ![np] = t]
                                   /\ GoodTable(t, use.region)
      <3>1. shared' = [shared EXCEPT ![np] = ClearSizes(shared[np])]
        BY <2>3 DEF ForkNoMem
      <3> QED  BY <2>0, <3>1, ClearGood
    <2>4. ASSUME NEW p \in Proc, Exit(p)
          PROVE  \E t \in Tables : /\ shared' = [shared EXCEPT ![p] = t]
                                   /\ GoodTable(t, use.region)
      <3>1. shared' = [shared EXCEPT ![p] = ClearSizes(shared[p])]
        BY <2>4 DEF Exit
      <3> QED  BY <2>0, <3>1, ClearGood
    <2>5. ASSUME NEW p \in Proc, Linking(p)
          PROVE  \E t \in Tables : /\ shared' = [shared EXCEPT ![p] = t]
                                   /\ GoodTable(t, use.region)
      BY <2>5, LinkingFacts, RegionGood
    <2>6. ASSUME NEW p \in Proc,
                 \/ \E n \in use.sbrk : Grow(p, n) \/ Shrink(p, n)
                 \/ \E isz \in ExecSize, prime \in BOOLEAN :
                       ExecLoad(p, isz, prime)
                 \/ LinkDone(p) \/ ExecCommit(p) \/ ExecBad(p)
                 \/ \E q \in Proc : Wait(p, q)
                 \/ Failing(p)
          PROVE  shared' = shared
      BY <2>6, FailingFacts
         DEF Grow, Shrink, ExecLoad, LinkDone, ExecCommit, ExecBad, Wait
    <2>7. CASE UNCHANGED vars
      BY <2>7 DEF vars
    <2> QED  BY <2>1, <2>2, <2>3, <2>4, <2>5, <2>6, <2>7, Steps
  <1>3. TableInv' /\ shared' \in [Proc -> Tables]
    <2>0. shared \in [Proc -> Tables]
      BY TypeFacts
    <2>1. CASE shared' = shared
      BY <1>1, <2>0, <2>1 DEF TableInv
    <2>2. ASSUME NEW p \in Proc, NEW t \in Tables,
                 shared' = [shared EXCEPT ![p] = t], GoodTable(t, use.region)
          PROVE  TableInv' /\ shared' \in [Proc -> Tables]
      BY <1>1, <2>0, <2>2 DEF TableInv
    <2> QED  BY <1>2, <2>1, <2>2
  <1> QED  BY <1>1, <1>3 DEF UseInv

\* What the walks of linkphysaddr map.
LEMMA LinkedType ==
    ASSUME TypeOK, NEW p \in Proc, NEW k \in Int, NEW w \in Walks(p, k)
    PROVE  Linked(p, w) \in Dirs /\ w \in [0 .. k - 1 -> Page]
  <1>1. w \in [0 .. k - 1 -> Page]
    BY DEF Walks
  <1>2. dir[<<p, "new">>] \in Dirs
    BY TypeFacts DEF DirId
  <1>3. PICK d \in Dirs : d = dir[<<p, "new">>]
    BY <1>2
  <1>4. PICK t0 : t0 = Target(p, 0)
    OBVIOUS
  <1>5. Linked(p, w) = [v \in VPN |-> IF v - t0 \in DOMAIN w THEN w[v - t0]
                                      ELSE d[v]]
    BY <1>3, <1>4 DEF Linked
  <1>6. \A v \in VPN : (IF v - t0 \in DOMAIN w THEN w[v - t0] ELSE d[v])
                          \in Page \cup {NoPage}
    BY <1>1 DEF Dirs
  <1> QED  BY <1>1, <1>5, <1>6 DEF Dirs

\* The directories and the free list keep their types.
LEMMA DirStep ==
    ASSUME TypeOK, [Next]_vars
    PROVE  dir' \in [DirId -> Dirs] /\ free' \subseteq Page
  <1>0. /\ dir \in [DirId -> Dirs] /\ free \subseteq Page
        /\ \A p \in Proc : /\ <<p, "cur">> \in DirId /\ <<p, "new">> \in DirId
                           /\ dir[<<p, "cur">>] \in Dirs
                           /\ dir[<<p, "new">>] \in Dirs
    BY TypeFacts DEF DirId
  <1>1. EmptyDir \in Dirs
    BY DEF EmptyDir, Dirs
  <1>2. ASSUME NEW a \in DirId, NEW d \in Dirs, dir' = [dir EXCEPT ![a] = d]
        PROVE  dir' \in [DirId -> Dirs]
    BY <1>0, <1>2
  <1>3. ASSUME NEW p \in Proc, NEW n, Grow(p, n)
        PROVE  dir' \in [DirId -> Dirs] /\ free' \subseteq Page
    <2>1. PICK V \in SUBSET VPN : V = PagesBetween(sz[p], (sz[p] + n) % Word)
      BY PageSets
    <2>2. PICK f \in KallocFor(V) :
             /\ dir' = [dir EXCEPT
                           ![<<p, "cur">>] = MapPages(dir[<<p, "cur">>], f)]
             /\ free' = free \ {f[v] : v \in DOMAIN f}
      BY <1>3, <2>1 DEF Grow
    <2>3. MapPages(dir[<<p, "cur">>], f) \in Dirs
      BY <1>0, <2>1, DirTypes
    <2> QED  BY <1>0, <1>2, <2>2, <2>3
  <1>4. ASSUME NEW p \in Proc, NEW n, Shrink(p, n)
        PROVE  dir' \in [DirId -> Dirs] /\ free' \subseteq Page
    <2>1. PICK V \in SUBSET VPN : V = PagesBetween((sz[p] + n) % Word, sz[p])
      BY PageSets
    <2>2. /\ dir' = [dir EXCEPT ![<<p, "cur">>] = Unmap(dir[<<p, "cur">>], V)]
          /\ free' = free \cup PagesAt(dir[<<p, "cur">>], V)
      BY <1>4, <2>1 DEF Shrink
    <2>3. /\ Unmap(dir[<<p, "cur">>], V) \in Dirs
          /\ PagesAt(dir[<<p, "cur">>], V) \subseteq Page
      BY <1>0, <2>1, DirTypes
    <2> QED  BY <1>0, <1>2, <2>2, <2>3
  <1>5. ASSUME NEW p \in Proc, NEW np \in Proc, Fork(p, np)
        PROVE  dir' \in [DirId -> Dirs] /\ free' \subseteq Page
    <2>1. PICK V \in SUBSET VPN : V = UserPages(p)
      BY PageSets
    <2>2. PICK f \in KallocFor(V) :
             /\ dir' = [dir EXCEPT ![<<np, "cur">>] = MapPages(EmptyDir, f)]
             /\ free' = free \ {f[v] : v \in DOMAIN f}
      BY <1>5, <2>1 DEF Fork
    <2>3. MapPages(EmptyDir, f) \in Dirs
      BY <1>0, <1>1, <2>1, DirTypes
    <2> QED  BY <1>0, <1>2, <2>2, <2>3
  <1>6. ASSUME NEW p \in Proc, NEW isz, NEW prime, ExecLoad(p, isz, prime)
        PROVE  dir' \in [DirId -> Dirs] /\ free' \subseteq Page
    <2>1. PICK V \in SUBSET VPN : V = PagesBetween(0, isz)
      BY PageSets
    <2>2. PICK f \in KallocFor(V) :
             /\ dir' = [dir EXCEPT ![<<p, "new">>] = MapPages(EmptyDir, f)]
             /\ free' = free \ {f[v] : v \in DOMAIN f}
      BY <1>6, <2>1 DEF ExecLoad
    <2>3. MapPages(EmptyDir, f) \in Dirs
      BY <1>0, <1>1, <2>1, DirTypes
    <2> QED  BY <1>0, <1>2, <2>2, <2>3
  <1>7. ASSUME NEW p \in Proc, ExecCommit(p)
        PROVE  dir' \in [DirId -> Dirs] /\ free' \subseteq Page
    <2>1. PICK V \in SUBSET VPN :
             V = PagesBetween(PGROUNDUP(exec[p].sz),
                              PGROUNDUP(exec[p].sz) + NSTACK * PGSIZE)
      BY PageSets
    <2>2. PICK f \in KallocFor(V) :
             /\ dir' = [dir EXCEPT
                           ![<<p, "cur">>] = MapPages(dir[<<p, "new">>], f),
                           ![<<p, "new">>] = EmptyDir]
             /\ free' = (free \ {f[v] : v \in DOMAIN f})
                        \cup FreevmPages(dir[<<p, "cur">>])
      BY <1>7, <2>1 DEF ExecCommit
    <2>3. MapPages(dir[<<p, "new">>], f) \in Dirs
      BY <1>0, <2>1, DirTypes
    <2>4. FreevmPages(dir[<<p, "cur">>]) \subseteq Page
      BY <1>0, PageSets, DirTypes DEF FreevmPages
    <2> QED  BY <1>0, <1>1, <2>2, <2>3, <2>4
  <1>8. ASSUME NEW p \in Proc, ExecBad(p)
        PROVE  dir' \in [DirId -> Dirs] /\ free' \subseteq Page
    <2>1. FreevmPages(dir[<<p, "new">>]) \subseteq Page
      BY <1>0, PageSets, DirTypes DEF FreevmPages
    <2> QED  BY <1>0, <1>1, <1>2, <1>8, <2>1 DEF ExecBad
  <1>9. ASSUME NEW p \in Proc, NEW q \in Proc, Wait(p, q)
        PROVE  dir' \in [DirId -> Dirs] /\ free' \subseteq Page
    <2>1. FreevmPages(dir[<<q, "cur">>]) \subseteq Page
      BY <1>0, PageSets, DirTypes DEF FreevmPages
    <2> QED  BY <1>0, <1>1, <1>2, <1>9, <2>1 DEF Wait
  <1>10. ASSUME NEW p \in Proc, NEW np \in Proc, ForkNoMem(p, np)
         PROVE  dir' \in [DirId -> Dirs] /\ free' \subseteq Page
    BY <1>0, <1>1, <1>2, <1>10 DEF ForkNoMem
  <1>11. ASSUME NEW p \in Proc, Linking(p)
         PROVE  dir' \in [DirId -> Dirs] /\ free' \subseteq Page
    <2>0. Pages(p) \in Int
      <3>1. exec[p] \in Execs /\ shared \in [Proc -> Tables]
        BY TypeFacts
      <3>2. exec[p].i \in Idx
        BY <1>11, <3>1, LinkingFacts, ConstFacts DEF Execs, Idx
      <3>3. shared[p][exec[p].i].sz \in Int
        BY <3>1, <3>2 DEF Tables, Entry
      <3>4. USize(p) \in Int
        BY <3>3, WordFacts DEF USize, Addr
      <3> QED  BY <3>4, RoundType, ConstFacts DEF Pages
    <2>1. CASE LinkTooHigh(p)
      BY <1>0, <2>1 DEF LinkTooHigh
    <2>2. CASE LinkOK(p)
      <3>1. PICK w \in Walks(p, Pages(p)) :
               /\ dir' = [dir EXCEPT ![<<p, "new">>] = Linked(p, w)]
               /\ free' = free
        BY <2>2 DEF LinkOK
      <3> QED  BY <1>0, <1>2, <2>0, <3>1, LinkedType
    <2>3. CASE LinkMissing(p)
      <3>1. PICK k \in 0 .. Pages(p) - 1 : \E w \in Walks(p, k) :
               /\ dir' = [dir EXCEPT ![<<p, "new">>] = Linked(p, w)]
               /\ free' = free
        BY <2>3 DEF LinkMissing
      <3>2. PICK w \in Walks(p, k) :
               /\ dir' = [dir EXCEPT ![<<p, "new">>] = Linked(p, w)]
               /\ free' = free
        BY <3>1
      <3>3. Linked(p, w) \in Dirs
        BY <2>0, LinkedType
      <3> QED  BY <1>0, <1>2, <3>2, <3>3
    <2>4. CASE LinkNoTable(p)
      <3>1. PICK V \in SUBSET VPN :
               V = PagesBetween(exec[p].va,
                                PtrAdd(exec[p].va, Pages(p) * PGSIZE))
        BY PageSets
      <3>2. PICK k \in 0 .. Pages(p) - 1 : \E w \in Walks(p, k) :
               /\ free' = free \cup PagesAt(Linked(p, w), V)
               /\ dir' = [dir EXCEPT ![<<p, "new">>] = Unmap(Linked(p, w), V)]
        BY <2>4, <3>1 DEF LinkNoTable
      <3>3. PICK w \in Walks(p, k) :
               /\ free' = free \cup PagesAt(Linked(p, w), V)
               /\ dir' = [dir EXCEPT ![<<p, "new">>] = Unmap(Linked(p, w), V)]
        BY <3>2
      <3>4. Linked(p, w) \in Dirs
        BY <2>0, LinkedType
      <3>5. /\ Unmap(Linked(p, w), V) \in Dirs
            /\ PagesAt(Linked(p, w), V) \subseteq Page
        BY <1>0, <3>4, DirTypes
      <3> QED  BY <1>0, <1>2, <3>3, <3>5
    <2> QED  BY <1>11, <2>1, <2>2, <2>3, <2>4 DEF Linking
  <1>12. ASSUME NEW p \in Proc,
                \/ \E r \in use.region : ShareMem(p, r)
                \/ LinkDone(p) \/ Exit(p) \/ Failing(p)
         PROVE  dir' = dir /\ free' = free
    BY <1>12, FailingFacts DEF ShareMem, LinkDone, Exit
  <1>13. CASE UNCHANGED vars
    BY <1>0, <1>13 DEF vars
  <1> QED  BY <1>0, <1>3, <1>4, <1>5, <1>6, <1>7, <1>8, <1>9, <1>10, <1>11,
              <1>12, <1>13, Steps

\* The other variables keep their types: the sizes that sbrk and exec compute,
\* and the progress of an exec.
LEMMA ProcStep ==
    ASSUME TypeOK, UseInv, TableInv, [Next]_vars
    PROVE  /\ state' \in [Proc -> {"UNUSED", "RUN", "ZOMBIE"}]
           /\ parent' \in [Proc -> Proc \cup {NoProc}]
           /\ parentpgdir' \in [Proc -> Proc \cup {Freed}]
           /\ fault' \in {"none", "remap", "copyuvm", "overrun"}
           /\ inherited' \in [Proc -> 0 .. MAXSHARED]
           /\ linked' \in [Proc -> {"no", "started", "done"}]
  <1>0. /\ state \in [Proc -> {"UNUSED", "RUN", "ZOMBIE"}]
        /\ parent \in [Proc -> Proc \cup {NoProc}]
        /\ parentpgdir \in [Proc -> Proc \cup {Freed}]
        /\ fault \in {"none", "remap", "copyuvm", "overrun"}
        /\ inherited \in [Proc -> 0 .. MAXSHARED]
        /\ linked \in [Proc -> {"no", "started", "done"}]
        /\ 0 \in 0 .. MAXSHARED /\ initproc \in Proc
    BY TypeFacts, ConstFacts, WordFacts
  <1>1. \A p \in Proc : DropDir(p) \in [Proc -> Proc \cup {Freed}]
    BY <1>0 DEF DropDir
  <1>2. ASSUME NEW p \in Proc, NEW np \in Proc, Fork(p, np)
        PROVE  /\ state' \in [Proc -> {"UNUSED", "RUN", "ZOMBIE"}]
               /\ parent' \in [Proc -> Proc \cup {NoProc}]
               /\ parentpgdir' \in [Proc -> Proc \cup {Freed}]
               /\ fault' = fault
               /\ inherited' \in [Proc -> 0 .. MAXSHARED]
               /\ linked' \in [Proc -> {"no", "started", "done"}]
    <2>1. FirstFree(shared[p]) \in 0 .. MAXSHARED
      BY PrefixFacts
    <2>2. inherited' \in [Proc -> 0 .. MAXSHARED]
      BY <1>0, <1>2, <2>1 DEF Fork
    <2>3. state' \in [Proc -> {"UNUSED", "RUN", "ZOMBIE"}]
      BY <1>0, <1>2 DEF Fork
    <2>4. /\ parent' \in [Proc -> Proc \cup {NoProc}]
          /\ parentpgdir' \in [Proc -> Proc \cup {Freed}]
      BY <1>0, <1>2 DEF Fork
    <2>5. linked' \in [Proc -> {"no", "started", "done"}] /\ fault' = fault
      BY <1>0, <1>2 DEF Fork
    <2> QED  BY <2>2, <2>3, <2>4, <2>5
  <1>3. ASSUME NEW p \in Proc, NEW isz, NEW prime, ExecLoad(p, isz, prime)
        PROVE  /\ UNCHANGED <<state, parent, parentpgdir, fault, inherited>>
               /\ linked' \in [Proc -> {"no", "started", "done"}]
    BY <1>0, <1>3 DEF ExecLoad
  <1>4. ASSUME NEW p \in Proc, ExecCommit(p)
        PROVE  /\ UNCHANGED <<state, parent, fault, inherited>>
               /\ parentpgdir' \in [Proc -> Proc \cup {Freed}]
               /\ linked' \in [Proc -> {"no", "started", "done"}]
    BY <1>0, <1>1, <1>4 DEF ExecCommit
  <1>5. ASSUME NEW p \in Proc, Exit(p)
        PROVE  /\ UNCHANGED <<parentpgdir, fault, inherited, linked>>
               /\ state' \in [Proc -> {"UNUSED", "RUN", "ZOMBIE"}]
               /\ parent' \in [Proc -> Proc \cup {NoProc}]
    BY <1>0, <1>5 DEF Exit, Reparent
  <1>6. ASSUME NEW p \in Proc, NEW q \in Proc, Wait(p, q)
        PROVE  /\ state' \in [Proc -> {"UNUSED", "RUN", "ZOMBIE"}]
               /\ parent' \in [Proc -> Proc \cup {NoProc}]
               /\ parentpgdir' \in [Proc -> Proc \cup {Freed}]
               /\ fault' = fault
               /\ inherited' \in [Proc -> 0 .. MAXSHARED]
               /\ linked' \in [Proc -> {"no", "started", "done"}]
    BY <1>0, <1>1, <1>6 DEF Wait
  <1>7. ASSUME NEW p \in Proc, Linking(p)
        PROVE  UNCHANGED <<state, parent, parentpgdir, fault, inherited, linked>>
    BY <1>7, LinkingFacts DEF NextRegion
  <1>8. ASSUME NEW p \in Proc,
               \/ \E r \in use.region : ShareMem(p, r)
               \/ \E n \in use.sbrk : Grow(p, n) \/ Shrink(p, n)
               \/ \E np \in Proc : ForkNoMem(p, np)
               \/ LinkDone(p) \/ ExecBad(p)
        PROVE  UNCHANGED <<state, parent, parentpgdir, fault, inherited, linked>>
    BY <1>8 DEF ShareMem, Grow, Shrink, ForkNoMem, LinkDone, ExecBad
  <1>9. CASE UNCHANGED vars
    BY <1>0, <1>9 DEF vars
  <1> QED  BY <1>0, <1>2, <1>3, <1>4, <1>5, <1>6, <1>7, <1>8, <1>9, Steps,
              FailingFacts

\* The sizes that sbrk and exec compute, and the progress of an exec.
LEMMA SizeStep ==
    ASSUME TypeOK, UseInv, [Next]_vars
    PROVE  sz' \in [Proc -> 0 .. SHAREBASE - 1] /\ exec' \in [Proc -> Execs]
  <1>0. /\ sz \in [Proc -> 0 .. SHAREBASE - 1] /\ exec \in [Proc -> Execs]
        /\ SHAREBASE \in Nat /\ SHAREBASE > 0
    BY TypeFacts, ConstFacts
  <1>1. NoExec \in Execs
    BY <1>0, ConstFacts, WordFacts DEF NoExec, Execs
  <1>2. ASSUME NEW p \in Proc, NEW s \in 0 .. SHAREBASE - 1,
               sz' = [sz EXCEPT ![p] = s]
        PROVE  sz' \in [Proc -> 0 .. SHAREBASE - 1]
    BY <1>0, <1>2
  <1>3. ASSUME NEW p \in Proc, NEW x \in Execs, exec' = [exec EXCEPT ![p] = x]
        PROVE  exec' \in [Proc -> Execs]
    BY <1>0, <1>3
  <1>4. \A p \in Proc : \A n \in use.sbrk : (sz[p] + n) % Word \in Nat
    <2>1. \A p \in Proc : \A n \in use.sbrk : sz[p] + n \in Int
      BY <1>0, UseFacts
    <2> QED  BY <2>1, WordFacts DEF Addr
  <1>5. ASSUME NEW p \in Proc, NEW n \in use.sbrk, Grow(p, n)
        PROVE  sz' \in [Proc -> 0 .. SHAREBASE - 1] /\ exec' = exec
    <2>1. (sz[p] + n) % Word \in 0 .. SHAREBASE - 1
      BY <1>0, <1>4, <1>5 DEF Grow
    <2> QED  BY <1>2, <1>5, <2>1 DEF Grow
  <1>6. ASSUME NEW p \in Proc, NEW n \in use.sbrk, Shrink(p, n)
        PROVE  sz' \in [Proc -> 0 .. SHAREBASE - 1] /\ exec' = exec
    <2>1. PICK s : s = (sz[p] + n) % Word
      OBVIOUS
    <2>2. s \in Nat /\ s < sz[p] /\ sz[p] \in 0 .. SHAREBASE - 1
      BY <1>0, <1>4, <1>6, <2>1 DEF Shrink
    <2>3. (IF s = 0 THEN sz[p] ELSE s) \in 0 .. SHAREBASE - 1
      BY <1>0, <2>2
    <2>4. sz' = [sz EXCEPT ![p] = IF s = 0 THEN sz[p] ELSE s]
      BY <1>6, <2>1 DEF Shrink
    <2> QED  BY <1>2, <1>6, <2>3, <2>4 DEF Shrink
  <1>7. ASSUME NEW p \in Proc, NEW np \in Proc, Fork(p, np)
        PROVE  sz' \in [Proc -> 0 .. SHAREBASE - 1] /\ exec' = exec
    BY <1>0, <1>2, <1>7 DEF Fork
  <1>8. ASSUME NEW p \in Proc, NEW isz \in ExecSize, NEW prime \in BOOLEAN,
               ExecLoad(p, isz, prime)
        PROVE  sz' = sz /\ exec' \in [Proc -> Execs]
    <2>1. /\ isz \in 0 .. SHAREBASE - 1 /\ 0 \in 0 .. MAXSHARED
          /\ SHAREBASE \in Addr
      BY <1>8, ConstFacts, WordFacts DEF ExecLoad
    <2>2. [pc |-> IF prime THEN "link" ELSE "stack", sz |-> isz, i |-> 0,
           va |-> SHAREBASE] \in Execs
      BY <2>1 DEF Execs
    <2> QED  BY <1>3, <1>8, <2>2 DEF ExecLoad
  <1>9. ASSUME NEW p \in Proc, ExecCommit(p)
        PROVE  sz' \in [Proc -> 0 .. SHAREBASE - 1] /\ exec' \in [Proc -> Execs]
    <2>1. PICK s : s = PGROUNDUP(exec[p].sz) + NSTACK * PGSIZE
      OBVIOUS
    <2>2. s \in Nat
      <3>1. exec[p].sz \in Int
        BY <1>0 DEF Execs
      <3>2. NSTACK * PGSIZE \in Nat
        BY ConstFacts
      <3> QED  BY <2>1, <3>1, <3>2, RoundType
    <2>3. s < SHAREBASE /\ sz' = [sz EXCEPT ![p] = s]
      BY <1>9, <2>1 DEF ExecCommit
    <2>4. s \in 0 .. SHAREBASE - 1
      BY <1>0, <2>2, <2>3
    <2> QED  BY <1>1, <1>2, <1>3, <1>9, <2>3, <2>4 DEF ExecCommit
  <1>10. ASSUME NEW p \in Proc, Linking(p)
         PROVE  sz' = sz /\ exec' \in [Proc -> Execs]
    <2>0. PICK x \in Execs : x = exec[p] /\ x.i < MAXSHARED
      BY <1>0, <1>10, LinkingFacts
    <2>1. Pages(p) * PGSIZE \in Int
      <3>1. x.i \in Idx /\ shared \in [Proc -> Tables]
        BY <2>0, TypeFacts, ConstFacts DEF Execs, Idx
      <3>2. shared[p][exec[p].i].sz \in Int
        BY <2>0, <3>1 DEF Tables, Entry
      <3>3. USize(p) \in Int
        BY <3>2, WordFacts DEF USize, Addr
      <3>4. Pages(p) \in Int
        BY <3>3, RoundType, ConstFacts DEF Pages
      <3> QED  BY <3>4, ConstFacts
    <2>2. \E ret \in Int : NextRegion(p, ret)
      <3>1. -1 \in Int
        OBVIOUS
      <3> QED  BY <1>10, <2>1, <3>1
               DEF Linking, LinkTooHigh, LinkOK, LinkMissing, LinkNoTable
    <2>3. PICK ret \in Int : NextRegion(p, ret)
      BY <2>2
    <2>4. PICK a \in Addr : a = Advance(x.va, ret)
      <3>1. x.va + ret \in Int
        BY WordFacts DEF Execs, Addr
      <3> QED  BY <3>1, WordFacts DEF Advance
    <2>5. PICK k \in 0 .. MAXSHARED : k = x.i + 1
      BY <2>0, ConstFacts DEF Execs
    <2>6. [x EXCEPT !.i = k, !.va = a] \in Execs
      BY DEF Execs
    <2>7. exec' = [exec EXCEPT ![p] = [x EXCEPT !.i = k, !.va = a]]
      BY <1>0, <2>0, <2>3, <2>4, <2>5 DEF NextRegion, Execs
    <2> QED  BY <1>3, <2>3, <2>6, <2>7 DEF NextRegion
  <1>11. ASSUME NEW p \in Proc, LinkDone(p)
         PROVE  sz' = sz /\ exec' \in [Proc -> Execs]
    <2>1. exec' = [exec EXCEPT ![p] = [exec[p] EXCEPT !.pc = "stack"]]
      BY <1>0, <1>11 DEF LinkDone, Execs
    <2>2. [exec[p] EXCEPT !.pc = "stack"] \in Execs
      BY <1>0 DEF Execs
    <2> QED  BY <1>3, <1>11, <2>1, <2>2 DEF LinkDone
  <1>12. ASSUME NEW p \in Proc, ExecBad(p)
         PROVE  sz' = sz /\ exec' \in [Proc -> Execs]
    BY <1>1, <1>3, <1>12 DEF ExecBad
  <1>13. ASSUME NEW p \in Proc,
                \/ \E r \in use.region : ShareMem(p, r)
                \/ \E np \in Proc : ForkNoMem(p, np)
                \/ Exit(p) \/ \E q \in Proc : Wait(p, q)
                \/ Failing(p)
         PROVE  sz' = sz /\ exec' = exec
    BY <1>13, FailingFacts DEF ShareMem, ForkNoMem, Exit, Wait
  <1>14. CASE UNCHANGED vars
    BY <1>0, <1>14 DEF vars
  <1> QED  BY <1>0, <1>5, <1>6, <1>7, <1>8, <1>9, <1>10, <1>11, <1>12, <1>13,
              <1>14, Steps

\* userinit's state, and types and tables in it.
LEMMA InitTable == Init => TypeOK /\ UseInv /\ TableInv
  <1> SUFFICES ASSUME Init PROVE TypeOK /\ UseInv /\ TableInv
    OBVIOUS
  <1>1. UseInv
    BY DEF Init, UseInv
  <1>2. NoEntry \in Entry /\ NoExec \in Execs
    BY ConstFacts, WordFacts DEF NoEntry, Entry, NoExec, Execs
  <1>3. EmptyDir \in Dirs /\ InitPage \in Page
    BY <1>1, UseFacts DEF EmptyDir, Dirs
  <1>4. dir \in [DirId -> Dirs]
    <2>1. [v \in VPN |-> IF v = 0 THEN InitPage ELSE NoPage] \in Dirs
      BY <1>3 DEF Dirs
    <2> QED  BY <1>3, <2>1 DEF Init
  <1>5. shared \in [Proc -> Tables]
    BY <1>2 DEF Init, Tables
  <1>6. sz \in [Proc -> 0 .. SHAREBASE - 1]
    BY ConstFacts DEF Init
  <1>7. free \subseteq Page
    BY <1>1, UseFacts DEF Init
  <1>8. inherited \in [Proc -> 0 .. MAXSHARED]
    BY ConstFacts DEF Init
  <1>9. TypeOK
    BY <1>2, <1>4, <1>5, <1>6, <1>7, <1>8, TypeFacts DEF Init
  <1>10. TableInv
    <2>1. \A p \in Proc : \A i \in Idx : shared[p][i].sz = 0
      BY DEF Init, NoEntry
    <2>2. 0 \in 0 .. MAXSHARED /\ \A i \in Idx : ~(i < 0)
      BY ConstFacts DEF Idx
    <2>3. \A p \in Proc : PrefixOf(shared[p], 0)
      BY <2>1, <2>2 DEF PrefixOf
    <2> QED  BY <2>1, <2>2, <2>3 DEF TableInv, GoodTable, Distinct, From
  <1> QED  BY <1>1, <1>9, <1>10

\* Types, workload and tables are inductive.
LEMMA TableInvariance == Spec => [](TypeOK /\ UseInv /\ TableInv)
  <1>1. TypeOK /\ UseInv /\ TableInv /\ [Next]_vars
            => (TypeOK /\ UseInv /\ TableInv)'
    <2> SUFFICES ASSUME TypeOK, UseInv, TableInv, [Next]_vars
                 PROVE  (TypeOK /\ UseInv /\ TableInv)'
      OBVIOUS
    <2>1. TableInv' /\ UseInv' /\ shared' \in [Proc -> Tables]
      BY TableStep
    <2>2. TypeOK'
      <3>1. /\ state' \in [Proc -> {"UNUSED", "RUN", "ZOMBIE"}]
            /\ parent' \in [Proc -> Proc \cup {NoProc}]
            /\ parentpgdir' \in [Proc -> Proc \cup {Freed}]
            /\ fault' \in {"none", "remap", "copyuvm", "overrun"}
            /\ inherited' \in [Proc -> 0 .. MAXSHARED]
            /\ linked' \in [Proc -> {"no", "started", "done"}]
        BY ProcStep
      <3>2. sz' \in [Proc -> 0 .. SHAREBASE - 1] /\ exec' \in [Proc -> Execs]
        BY SizeStep
      <3>3. dir' \in [DirId -> Dirs] /\ free' \subseteq Page
        BY DirStep
      <3> QED  BY <2>1, <3>1, <3>2, <3>3
               DEF TypeOK, Tables, Entry, Dirs, Execs
    <2> QED  BY <2>1, <2>2
  <1> QED  BY <1>1, InitTable, PTL DEF Spec

\* In a table that is a prefix of distinct names, the first entry of a name
\* that is in use is the one in use.
LEMMA LookupFacts ==
    ASSUME TypeOK, TableInv, NEW p \in Proc, NEW i \in Active(p)
    PROVE  GetShared(p, shared[p][i].name) = shared[p][i].memstart
  <1>1. PICK t \in Tables : t = shared[p] /\ GoodTable(t, use.region)
    BY PrefixFacts
  <1>2. PICK k \in 0 .. MAXSHARED : PrefixOf(t, k)
    BY <1>1 DEF GoodTable
  <1>3. i \in Idx /\ t[i].sz # 0 /\ i < k
    BY <1>1, <1>2 DEF Active, PrefixOf
  <1>4. ASSUME NEW j \in Idx, t[j].name = t[i].name, j # i PROVE ~(j < i)
    <2> SUFFICES ASSUME j < i PROVE FALSE
      OBVIOUS
    <2>1. j < k
      BY <1>3, ConstFacts DEF Idx
    <2>2. t[j].sz # 0
      BY <1>2, <2>1 DEF PrefixOf
    <2> QED  BY <1>1, <1>3, <1>4, <2>2 DEF GoodTable, Distinct
  <1>5. \A m \in 0 .. i - 1 : m \in Idx /\ m < i /\ m # i
    BY <1>3, ConstFacts DEF Idx
  <1>6. \A m \in 0 .. i - 1 : t[m].name # t[i].name
    BY <1>4, <1>5
  <1>7. ASSUME NEW j \in Idx, t[j].name = t[i].name,
               \A m \in 0 .. j - 1 : t[m].name # t[i].name
        PROVE  j = i
    <2> SUFFICES ASSUME j # i PROVE FALSE
      OBVIOUS
    <2>1. i < j
      BY <1>3, <1>4, <1>7, ConstFacts DEF Idx
    <2>2. i \in 0 .. j - 1
      BY <1>3, <2>1, ConstFacts DEF Idx
    <2> QED  BY <1>7, <2>2
  <1> QED  BY <1>1, <1>3, <1>6, <1>7 DEF GetShared

\* Whatever programs register, fork, exec and exit leave every table a prefix
\* of used entries behind which stale ones may lie, and get_shared, which
\* looks at stale entries too, returns the address of the region in use.
THEOREM TableSafe == Spec => []TableSound
  <1>1. TypeOK /\ UseInv /\ TableInv => TableSound
    <2> SUFFICES ASSUME TypeOK, UseInv, TableInv PROVE TableSound
      OBVIOUS
    <2>1. ActivePrefix
      BY PrefixFacts DEF ActivePrefix, Active, PrefixOf
    <2>2. LookupActive
      BY LookupFacts DEF LookupActive
    <2> QED  BY <2>1, <2>2 DEF TableSound
  <1> QED  BY <1>1, TableInvariance, PTL

(***************************************************************************)
(* Arithmetic of pages                                                     *)
(***************************************************************************)
PrivN == SHAREBASE \div PGSIZE

\* SHAREBASE is the first address of page PrivN, and KERNBASE of page NVPN.
LEMMA BaseFacts ==
    /\ PrivN \in Nat \ {0} /\ PrivN * PGSIZE = SHAREBASE
    /\ NVPN \in Nat /\ NVPN * PGSIZE = KERNBASE /\ PrivN <= NVPN
    /\ PrivVPN = 0 .. PrivN - 1 /\ VPN = 0 .. NVPN - 1
    /\ MAXSHARED <= PGSIZE
  <1>1. ASSUME NEW s \in Nat, NEW k \in Nat, s = PGSIZE * k
        PROVE  s % PGSIZE = 0 /\ (s \div PGSIZE) * PGSIZE = s
    <2>1. s \div PGSIZE = k
      BY <1>1, ConstFacts
    <2> QED  BY <1>1, <2>1, ConstFacts
  <1>2. PICK c \in Nat : c = PGSIZE * NPTE /\ c > 0
    BY ShMemAssumption
  <1>3. PICK k \in Nat : SHAREBASE = c * k
    <2>1. SHAREBASE % c = 0
      BY <1>2, ShMemAssumption
    <2>2. SHAREBASE \div c \in Nat /\ SHAREBASE = c * (SHAREBASE \div c)
      BY <1>2, <2>1, ConstFacts
    <2> QED  BY <2>2
  <1>4. PICK j \in Nat : j = NPTE * k /\ SHAREBASE = PGSIZE * j
    <2>1. NPTE \in Nat
      BY ShMemAssumption
    <2>2. (PGSIZE * NPTE) * k = PGSIZE * (NPTE * k) /\ NPTE * k \in Nat
      BY <2>1, ConstFacts
    <2> QED  BY <1>2, <1>3, <2>2
  <1>5. PICK i \in Nat : KERNBASE = PGSIZE * i
    <2>1. KERNBASE % PGSIZE = 0
      BY ShMemAssumption
    <2> QED  BY <2>1, ConstFacts
  <1>6. PrivN \in Nat /\ PrivN * PGSIZE = SHAREBASE
    BY <1>1, <1>4, ConstFacts DEF PrivN
  <1>7. NVPN \in Nat /\ NVPN * PGSIZE = KERNBASE
    BY <1>1, <1>5, ConstFacts DEF NVPN
  <1>8. PrivN # 0
    BY <1>6, ConstFacts
  <1>9. PrivN <= NVPN
    <2> SUFFICES ASSUME NVPN < PrivN PROVE FALSE
      BY <1>6, <1>7
    <2>1. NVPN * PGSIZE <= PrivN * PGSIZE
      BY <1>6, <1>7, ConstFacts
    <2> QED  BY <1>6, <1>7, <2>1, ConstFacts
  <1>10. MAXSHARED <= PGSIZE
    BY ShMemAssumption
  <1> QED  BY <1>6, <1>7, <1>8, <1>9, <1>10 DEF PrivVPN, VPN, PrivN

\* A page that starts below SHAREBASE is private, and the other way round.
LEMMA PrivFacts ==
    ASSUME NEW v \in VPN
    PROVE  v * PGSIZE < SHAREBASE <=> v \in PrivVPN
  <1>1. v \in Nat
    BY BaseFacts
  <1>2. ASSUME v < PrivN PROVE v * PGSIZE < SHAREBASE
    <2>1. (v + 1) * PGSIZE <= PrivN * PGSIZE
      BY <1>1, <1>2, BaseFacts, ConstFacts
    <2>2. (v + 1) * PGSIZE = v * PGSIZE + PGSIZE
      BY <1>1, ConstFacts
    <2>3. v * PGSIZE \in Nat
      BY <1>1, ConstFacts
    <2> QED  BY <2>1, <2>2, <2>3, BaseFacts, ConstFacts
  <1>3. ASSUME ~(v < PrivN) PROVE ~(v * PGSIZE < SHAREBASE)
    <2>1. PrivN * PGSIZE <= v * PGSIZE
      BY <1>1, <1>3, BaseFacts, ConstFacts
    <2>2. v * PGSIZE \in Nat
      BY <1>1, ConstFacts
    <2> QED  BY <2>1, <2>2, BaseFacts, ConstFacts
  <1>4. v \in PrivVPN <=> v < PrivN
    BY <1>1, BaseFacts
  <1> QED  BY <1>2, <1>3, <1>4

\* What PGROUNDUP computes where it does not wrap.
LEMMA RoundUp ==
    ASSUME NEW a \in Nat, a <= KERNBASE
    PROVE  \E q \in Nat : /\ PGROUNDUP(a) = q * PGSIZE
                          /\ q * PGSIZE \in Nat
                          /\ a <= q * PGSIZE /\ q * PGSIZE < a + PGSIZE
  <1>1. PICK s \in Nat : s = a + PGSIZE - 1 /\ s < Word
    BY ConstFacts, WordFacts
  <1>2. s % Word = s
    BY <1>1, WordFacts
  <1>3. PICK q \in Nat : /\ q = s \div PGSIZE
                         /\ PGSIZE * q <= s /\ s < PGSIZE * (q + 1)
    BY ConstFacts
  <1>4. PGROUNDUP(a) = q * PGSIZE
    BY <1>1, <1>2, <1>3 DEF PGROUNDUP
  <1>5. /\ PGSIZE * q = q * PGSIZE /\ q * PGSIZE \in Nat
        /\ PGSIZE * (q + 1) = q * PGSIZE + PGSIZE
    BY ConstFacts
  <1>6. a <= q * PGSIZE /\ q * PGSIZE < a + PGSIZE
    BY <1>1, <1>3, <1>5, ConstFacts
  <1> QED  BY <1>4, <1>5, <1>6

\* Multiples of PGSIZE are ordered as their factors are.
LEMMA PageOrder ==
    ASSUME NEW m \in Nat, NEW q \in Nat
    PROVE  /\ m * PGSIZE \in Nat /\ q * PGSIZE \in Nat
           /\ m <= q <=> m * PGSIZE <= q * PGSIZE
           /\ m < q <=> m * PGSIZE + PGSIZE <= q * PGSIZE
  <1>1. m * PGSIZE \in Nat /\ q * PGSIZE \in Nat
    BY ConstFacts
  <1>2. ASSUME m <= q PROVE m * PGSIZE <= q * PGSIZE
    BY <1>2, ConstFacts
  <1>3. ASSUME NEW i \in Nat, NEW j \in Nat, i < j
        PROVE  i * PGSIZE + PGSIZE <= j * PGSIZE
    <2>1. (i + 1) * PGSIZE <= j * PGSIZE
      BY <1>3, ConstFacts
    <2>2. (i + 1) * PGSIZE = i * PGSIZE + PGSIZE
      BY ConstFacts
    <2> QED  BY <2>1, <2>2
  <1>4. ASSUME ~(m <= q) PROVE ~(m * PGSIZE <= q * PGSIZE)
    <2>1. q * PGSIZE + PGSIZE <= m * PGSIZE
      BY <1>3, <1>4
    <2> QED  BY <1>1, <2>1, ConstFacts
  <1>5. ASSUME ~(m < q) PROVE ~(m * PGSIZE + PGSIZE <= q * PGSIZE)
    <2>1. q * PGSIZE <= m * PGSIZE
      BY <1>5, ConstFacts
    <2> QED  BY <1>1, <2>1, ConstFacts
  <1>6. m < q => m * PGSIZE + PGSIZE <= q * PGSIZE
    BY <1>3
  <1> QED  BY <1>1, <1>2, <1>4, <1>5, <1>6

\* A page starts at or after an address exactly when it starts at or after the
\* rounded address.
LEMMA RoundOrder ==
    ASSUME NEW a \in Nat, a <= KERNBASE, NEW v \in Nat
    PROVE  /\ PGROUNDUP(a) \in Nat /\ a <= PGROUNDUP(a)
           /\ PGROUNDUP(a) <= v * PGSIZE <=> a <= v * PGSIZE
  <1>1. PICK q \in Nat : /\ PGROUNDUP(a) = q * PGSIZE /\ q * PGSIZE \in Nat
                         /\ a <= q * PGSIZE /\ q * PGSIZE < a + PGSIZE
    BY RoundUp
  <1>2. v * PGSIZE \in Nat
    BY ConstFacts
  <1>3. ASSUME a <= v * PGSIZE PROVE q * PGSIZE <= v * PGSIZE
    <2>1. ~(v * PGSIZE + PGSIZE <= q * PGSIZE)
      BY <1>1, <1>2, <1>3, ConstFacts
    <2>2. ~(v < q)
      BY <2>1, PageOrder
    <2>3. q <= v
      BY <2>2
    <2> QED  BY <2>3, PageOrder
  <1>4. q * PGSIZE <= v * PGSIZE => a <= v * PGSIZE
    BY <1>1, <1>2
  <1> QED  BY <1>1, <1>3, <1>4

\* Less than a page before a page's first address, the rounded address is that.
LEMMA RoundAt ==
    ASSUME NEW m \in Nat, NEW j \in Nat, j < PGSIZE, m * PGSIZE - j \in Nat,
           m * PGSIZE <= KERNBASE
    PROVE  PGROUNDUP(m * PGSIZE - j) = m * PGSIZE
  <1>0. m * PGSIZE \in Nat
    BY ConstFacts
  <1>1. PICK a \in Nat : a = m * PGSIZE - j /\ a <= KERNBASE
    BY <1>0, ConstFacts
  <1>2. PICK q \in Nat : /\ PGROUNDUP(a) = q * PGSIZE /\ q * PGSIZE \in Nat
                         /\ a <= q * PGSIZE /\ q * PGSIZE < a + PGSIZE
    BY <1>1, RoundUp
  <1>3. ~(q * PGSIZE + PGSIZE <= m * PGSIZE)
    BY <1>0, <1>1, <1>2, ConstFacts
  <1>4. ~(m * PGSIZE + PGSIZE <= q * PGSIZE)
    BY <1>0, <1>1, <1>2, ConstFacts
  <1>5. ~(q < m) /\ ~(m < q)
    BY <1>3, <1>4, PageOrder
  <1>6. q = m
    BY <1>5
  <1> QED  BY <1>1, <1>2, <1>6

(***************************************************************************)
(* One owner for every page                                                *)
(***************************************************************************)

\* NoAlias, and NoLeak whoever has the directory, of values of dir and free.
Sole(D, F) ==
    /\ \A a, b \in DirId : \A v, w \in PrivVPN :
          D[a][v] # NoPage /\ D[a][v] = D[b][w] => a = b /\ v = w
    /\ \A a \in DirId : \A v \in PrivVPN : D[a][v] \notin F

Kept(D, F, P) ==
    \A pg \in P : pg \in F \/ \E a \in DirId : \E v \in PrivVPN : D[a][v] = pg

Owned(D, F, P) ==
    F \subseteq Page /\ P \subseteq Page /\ Sole(D, F) /\ Kept(D, F, P)

\* Directory d has at the pages V, where c has nothing, different pages of F;
\* G is what remains of F.
Adds(c, d, V, f, F, G) ==
    /\ f \in [V -> F] /\ \A v, w \in V : f[v] = f[w] => v = w
    /\ \A v \in V : c[v] = NoPage
    /\ \A v \in PrivVPN : v \in V => d[v] = f[v]
    /\ \A v \in PrivVPN : v \notin V => d[v] = c[v]
    /\ G = F \ {f[v] : v \in V}

\* Different free pages are mapped where nothing was.
LEMMA AllocOwned ==
    ASSUME NEW D \in [DirId -> Dirs], NEW F, NEW G, NEW P, Owned(D, F, P),
           NEW a \in DirId, NEW d \in Dirs, NEW V, V \subseteq PrivVPN,
           NEW f, Adds(D[a], d, V, f, F, G)
    PROVE  Owned([D EXCEPT ![a] = d], G, P)
  <1>1. PICK E \in [DirId -> Dirs] : E = [D EXCEPT ![a] = d]
    OBVIOUS
  <1>2. G = F \ {f[v] : v \in V} /\ \A v \in V : f[v] \in F /\ f[v] \notin G
    BY DEF Adds
  <1>3. E[a] = d /\ \A b \in DirId \ {a} : E[b] = D[b]
    BY <1>1
  <1>4. ASSUME NEW b \in DirId, NEW v \in PrivVPN
        PROVE  \/ b = a /\ v \in V /\ E[b][v] = f[v]
               \/ (b # a \/ v \notin V) /\ E[b][v] = D[b][v]
    <2>1. CASE b = a /\ v \in V
      BY <1>3, <2>1 DEF Adds
    <2>2. CASE b = a /\ v \notin V
      BY <1>3, <2>2 DEF Adds
    <2>3. CASE b # a
      BY <1>3, <2>3
    <2> QED  BY <2>1, <2>2, <2>3
  <1>5. ASSUME NEW b \in DirId, NEW v \in PrivVPN PROVE E[b][v] \notin G
    <2>1. CASE b = a /\ v \in V /\ E[b][v] = f[v]
      BY <1>2, <2>1
    <2>2. CASE E[b][v] = D[b][v]
      BY <1>2, <2>2 DEF Owned, Sole
    <2> QED  BY <1>4, <2>1, <2>2
  <1>6. ASSUME NEW b \in DirId, NEW c \in DirId, NEW v \in PrivVPN,
               NEW w \in PrivVPN, E[b][v] # NoPage, E[b][v] = E[c][w]
        PROVE  b = c /\ v = w
    <2>1. CASE b = a /\ v \in V /\ E[b][v] = f[v]
      <3>1. E[c][w] \in F
        BY <1>2, <1>6, <2>1
      <3>2. E[c][w] # D[c][w]
        BY <3>1 DEF Owned, Sole
      <3>3. c = a /\ w \in V /\ E[c][w] = f[w]
        BY <1>4, <3>2
      <3>4. f[v] = f[w] => v = w
        BY <2>1, <3>3 DEF Adds
      <3> QED  BY <1>6, <2>1, <3>3, <3>4
    <2>2. CASE E[b][v] = D[b][v]
      <3>1. E[c][w] \notin F
        BY <1>6, <2>2 DEF Owned, Sole
      <3>2. E[c][w] = D[c][w]
        BY <1>2, <1>4, <3>1
      <3>3. D[b][v] # NoPage /\ D[b][v] = D[c][w]
        BY <1>6, <2>2, <3>2
      <3> QED  BY <3>3 DEF Owned, Sole
    <2> QED  BY <1>4, <2>1, <2>2
  <1>7. ASSUME NEW pg \in P, pg \notin G
        PROVE  \E b \in DirId : \E v \in PrivVPN : E[b][v] = pg
    <2>1. CASE pg \in F
      <3>1. PICK v \in V : pg = f[v]
        BY <1>2, <1>7, <2>1
      <3>2. v \in PrivVPN /\ d[v] = f[v]
        BY DEF Adds
      <3> QED  BY <1>3, <3>1, <3>2
    <2>2. CASE pg \notin F
      <3>1. PICK b \in DirId, v \in PrivVPN : D[b][v] = pg
        BY <2>2 DEF Owned, Kept
      <3>2. CASE E[b][v] = D[b][v]
        BY <3>1, <3>2
      <3>3. CASE b = a /\ v \in V
        <4>1. D[b][v] = NoPage
          BY <3>3 DEF Adds
        <4> QED  BY <3>1, <4>1, ConstFacts DEF Owned
      <3> QED  BY <1>4, <3>2, <3>3
    <2> QED  BY <2>1, <2>2
  <1>8. G \subseteq Page /\ P \subseteq Page
    BY <1>2 DEF Owned
  <1>9. Sole(E, G)
    BY <1>5, <1>6 DEF Sole
  <1>10. Kept(E, G, P)
    BY <1>7 DEF Kept
  <1> QED  BY <1>1, <1>8, <1>9, <1>10 DEF Owned

\* Pages that are unmapped go to the allocator.
LEMMA FreeOwned ==
    ASSUME NEW D \in [DirId -> Dirs], NEW F, NEW P, Owned(D, F, P),
           NEW a \in DirId, NEW d \in Dirs, NEW V \in SUBSET PrivVPN,
           \A v \in PrivVPN : /\ v \in V => d[v] = NoPage
                              /\ v \notin V => d[v] = D[a][v]
    PROVE  Owned([D EXCEPT ![a] = d], F \cup PagesAt(D[a], V), P)
  <1>1. PICK E \in [DirId -> Dirs] : E = [D EXCEPT ![a] = d]
    OBVIOUS
  <1>2. PICK G : G = F \cup PagesAt(D[a], V)
    OBVIOUS
  <1>3. E[a] = d /\ \A b \in DirId \ {a} : E[b] = D[b]
    BY <1>1
  <1>4. PrivVPN \subseteq VPN
    BY PageSets
  <1>5. G \subseteq Page /\ NoPage \notin G
    BY <1>2, <1>4, ConstFacts DEF Owned, PagesAt, Dirs
  <1>6. ASSUME NEW b \in DirId, NEW v \in PrivVPN
        PROVE  \/ b = a /\ v \in V /\ E[b][v] = NoPage
               \/ (b # a \/ v \notin V) /\ E[b][v] = D[b][v]
    BY <1>3
  <1>7. ASSUME NEW b \in DirId, NEW v \in PrivVPN PROVE E[b][v] \notin G
    <2>1. CASE E[b][v] = NoPage
      BY <1>5, <2>1
    <2>2. CASE (b # a \/ v \notin V) /\ E[b][v] = D[b][v] /\ E[b][v] # NoPage
      <3>1. D[b][v] \notin F
        BY DEF Owned, Sole
      <3>2. \A w \in V : D[b][v] # D[a][w]
        BY <2>2 DEF Owned, Sole
      <3> QED  BY <1>2, <2>2, <3>1, <3>2 DEF PagesAt
    <2> QED  BY <1>6, <2>1, <2>2
  <1>8. ASSUME NEW b \in DirId, NEW c \in DirId, NEW v \in PrivVPN,
               NEW w \in PrivVPN, E[b][v] # NoPage, E[b][v] = E[c][w]
        PROVE  b = c /\ v = w
    <2>1. E[b][v] = D[b][v] /\ E[c][w] = D[c][w]
      BY <1>6, <1>8
    <2>2. D[b][v] # NoPage /\ D[b][v] = D[c][w]
      BY <1>8, <2>1
    <2> QED  BY <2>2 DEF Owned, Sole
  <1>9. ASSUME NEW pg \in P, pg \notin G
        PROVE  \E b \in DirId : \E v \in PrivVPN : E[b][v] = pg
    <2>1. pg # NoPage /\ pg \notin F
      BY <1>2, <1>9, ConstFacts DEF Owned
    <2>2. PICK b \in DirId, v \in PrivVPN : D[b][v] = pg
      BY <2>1 DEF Owned, Kept
    <2>3. ~(b = a /\ v \in V)
      BY <1>2, <1>9, <2>1, <2>2 DEF PagesAt
    <2> QED  BY <1>6, <2>2, <2>3
  <1>10. Sole(E, G)
    BY <1>7, <1>8 DEF Sole
  <1>11. Kept(E, G, P) /\ P \subseteq Page
    BY <1>9 DEF Kept, Owned
  <1> QED  BY <1>1, <1>2, <1>5, <1>10, <1>11 DEF Owned

\* A directory takes the place of one that has no private page.
LEMMA MoveOwned ==
    ASSUME NEW D \in [DirId -> Dirs], NEW F, NEW P, Owned(D, F, P),
           NEW a \in DirId, NEW b \in DirId, a # b,
           \A v \in PrivVPN : D[a][v] = NoPage,
           NEW e \in Dirs, \A v \in PrivVPN : e[v] = NoPage
    PROVE  Owned([D EXCEPT ![a] = D[b], ![b] = e], F, P)
  <1>1. PICK E \in [DirId -> Dirs] : E = [D EXCEPT ![a] = D[b], ![b] = e]
    OBVIOUS
  <1>2. E[a] = D[b] /\ E[b] = e /\ \A c \in DirId \ {a, b} : E[c] = D[c]
    BY <1>1
  <1>3. NoPage \notin F /\ NoPage \notin P
    BY ConstFacts DEF Owned
  <1>4. ASSUME NEW c \in DirId, NEW v \in PrivVPN, E[c][v] # NoPage
        PROVE  /\ c # b
               /\ c = a => E[c][v] = D[b][v]
               /\ c # a => E[c][v] = D[c][v]
    BY <1>2, <1>4
  <1>5. ASSUME NEW c \in DirId, NEW v \in PrivVPN PROVE E[c][v] \notin F
    BY <1>3, <1>4 DEF Owned, Sole
  <1>6. ASSUME NEW c \in DirId, NEW g \in DirId, NEW v \in PrivVPN,
               NEW w \in PrivVPN, E[c][v] # NoPage, E[c][v] = E[g][w]
        PROVE  c = g /\ v = w
    <2>1. E[g][w] # NoPage /\ c # b /\ g # b
      BY <1>4, <1>6
    <2>2. CASE c = a /\ g = a
      BY <1>4, <1>6, <2>1, <2>2 DEF Owned, Sole
    <2>3. CASE c # a /\ g # a
      BY <1>4, <1>6, <2>1, <2>3 DEF Owned, Sole
    <2>4. CASE c = a /\ g # a
      BY <1>4, <1>6, <2>1, <2>4 DEF Owned, Sole
    <2>5. CASE c # a /\ g = a
      BY <1>4, <1>6, <2>1, <2>5 DEF Owned, Sole
    <2> QED  BY <2>2, <2>3, <2>4, <2>5
  <1>7. ASSUME NEW pg \in P, pg \notin F
        PROVE  \E c \in DirId : \E v \in PrivVPN : E[c][v] = pg
    <2>1. PICK c \in DirId, v \in PrivVPN : D[c][v] = pg
      BY <1>7 DEF Owned, Kept
    <2>2. c # a
      BY <1>3, <2>1
    <2>3. CASE c = b
      BY <1>2, <2>1, <2>3
    <2>4. CASE c # b
      BY <1>2, <2>1, <2>2, <2>4
    <2> QED  BY <2>3, <2>4
  <1>8. Sole(E, F) /\ Kept(E, F, P)
    BY <1>5, <1>6, <1>7 DEF Sole, Kept
  <1> QED  BY <1>1, <1>8 DEF Owned

\* First addresses of pages.
LEMMA PageNum ==
    /\ \A v \in VPN : v \in Nat /\ v * PGSIZE \in Nat
    /\ \A v \in PrivVPN : v \in VPN
    /\ \A v \in VPN : \A a \in Nat :
          a <= SHAREBASE /\ v * PGSIZE < a => v \in PrivVPN
  <1>1. \A v \in VPN : v \in Nat /\ v * PGSIZE \in Nat
    BY BaseFacts, ConstFacts
  <1>2. ASSUME NEW v \in VPN, NEW a \in Nat, a <= SHAREBASE, v * PGSIZE < a
        PROVE  v \in PrivVPN
    <2>1. PICK b \in Nat : b = v * PGSIZE
      BY <1>1
    <2>2. b < SHAREBASE
      BY <1>2, <2>1, ConstFacts
    <2> QED  BY <2>1, <2>2, PrivFacts
  <1> QED  BY <1>1, <1>2, PageSets

\* kalloc for the pages V of directory a, whose other pages d has as well.
LEMMA AllocStep ==
    ASSUME TypeOK, Owned(dir, free, use.page), NEW a \in DirId,
           NEW d \in Dirs, NEW V \in SUBSET PrivVPN, NEW f \in KallocFor(V),
           \A v \in V : dir[a][v] = NoPage,
           \A v \in PrivVPN : v \notin V => d[v] = dir[a][v]
    PROVE  /\ MapPages(d, f) \in Dirs
           /\ \A v \in VPN : v \notin V => MapPages(d, f)[v] = d[v]
           /\ Owned([dir EXCEPT ![a] = MapPages(d, f)],
                    free \ {f[v] : v \in DOMAIN f}, use.page)
  <1>0. dir \in [DirId -> Dirs] /\ free \subseteq Page /\ PrivVPN \subseteq VPN
    BY TypeFacts, PageSets
  <1>1. f \in [V -> free] /\ \A v, w \in V : f[v] = f[w] => v = w
    BY DEF KallocFor
  <1>2. DOMAIN f = V /\ V \in SUBSET VPN
    BY <1>0, <1>1
  <1>3. PICK e \in Dirs : e = MapPages(d, f)
    BY <1>0, <1>2, DirTypes
  <1>4. \A v \in VPN : /\ v \in V => e[v] = f[v]
                       /\ v \notin V => e[v] = d[v]
    BY <1>2, <1>3 DEF MapPages
  <1>5. \A v \in PrivVPN : /\ v \in V => e[v] = f[v]
                           /\ v \notin V => e[v] = dir[a][v]
    BY <1>0, <1>4
  <1>6. Owned([dir EXCEPT ![a] = e], free \ {f[v] : v \in V}, use.page)
    <2>1. PICK D \in [DirId -> Dirs] : D = dir
      BY <1>0
    <2>2. PICK F, G, P : /\ F = free /\ P = use.page
                         /\ G = free \ {f[v] : v \in V}
      OBVIOUS
    <2>3. Owned(D, F, P)
      BY <2>1, <2>2
    <2>4. Adds(D[a], e, V, f, F, G)
      BY <1>1, <1>5, <2>1, <2>2 DEF Adds
    <2>5. Owned([D EXCEPT ![a] = e], G, P)
      BY <2>3, <2>4, AllocOwned
    <2> QED  BY <2>1, <2>2, <2>5
  <1> QED  BY <1>2, <1>3, <1>4, <1>6

\* A directory with no private page is replaced by one with the pages of f.
LEMMA FreshStep ==
    ASSUME TypeOK, Owned(dir, free, use.page), NEW a \in DirId,
           NEW V \in SUBSET PrivVPN, NEW f \in KallocFor(V),
           \A v \in PrivVPN : dir[a][v] = NoPage
    PROVE  \E e \in Dirs :
              /\ e = MapPages(EmptyDir, f)
              /\ \A v \in VPN : v \notin V => e[v] = NoPage
              /\ Owned([dir EXCEPT ![a] = e],
                       free \ {f[v] : v \in DOMAIN f}, use.page)
  <1>1. PICK d \in Dirs : d = EmptyDir /\ \A v \in VPN : d[v] = NoPage
    <2>1. EmptyDir \in Dirs
      BY DEF EmptyDir, Dirs
    <2> QED  BY <2>1 DEF EmptyDir
  <1>2. \A v \in PrivVPN : v \notin V => d[v] = dir[a][v]
    BY <1>1, PageNum
  <1>3. /\ MapPages(d, f) \in Dirs
        /\ \A v \in VPN : v \notin V => MapPages(d, f)[v] = d[v]
        /\ Owned([dir EXCEPT ![a] = MapPages(d, f)],
                 free \ {f[v] : v \in DOMAIN f}, use.page)
    BY <1>2, AllocStep
  <1> QED  BY <1>1, <1>3

\* Where an exec stands: va is less than a page before the first address of a
\* page m, because every region that was not linked moved it back by a byte.
\* m is not private, and where page tables may be missing nothing is mapped
\* from m on, so that the error path of mappa2va finds nothing to free.
LinkAt(x, new, tablefail) ==
    \E m \in PrivN .. NVPN :
        /\ \E j \in 0 .. x.i : x.va = m * PGSIZE - j
        /\ tablefail => \A v \in VPN : v >= m => new[v] = NoPage

\* A process and its directories: below SHAREBASE an unused slot has no page,
\* and nothing is mapped from the size on.  Only a running process is in exec.
MapsGood(st, s, x, cur, new, tablefail) ==
    /\ st = "UNUSED" => \A v \in PrivVPN : cur[v] = NoPage
    /\ \A v \in PrivVPN : s <= v * PGSIZE => cur[v] = NoPage
    /\ \A v \in PrivVPN : x.sz <= v * PGSIZE => new[v] = NoPage
    /\ x # NoExec => st = "RUN"
    /\ x.pc = "none" => x = NoExec
    /\ x.pc = "link" => LinkAt(x, new, tablefail)

AllGood ==
    \A p \in Proc : MapsGood(state[p], sz[p], exec[p], dir[<<p, "cur">>],
                             dir[<<p, "new">>], use.tablefail)

\* The pages' invariant, for programs that are modest.
PageInv == Modest(use) => AllGood /\ Owned(dir, free, use.page)

\* A step that changes what one process has.
LEMMA OneProcess ==
    ASSUME AllGood, use' = use, NEW p \in Proc,
           \A r \in Proc \ {p} : /\ state'[r] = state[r] /\ sz'[r] = sz[r]
                                 /\ exec'[r] = exec[r]
                                 /\ dir'[<<r, "cur">>] = dir[<<r, "cur">>]
                                 /\ dir'[<<r, "new">>] = dir[<<r, "new">>],
           MapsGood(state'[p], sz'[p], exec'[p], dir'[<<p, "cur">>],
                    dir'[<<p, "new">>], use.tablefail)
    PROVE  AllGood'
  <1> SUFFICES ASSUME NEW r \in Proc
               PROVE  MapsGood(state'[r], sz'[r], exec'[r],
                               dir'[<<r, "cur">>], dir'[<<r, "new">>],
                               use.tablefail)
    BY DEF AllGood
  <1>1. CASE r = p
    BY <1>1
  <1>2. CASE r # p
    BY <1>2 DEF AllGood
  <1> QED  BY <1>1, <1>2

\* Values of a process, for the steps below.
LEMMA ValueFacts ==
    ASSUME TypeOK, UseInv, NEW p \in Proc
    PROVE  /\ sz[p] \in Nat /\ sz[p] < SHAREBASE
           /\ exec[p] \in Execs /\ exec[p].sz \in Nat
           /\ exec[p].sz < SHAREBASE
           /\ <<p, "cur">> \in DirId /\ <<p, "new">> \in DirId
           /\ dir \in [DirId -> Dirs] /\ free \subseteq Page
           /\ dir[<<p, "cur">>] \in Dirs /\ dir[<<p, "new">>] \in Dirs
           /\ \A r \in Proc : <<r, "cur">> # <<p, "new">>
           /\ \A r \in Proc \ {p} :
                 <<r, "cur">> # <<p, "cur">> /\ <<r, "new">> # <<p, "new">>
           /\ NoExec.sz = 0 /\ NoExec.pc = "none"
  <1>1. /\ sz[p] \in 0 .. SHAREBASE - 1 /\ exec[p] \in Execs
        /\ dir \in [DirId -> Dirs] /\ free \subseteq Page
    BY TypeFacts
  <1>2. /\ sz[p] \in Nat /\ sz[p] < SHAREBASE
        /\ exec[p].sz \in Nat /\ exec[p].sz < SHAREBASE
    BY <1>1, ConstFacts DEF Execs
  <1>3. <<p, "cur">> \in DirId /\ <<p, "new">> \in DirId
    BY DEF DirId
  <1>4. NoExec.sz = 0 /\ NoExec.pc = "none"
    BY DEF NoExec
  <1>5. /\ \A r \in Proc : <<r, "cur">> # <<p, "new">>
        /\ \A r \in Proc \ {p} :
              <<r, "cur">> # <<p, "cur">> /\ <<r, "new">> # <<p, "new">>
    OBVIOUS
  <1> QED  BY <1>1, <1>2, <1>3, <1>4, <1>5

\* The pages between two sizes: they start from the first on, below the second.
LEMMA BetweenFacts ==
    ASSUME NEW a \in Nat, a <= KERNBASE, NEW b \in Nat, b <= SHAREBASE
    PROVE  /\ PagesBetween(a, b) \subseteq PrivVPN
           /\ \A v \in VPN : v \in PagesBetween(a, b) <=>
                               a <= v * PGSIZE /\ v * PGSIZE < b
  <1>1. ASSUME NEW v \in VPN
        PROVE  PGROUNDUP(a) <= v * PGSIZE <=> a <= v * PGSIZE
    BY PageNum, RoundOrder
  <1>2. \A v \in VPN : v \in PagesBetween(a, b) <=>
                        a <= v * PGSIZE /\ v * PGSIZE < b
    BY <1>1 DEF PagesBetween
  <1>3. PagesBetween(a, b) \subseteq VPN
    BY PageSets
  <1>4. \A v \in PagesBetween(a, b) : v \in VPN /\ v * PGSIZE < b
    BY <1>2, <1>3
  <1> QED  BY <1>2, <1>4, PageNum

\* growproc maps new pages from the size on.
LEMMA GrowPages ==
    ASSUME TypeOK, UseInv, AllGood, Owned(dir, free, use.page), use' = use,
           NEW p \in Proc, NEW n \in use.sbrk, Grow(p, n)
    PROVE  AllGood' /\ Owned(dir', free', use.page)
  <1>0. /\ sz[p] \in Nat /\ sz[p] < SHAREBASE /\ SHAREBASE \in Nat
        /\ SHAREBASE < KERNBASE /\ KERNBASE \in Nat
    BY ValueFacts, ConstFacts
  <1>1. PICK s : s = (sz[p] + n) % Word
    OBVIOUS
  <1>2. s \in Nat /\ s < SHAREBASE /\ s >= sz[p]
    <2>1. n \in Int
      BY UseFacts
    <2>2. sz[p] + n \in Int
      BY <1>0, <2>1
    <2> QED  BY <1>1, <2>2, WordFacts DEF Addr, Grow
  <1>3. PICK V : V = PagesBetween(sz[p], s)
    OBVIOUS
  <1>4. PICK f \in KallocFor(V) :
           /\ dir' = [dir EXCEPT ![<<p, "cur">>] =
                                    MapPages(dir[<<p, "cur">>], f)]
           /\ free' = free \ {f[v] : v \in DOMAIN f}
    BY <1>1, <1>3 DEF Grow
  <1>5. sz[p] <= KERNBASE /\ s <= SHAREBASE
    BY <1>0, <1>2
  <1>6. /\ V \in SUBSET PrivVPN
        /\ \A v \in VPN : v \in V <=> sz[p] <= v * PGSIZE /\ v * PGSIZE < s
    BY <1>0, <1>2, <1>3, <1>5, BetweenFacts
  <1>7. \A v \in V : dir[<<p, "cur">>][v] = NoPage
    BY <1>6, PageNum DEF AllGood, MapsGood
  <1>8. PICK e \in Dirs :
           /\ e = MapPages(dir[<<p, "cur">>], f)
           /\ \A v \in VPN : v \notin V => e[v] = dir[<<p, "cur">>][v]
           /\ Owned([dir EXCEPT ![<<p, "cur">>] = e],
                    free \ {f[v] : v \in DOMAIN f}, use.page)
    BY <1>6, <1>7, AllocStep, ValueFacts
  <1>9. ASSUME NEW v \in PrivVPN, s <= v * PGSIZE PROVE e[v] = NoPage
    <2>1. PICK b \in Nat : b = v * PGSIZE /\ v \in VPN
      BY PageNum
    <2>2. v \notin V /\ sz[p] <= v * PGSIZE
      BY <1>0, <1>2, <1>6, <1>9, <2>1
    <2> QED  BY <1>8, <2>1, <2>2 DEF AllGood, MapsGood
  <1>10. state[p] = "RUN"
    BY DEF Grow, CanRun, Idle
  <1>11. /\ dir' = [dir EXCEPT ![<<p, "cur">>] = e]
         /\ sz' = [sz EXCEPT ![p] = s] /\ state' = state /\ exec' = exec
    BY <1>1, <1>4, <1>8 DEF Grow
  <1>12. /\ dir'[<<p, "cur">>] = e /\ dir'[<<p, "new">>] = dir[<<p, "new">>]
         /\ sz'[p] = s
         /\ \A r \in Proc \ {p} : /\ sz'[r] = sz[r]
                                  /\ dir'[<<r, "cur">>] = dir[<<r, "cur">>]
                                  /\ dir'[<<r, "new">>] = dir[<<r, "new">>]
    BY <1>11, ValueFacts, TypeFacts DEF DirId
  <1>13. MapsGood(state[p], s, exec[p], e, dir[<<p, "new">>], use.tablefail)
    BY <1>9, <1>10 DEF AllGood, MapsGood
  <1>14. AllGood'
    BY <1>11, <1>12, <1>13, OneProcess
  <1> QED  BY <1>4, <1>8, <1>14

\* The pages V of directory a go to the allocator.
LEMMA FreeStep ==
    ASSUME TypeOK, Owned(dir, free, use.page), NEW a \in DirId,
           NEW d \in Dirs, NEW V \in SUBSET PrivVPN,
           \A v \in V : d[v] = NoPage,
           \A v \in PrivVPN : v \notin V => d[v] = dir[a][v]
    PROVE  Owned([dir EXCEPT ![a] = d], free \cup PagesAt(dir[a], V), use.page)
  <1>1. PICK D \in [DirId -> Dirs] : D = dir
    BY TypeFacts
  <1>a. PICK F, P : F = free /\ P = use.page
    OBVIOUS
  <1>2. Owned(D, F, P)
    BY <1>1, <1>a
  <1>3. \A v \in PrivVPN : /\ v \in V => d[v] = NoPage
                           /\ v \notin V => d[v] = D[a][v]
    BY <1>1
  <1>4. Owned([D EXCEPT ![a] = d], F \cup PagesAt(D[a], V), P)
    BY <1>2, <1>3, FreeOwned
  <1> QED  BY <1>1, <1>a, <1>4

\* growproc frees the pages from the new size on; sz stays when it is 0.
LEMMA ShrinkPages ==
    ASSUME TypeOK, UseInv, AllGood, Owned(dir, free, use.page), use' = use,
           NEW p \in Proc, NEW n \in use.sbrk, Shrink(p, n)
    PROVE  AllGood' /\ Owned(dir', free', use.page)
  <1>0. /\ sz[p] \in Nat /\ sz[p] < SHAREBASE /\ SHAREBASE \in Nat
        /\ SHAREBASE < KERNBASE /\ KERNBASE \in Nat
    BY ValueFacts, ConstFacts
  <1>1. PICK s : s = (sz[p] + n) % Word
    OBVIOUS
  <1>2. s \in Nat /\ s < sz[p]
    <2>1. n \in Int
      BY UseFacts
    <2>2. sz[p] + n \in Int
      BY <1>0, <2>1
    <2> QED  BY <1>1, <2>2, WordFacts DEF Addr, Shrink
  <1>3. PICK V : V = PagesBetween(s, sz[p])
    OBVIOUS
  <1>4. PICK e : e = Unmap(dir[<<p, "cur">>], V)
    OBVIOUS
  <1>5. PICK t : t = IF s = 0 THEN sz[p] ELSE s
    OBVIOUS
  <1>6. s <= KERNBASE /\ sz[p] <= SHAREBASE
    BY <1>0, <1>2
  <1>7. /\ V \in SUBSET PrivVPN
        /\ \A v \in VPN : v \in V <=> s <= v * PGSIZE /\ v * PGSIZE < sz[p]
    BY <1>0, <1>2, <1>3, <1>6, BetweenFacts
  <1>8. /\ e \in Dirs
        /\ \A v \in V : e[v] = NoPage
        /\ \A v \in PrivVPN : v \notin V => e[v] = dir[<<p, "cur">>][v]
    <2>1. V \in SUBSET VPN /\ \A v \in PrivVPN : v \in VPN
      BY <1>7, PageNum
    <2> QED  BY <1>4, <2>1, ValueFacts, DirTypes DEF Unmap
  <1>9. Owned([dir EXCEPT ![<<p, "cur">>] = e],
              free \cup PagesAt(dir[<<p, "cur">>], V), use.page)
    BY <1>7, <1>8, FreeStep, ValueFacts
  <1>10. ASSUME NEW v \in PrivVPN, t <= v * PGSIZE PROVE e[v] = NoPage
    <2>1. PICK b \in Nat : b = v * PGSIZE /\ v \in VPN
      BY PageNum
    <2>2. v \in V \/ sz[p] <= v * PGSIZE
      BY <1>0, <1>2, <1>5, <1>7, <1>10, <2>1
    <2>3. CASE v \in V
      BY <1>8, <2>3
    <2>4. CASE v \notin V /\ sz[p] <= v * PGSIZE
      BY <1>8, <2>4 DEF AllGood, MapsGood
    <2> QED  BY <2>2, <2>3, <2>4
  <1>11. state[p] = "RUN"
    BY DEF Shrink, CanRun, Idle
  <1>12. /\ dir' = [dir EXCEPT ![<<p, "cur">>] = e]
         /\ free' = free \cup PagesAt(dir[<<p, "cur">>], V)
         /\ sz' = [sz EXCEPT ![p] = t] /\ state' = state /\ exec' = exec
    BY <1>1, <1>3, <1>4, <1>5 DEF Shrink
  <1>13. /\ dir'[<<p, "cur">>] = e /\ dir'[<<p, "new">>] = dir[<<p, "new">>]
         /\ sz'[p] = t
         /\ \A r \in Proc \ {p} : /\ sz'[r] = sz[r]
                                  /\ dir'[<<r, "cur">>] = dir[<<r, "cur">>]
                                  /\ dir'[<<r, "new">>] = dir[<<r, "new">>]
    BY <1>12, ValueFacts, TypeFacts DEF DirId
  <1>14. MapsGood(state[p], t, exec[p], e, dir[<<p, "new">>], use.tablefail)
    BY <1>10, <1>11 DEF AllGood, MapsGood
  <1>15. AllGood'
    BY <1>12, <1>13, <1>14, OneProcess
  <1> QED  BY <1>9, <1>12, <1>15

\* A modest program's table has an unused entry: the names in a full one
\* would be MAXSHARED different names of regions.
LEMMA TableRoom ==
    ASSUME TypeOK, TableInv, Modest(use), NEW p \in Proc
    PROVE  FirstFree(shared[p]) < MAXSHARED
  <1> SUFFICES ASSUME ~(FirstFree(shared[p]) < MAXSHARED) PROVE FALSE
    OBVIOUS
  <1>1. PICK t \in Tables : t = shared[p] /\ GoodTable(t, use.region)
    BY PrefixFacts
  <1>2. PrefixOf(t, MAXSHARED)
    <2>1. FirstFree(t) = MAXSHARED /\ PrefixOf(t, FirstFree(t))
      BY <1>1, PrefixFacts, ConstFacts
    <2> QED  BY <2>1
  <1>3. \A i \in Idx : t[i].sz # 0
    BY <1>2, ConstFacts DEF PrefixOf, Idx
  <1>4. PICK N : /\ N = {r.name : r \in use.region} /\ IsFiniteSet(N)
                 /\ Cardinality(N) < MAXSHARED
    BY DEF Modest
  <1>5. PICK g : g = [i \in Idx |-> t[i].name]
    OBVIOUS
  <1>6. g \in Injection(Idx, N)
    <2>1. \A i \in Idx : t[i].name \in N
      BY <1>1, <1>3, <1>4 DEF GoodTable, From
    <2>2. \A i, j \in Idx : t[i].name = t[j].name => i = j
      BY <1>1, <1>3 DEF GoodTable, Distinct
    <2> QED  BY <1>5, <2>1, <2>2 DEF Injection, IsInjective
  <1>7. Cardinality(Idx) <= Cardinality(N)
    BY <1>4, <1>6, FS_Injection
  <1>8. Cardinality(Idx) = MAXSHARED
    <2>1. 0 \in Int /\ MAXSHARED - 1 \in Int /\ ~(0 > MAXSHARED - 1)
          /\ (MAXSHARED - 1) - 0 + 1 = MAXSHARED
      BY ConstFacts
    <2> QED  BY <2>1, FS_Interval DEF Idx
  <1>9. Cardinality(N) \in Nat
    BY <1>4, FS_CardinalityType
  <1> QED  BY <1>4, <1>7, <1>8, <1>9, ConstFacts

\* fork copies the pages below the size into a slot that has none.
LEMMA ForkPages ==
    ASSUME TypeOK, UseInv, TableInv, Modest(use), AllGood,
           Owned(dir, free, use.page), use' = use,
           NEW p \in Proc, NEW np \in Proc, Fork(p, np)
    PROVE  AllGood' /\ Owned(dir', free', use.page)
  <1>0. /\ sz[p] \in Nat /\ sz[p] <= SHAREBASE
        /\ state[np] = "UNUSED" /\ exec[np] = NoExec
    <2>1. state[np] = "UNUSED"
      BY DEF Fork, CanFork, FirstUnused
    <2>2. exec[np] = NoExec
      BY <2>1 DEF AllGood, MapsGood
    <2>3. sz[p] \in Nat /\ sz[p] < SHAREBASE
      BY ValueFacts
    <2> QED  BY <2>1, <2>2, <2>3, ConstFacts
  <1>1. PICK V : V = UserPages(p)
    OBVIOUS
  <1>2. V \in SUBSET PrivVPN /\ \A v \in VPN : v \in V <=> v * PGSIZE < sz[p]
    <2>1. V \in SUBSET VPN /\ \A v \in VPN : v \in V <=> v * PGSIZE < sz[p]
      BY <1>1 DEF UserPages
    <2> QED  BY <1>0, <2>1, PageNum
  <1>3. PICK f \in KallocFor(V) :
           /\ dir' = [dir EXCEPT ![<<np, "cur">>] = MapPages(EmptyDir, f)]
           /\ free' = free \ {f[v] : v \in DOMAIN f}
    BY <1>1 DEF Fork
  <1>4. \A v \in PrivVPN : dir[<<np, "cur">>][v] = NoPage
    BY <1>0 DEF AllGood, MapsGood
  <1>6. PICK e \in Dirs :
           /\ e = MapPages(EmptyDir, f)
           /\ \A v \in VPN : v \notin V => e[v] = NoPage
           /\ Owned([dir EXCEPT ![<<np, "cur">>] = e],
                    free \ {f[v] : v \in DOMAIN f}, use.page)
    <2>1. <<np, "cur">> \in DirId
      BY ValueFacts
    <2> QED  BY <1>2, <1>4, <2>1, FreshStep
  <1>7. ASSUME NEW v \in PrivVPN, sz[p] <= v * PGSIZE PROVE e[v] = NoPage
    <2>1. PICK b \in Nat : b = v * PGSIZE /\ v \in VPN
      BY PageNum
    <2>2. v \notin V
      BY <1>0, <1>2, <1>7, <2>1
    <2> QED  BY <1>6, <2>1, <2>2
  <1>8. /\ dir' = [dir EXCEPT ![<<np, "cur">>] = e]
        /\ state' = [state EXCEPT ![np] = "RUN"]
        /\ sz' = [sz EXCEPT ![np] = sz[p]] /\ exec' = exec
    <2>1. FirstFree(shared[p]) < MAXSHARED
      BY TableRoom
    <2> QED  BY <1>3, <1>6, <2>1 DEF Fork
  <1>9. /\ dir'[<<np, "cur">>] = e /\ dir'[<<np, "new">>] = dir[<<np, "new">>]
        /\ sz'[np] = sz[p] /\ state'[np] = "RUN"
        /\ \A r \in Proc \ {np} : /\ sz'[r] = sz[r] /\ state'[r] = state[r]
                                  /\ dir'[<<r, "cur">>] = dir[<<r, "cur">>]
                                  /\ dir'[<<r, "new">>] = dir[<<r, "new">>]
    BY <1>8, ValueFacts, TypeFacts DEF DirId
  <1>10. MapsGood("RUN", sz[p], exec[np], e, dir[<<np, "new">>], use.tablefail)
    BY <1>7 DEF AllGood, MapsGood
  <1>11. AllGood'
    BY <1>8, <1>9, <1>10, OneProcess
  <1> QED  BY <1>3, <1>6, <1>11

\* fork that runs out of memory leaves the slot without pages, as it was.
LEMMA ForkNoMemPages ==
    ASSUME TypeOK, UseInv, AllGood, Owned(dir, free, use.page), use' = use,
           NEW p \in Proc, NEW np \in Proc, ForkNoMem(p, np)
    PROVE  AllGood' /\ Owned(dir', free', use.page)
  <1>1. state[np] = "UNUSED"
    BY DEF ForkNoMem, CanFork, FirstUnused
  <1>2. EmptyDir \in Dirs /\ \A v \in PrivVPN : EmptyDir[v] = NoPage
    BY PageNum DEF EmptyDir, Dirs
  <1>3. \A v \in PrivVPN : dir[<<np, "cur">>][v] = NoPage
    BY <1>1 DEF AllGood, MapsGood
  <1>4. PICK a \in DirId, d \in Dirs, V \in SUBSET PrivVPN :
           a = <<np, "cur">> /\ d = EmptyDir /\ V = {}
    BY <1>2, ValueFacts
  <1>5. \A v \in PrivVPN : v \notin V => d[v] = dir[a][v]
    BY <1>2, <1>3, <1>4
  <1>6. Owned([dir EXCEPT ![a] = d], free \cup PagesAt(dir[a], V), use.page)
    BY <1>4, <1>5, FreeStep
  <1>7. PagesAt(dir[a], V) = {}
    BY <1>4 DEF PagesAt
  <1>8. /\ dir' = [dir EXCEPT ![a] = d] /\ free' = free
        /\ state' = state /\ sz' = sz /\ exec' = exec
    BY <1>4 DEF ForkNoMem
  <1>9. /\ dir'[<<np, "cur">>] = EmptyDir
        /\ dir'[<<np, "new">>] = dir[<<np, "new">>]
        /\ \A r \in Proc \ {np} : /\ dir'[<<r, "cur">>] = dir[<<r, "cur">>]
                                  /\ dir'[<<r, "new">>] = dir[<<r, "new">>]
    BY <1>4, <1>8, ValueFacts, TypeFacts DEF DirId
  <1>10. MapsGood(state[np], sz[np], exec[np], EmptyDir, dir[<<np, "new">>],
                  use.tablefail)
    BY <1>2 DEF AllGood, MapsGood
  <1>11. AllGood'
    BY <1>8, <1>9, <1>10, OneProcess
  <1> QED  BY <1>6, <1>7, <1>8, <1>11

\* exec loads the image in a directory that has no page yet.
LEMMA LoadPages ==
    ASSUME TypeOK, UseInv, AllGood, Owned(dir, free, use.page), use' = use,
           NEW p \in Proc, NEW isz \in ExecSize, NEW prime \in BOOLEAN,
           ExecLoad(p, isz, prime)
    PROVE  AllGood' /\ Owned(dir', free', use.page)
  <1>0. state[p] = "RUN" /\ exec[p] = NoExec
    BY DEF ExecLoad, CanRun, Idle
  <1>1. isz \in Nat /\ isz <= SHAREBASE /\ 0 <= KERNBASE /\ 0 \in Nat
    BY ConstFacts DEF ExecLoad
  <1>2. PICK V : V = PagesBetween(0, isz)
    OBVIOUS
  <1>3. /\ V \in SUBSET PrivVPN
        /\ \A v \in VPN : v \in V <=> 0 <= v * PGSIZE /\ v * PGSIZE < isz
    BY <1>1, <1>2, BetweenFacts
  <1>4. PICK f \in KallocFor(V) :
           /\ dir' = [dir EXCEPT ![<<p, "new">>] = MapPages(EmptyDir, f)]
           /\ free' = free \ {f[v] : v \in DOMAIN f}
    BY <1>2 DEF ExecLoad
  <1>5. \A v \in PrivVPN : dir[<<p, "new">>][v] = NoPage
    <2>1. \A v \in PrivVPN : 0 <= v * PGSIZE
      BY PageNum
    <2> QED  BY <1>0, <2>1, ValueFacts DEF AllGood, MapsGood
  <1>6. PICK e \in Dirs :
           /\ e = MapPages(EmptyDir, f)
           /\ \A v \in VPN : v \notin V => e[v] = NoPage
           /\ Owned([dir EXCEPT ![<<p, "new">>] = e],
                    free \ {f[v] : v \in DOMAIN f}, use.page)
    <2>1. <<p, "new">> \in DirId
      BY ValueFacts
    <2> QED  BY <1>3, <1>5, <2>1, FreshStep
  <1>7. PICK x : x = [pc |-> IF prime THEN "link" ELSE "stack", sz |-> isz,
                      i |-> 0, va |-> SHAREBASE]
    OBVIOUS
  <1>8. ASSUME NEW v \in PrivVPN, isz <= v * PGSIZE PROVE e[v] = NoPage
    <2>1. PICK b \in Nat : b = v * PGSIZE /\ v \in VPN
      BY PageNum
    <2>2. v \notin V
      BY <1>1, <1>3, <1>8, <2>1
    <2> QED  BY <1>6, <2>1, <2>2
  <1>9. LinkAt(x, e, use.tablefail)
    <2>1. PrivN \in PrivN .. NVPN /\ 0 \in 0 .. x.i
      BY <1>7, BaseFacts
    <2>2. x.va = PrivN * PGSIZE - 0
      BY <1>7, BaseFacts, ConstFacts
    <2>3. \A v \in VPN : v >= PrivN => v \notin V
      BY <1>3, BaseFacts
    <2> QED  BY <1>6, <2>1, <2>2, <2>3 DEF LinkAt
  <1>10. x.sz = isz /\ x.pc # "none"
    BY <1>7
  <1>11. /\ dir' = [dir EXCEPT ![<<p, "new">>] = e]
         /\ exec' = [exec EXCEPT ![p] = x] /\ state' = state /\ sz' = sz
    BY <1>4, <1>6, <1>7 DEF ExecLoad
  <1>12. /\ dir'[<<p, "new">>] = e /\ dir'[<<p, "cur">>] = dir[<<p, "cur">>]
         /\ exec'[p] = x
         /\ \A r \in Proc \ {p} : /\ exec'[r] = exec[r]
                                  /\ dir'[<<r, "cur">>] = dir[<<r, "cur">>]
                                  /\ dir'[<<r, "new">>] = dir[<<r, "new">>]
    BY <1>11, ValueFacts, TypeFacts DEF DirId
  <1>13. MapsGood(state[p], sz[p], x, dir[<<p, "cur">>], e, use.tablefail)
    BY <1>0, <1>8, <1>9, <1>10 DEF AllGood, MapsGood
  <1>14. AllGood'
    BY <1>11, <1>12, <1>13, OneProcess
  <1> QED  BY <1>4, <1>6, <1>14

\* freevm: the private pages of a directory go to the allocator.
LEMMA FreevmStep ==
    ASSUME TypeOK, Owned(dir, free, use.page), NEW a \in DirId
    PROVE  Owned([dir EXCEPT ![a] = EmptyDir],
                 free \cup FreevmPages(dir[a]), use.page)
  <1>1. PICK d \in Dirs, V \in SUBSET PrivVPN : d = EmptyDir /\ V = PrivVPN
    BY DEF EmptyDir, Dirs
  <1>2. \A v \in V : d[v] = NoPage
    BY <1>1, PageNum DEF EmptyDir
  <1>3. \A v \in PrivVPN : v \notin V => d[v] = dir[a][v]
    BY <1>1
  <1>4. Owned([dir EXCEPT ![a] = d], free \cup PagesAt(dir[a], V), use.page)
    BY <1>2, <1>3, FreeStep
  <1> QED  BY <1>1, <1>4 DEF FreevmPages

\* An exec that fails gives its pages back.
LEMMA BadPages ==
    ASSUME TypeOK, UseInv, AllGood, Owned(dir, free, use.page), use' = use,
           NEW p \in Proc, ExecBad(p)
    PROVE  AllGood' /\ Owned(dir', free', use.page)
  <1>1. Owned(dir', free', use.page)
    BY FreevmStep, ValueFacts DEF ExecBad
  <1>2. \A v \in PrivVPN : EmptyDir[v] = NoPage
    BY PageNum DEF EmptyDir
  <1>3. /\ dir' = [dir EXCEPT ![<<p, "new">>] = EmptyDir]
        /\ exec' = [exec EXCEPT ![p] = NoExec] /\ state' = state /\ sz' = sz
    BY DEF ExecBad
  <1>4. /\ dir'[<<p, "new">>] = EmptyDir
        /\ dir'[<<p, "cur">>] = dir[<<p, "cur">>] /\ exec'[p] = NoExec
        /\ \A r \in Proc \ {p} : /\ exec'[r] = exec[r]
                                 /\ dir'[<<r, "cur">>] = dir[<<r, "cur">>]
                                 /\ dir'[<<r, "new">>] = dir[<<r, "new">>]
    BY <1>3, ValueFacts, TypeFacts DEF DirId
  <1>5. MapsGood(state[p], sz[p], NoExec, dir[<<p, "cur">>], EmptyDir,
                 use.tablefail)
    BY <1>2, ValueFacts DEF AllGood, MapsGood
  <1>6. AllGood'
    BY <1>3, <1>4, <1>5, OneProcess
  <1> QED  BY <1>1, <1>6

\* wait frees the directory of the zombie, which is not in exec.
LEMMA WaitPages ==
    ASSUME TypeOK, UseInv, AllGood, Owned(dir, free, use.page), use' = use,
           NEW p \in Proc, NEW q \in Proc, Wait(p, q)
    PROVE  AllGood' /\ Owned(dir', free', use.page)
  <1>1. Owned(dir', free', use.page)
    BY FreevmStep, ValueFacts DEF Wait
  <1>2. \A v \in PrivVPN : EmptyDir[v] = NoPage
    BY PageNum DEF EmptyDir
  <1>3. exec[q] = NoExec
    BY DEF Wait, AllGood, MapsGood
  <1>4. /\ dir' = [dir EXCEPT ![<<q, "cur">>] = EmptyDir]
        /\ state' = [state EXCEPT ![q] = "UNUSED"] /\ exec' = exec /\ sz' = sz
    BY DEF Wait
  <1>5. /\ dir'[<<q, "cur">>] = EmptyDir
        /\ dir'[<<q, "new">>] = dir[<<q, "new">>] /\ state'[q] = "UNUSED"
        /\ \A r \in Proc \ {q} : /\ state'[r] = state[r]
                                 /\ dir'[<<r, "cur">>] = dir[<<r, "cur">>]
                                 /\ dir'[<<r, "new">>] = dir[<<r, "new">>]
    BY <1>4, ValueFacts, TypeFacts DEF DirId
  <1>6. MapsGood("UNUSED", sz[q], exec[q], EmptyDir, dir[<<q, "new">>],
                 use.tablefail)
    BY <1>2, <1>3 DEF AllGood, MapsGood
  <1>7. AllGood'
    BY <1>4, <1>5, <1>6, OneProcess
  <1> QED  BY <1>1, <1>7

\* exec commits: stack pages are added to the new directory, the pages of the
\* old one go to the allocator, and the new one takes its place.
LEMMA CommitPages ==
    ASSUME TypeOK, UseInv, AllGood, Owned(dir, free, use.page), use' = use,
           NEW p \in Proc, ExecCommit(p)
    PROVE  AllGood' /\ Owned(dir', free', use.page)
  <1>0. state[p] = "RUN"
    <2>1. exec[p] # NoExec
      BY ValueFacts DEF ExecCommit, InExec
    <2> QED  BY <2>1 DEF AllGood, MapsGood
  <1>1. PICK x \in Nat : x = exec[p].sz /\ x < SHAREBASE
    BY ValueFacts
  <1>2. PICK s1 \in Nat : s1 = PGROUNDUP(x) /\ x <= s1
    <2>1. x <= KERNBASE
      BY <1>1, ConstFacts
    <2> QED  BY <2>1, RoundOrder
  <1>3. PICK s2 \in Nat : s2 = s1 + NSTACK * PGSIZE /\ s1 <= s2 /\ s2 < SHAREBASE
    <2>1. NSTACK * PGSIZE \in Nat
      BY ConstFacts
    <2>2. s1 + NSTACK * PGSIZE < SHAREBASE
      BY <1>1, <1>2 DEF ExecCommit
    <2> QED  BY <2>1, <2>2
  <1>4. PICK V : V = PagesBetween(s1, s2)
    OBVIOUS
  <1>5. PICK cur \in DirId, new \in DirId :
           cur = <<p, "cur">> /\ new = <<p, "new">> /\ cur # new
    BY ValueFacts
  <1>6. PICK f \in KallocFor(V) :
           /\ dir' = [dir EXCEPT ![cur] = MapPages(dir[new], f),
                                 ![new] = EmptyDir]
           /\ free' = (free \ {f[v] : v \in DOMAIN f})
                      \cup FreevmPages(dir[cur])
    BY <1>1, <1>2, <1>3, <1>4, <1>5 DEF ExecCommit
  <1>7. /\ V \in SUBSET PrivVPN
        /\ \A v \in VPN : v \in V <=> s1 <= v * PGSIZE /\ v * PGSIZE < s2
    <2>1. s1 <= KERNBASE /\ s2 <= SHAREBASE
      BY <1>3, ConstFacts
    <2> QED  BY <1>4, <2>1, BetweenFacts
  <1>8. ASSUME NEW v \in PrivVPN, s1 <= v * PGSIZE PROVE dir[new][v] = NoPage
    <2>1. PICK b \in Nat : b = v * PGSIZE
      BY PageNum
    <2>2. exec[p].sz <= v * PGSIZE
      BY <1>1, <1>2, <1>8, <2>1
    <2> QED  BY <1>5, <2>2 DEF AllGood, MapsGood
  <1>a. PICK F : F = free \ {f[v] : v \in DOMAIN f}
    OBVIOUS
  <1>9. PICK d \in Dirs :
           /\ d = MapPages(dir[new], f)
           /\ \A v \in VPN : v \notin V => d[v] = dir[new][v]
           /\ Owned([dir EXCEPT ![new] = d], F, use.page)
    <2>1. dir[new] \in Dirs
      BY <1>5, ValueFacts
    <2>2. \A v \in V : dir[new][v] = NoPage
      BY <1>7, <1>8, PageNum
    <2>3. PICK c \in Dirs : c = dir[new]
      BY <2>1
    <2>4. \A v \in PrivVPN : v \notin V => c[v] = dir[new][v]
      BY <2>3
    <2>5. /\ MapPages(c, f) \in Dirs
          /\ \A v \in VPN : v \notin V => MapPages(c, f)[v] = c[v]
          /\ Owned([dir EXCEPT ![new] = MapPages(c, f)],
                   free \ {f[v] : v \in DOMAIN f}, use.page)
      BY <1>7, <2>2, <2>4, AllocStep
    <2> QED  BY <1>a, <2>3, <2>5
  <1>10. PICK D \in [DirId -> Dirs] : D = [dir EXCEPT ![new] = d]
    BY ValueFacts
  <1>11. D[new] = d /\ D[cur] = dir[cur] /\ Owned(D, F, use.page)
    BY <1>5, <1>9, <1>10, ValueFacts
  <1>12. PICK z \in Dirs : z = EmptyDir /\ \A v \in PrivVPN : z[v] = NoPage
    <2>1. EmptyDir \in Dirs
      BY DEF EmptyDir, Dirs
    <2> QED  BY <2>1, PageNum DEF EmptyDir
  <1>13. PICK E \in [DirId -> Dirs] : E = [D EXCEPT ![cur] = z]
    OBVIOUS
  <1>14. Owned(E, F \cup FreevmPages(dir[cur]), use.page)
    <2>1. PICK V1 \in SUBSET PrivVPN : V1 = PrivVPN
      OBVIOUS
    <2>2. \A v \in PrivVPN : /\ v \in V1 => z[v] = NoPage
                             /\ v \notin V1 => z[v] = D[cur][v]
      BY <1>12, <2>1
    <2>3. Owned([D EXCEPT ![cur] = z], F \cup PagesAt(D[cur], V1), use.page)
      BY <1>11, <2>2, FreeOwned
    <2> QED  BY <1>11, <1>13, <2>1, <2>3 DEF FreevmPages
  <1>15. E[cur] = z /\ E[new] = d
    BY <1>5, <1>11, <1>13
  <1>16. Owned([E EXCEPT ![cur] = E[new], ![new] = z],
               F \cup FreevmPages(dir[cur]), use.page)
    <2>1. PICK G : G = F \cup FreevmPages(dir[cur])
      OBVIOUS
    <2>2. Owned(E, G, use.page) /\ \A v \in PrivVPN : E[cur][v] = NoPage
      BY <1>12, <1>14, <1>15, <2>1
    <2>3. Owned([E EXCEPT ![cur] = E[new], ![new] = z], G, use.page)
      BY <1>5, <1>12, <2>2, MoveOwned
    <2> QED  BY <2>1, <2>3
  <1>17. dir' = [dir EXCEPT ![cur] = d, ![new] = z]
    BY <1>6, <1>9, <1>12
  <1>18. dir' = [E EXCEPT ![cur] = E[new], ![new] = z]
    BY <1>5, <1>10, <1>13, <1>15, <1>17, ValueFacts
  <1>19. Owned(dir', free', use.page)
    BY <1>6, <1>a, <1>9, <1>16, <1>18
  <1>20. ASSUME NEW v \in PrivVPN, s2 <= v * PGSIZE PROVE d[v] = NoPage
    <2>1. PICK b \in Nat : b = v * PGSIZE /\ v \in VPN
      BY PageNum
    <2>2. v \notin V /\ s1 <= v * PGSIZE
      BY <1>3, <1>7, <1>20, <2>1
    <2> QED  BY <1>8, <1>9, <2>1, <2>2
  <1>21. /\ sz' = [sz EXCEPT ![p] = s2] /\ exec' = [exec EXCEPT ![p] = NoExec]
         /\ state' = state
    BY <1>1, <1>2, <1>3 DEF ExecCommit
  <1>22. /\ dir'[<<p, "cur">>] = d /\ dir'[<<p, "new">>] = z
         /\ sz'[p] = s2 /\ exec'[p] = NoExec
         /\ \A r \in Proc \ {p} : /\ sz'[r] = sz[r] /\ exec'[r] = exec[r]
                                  /\ dir'[<<r, "cur">>] = dir[<<r, "cur">>]
                                  /\ dir'[<<r, "new">>] = dir[<<r, "new">>]
    BY <1>5, <1>17, <1>21, ValueFacts, TypeFacts DEF DirId
  <1>23. MapsGood(state[p], s2, NoExec, d, z, use.tablefail)
    BY <1>0, <1>12, <1>20, ValueFacts DEF MapsGood
  <1>24. AllGood'
    BY <1>21, <1>22, <1>23, OneProcess
  <1> QED  BY <1>19, <1>24

(***************************************************************************)
(* Linking maps pages above SHAREBASE only, and frees nothing              *)
(***************************************************************************)

\* Where the next region goes.
LEMMA TargetFacts ==
    ASSUME TypeOK, UseInv, AllGood, NEW p \in Proc, LinkStep(p)
    PROVE  \E m \in PrivN .. NVPN : \E j \in 0 .. exec[p].i :
              /\ exec[p].va = m * PGSIZE - j /\ exec[p].va \in Nat \ {0}
              /\ PGROUNDUP(exec[p].va) = m * PGSIZE
              /\ \A k \in Int : Target(p, k) = m + k
              /\ use.tablefail
                 => \A v \in VPN : v >= m => dir[<<p, "new">>][v] = NoPage
  <1>1. exec[p] \in Execs /\ exec[p].pc = "link" /\ exec[p].i < MAXSHARED
    BY ValueFacts DEF LinkStep, InExec
  <1>2. LinkAt(exec[p], dir[<<p, "new">>], use.tablefail)
    BY <1>1 DEF AllGood, MapsGood
  <1>3. PICK m \in PrivN .. NVPN :
           /\ \E j \in 0 .. exec[p].i : exec[p].va = m * PGSIZE - j
           /\ use.tablefail
              => \A v \in VPN : v >= m => dir[<<p, "new">>][v] = NoPage
    BY <1>2 DEF LinkAt
  <1>4. PICK j \in 0 .. exec[p].i : exec[p].va = m * PGSIZE - j
    BY <1>3
  <1>5. m \in Nat /\ m >= PrivN /\ m <= NVPN
    BY BaseFacts
  <1>6. j \in Nat /\ j < PGSIZE
    <2>1. exec[p].i \in Nat
      BY <1>1, ConstFacts DEF Execs
    <2> QED  BY <1>1, <2>1, BaseFacts, ConstFacts
  <1>7. PICK a \in Nat : a = m * PGSIZE /\ SHAREBASE <= a /\ a <= KERNBASE
    <2>1. PrivN * PGSIZE <= m * PGSIZE
      BY <1>5, BaseFacts, PageOrder
    <2>2. m * PGSIZE <= NVPN * PGSIZE
      BY <1>5, BaseFacts, PageOrder
    <2> QED  BY <1>5, <2>1, <2>2, BaseFacts, PageOrder
  <1>8. a - j \in Nat \ {0}
    BY <1>6, <1>7, ConstFacts
  <1>9. PGROUNDUP(a - j) = a
    BY <1>5, <1>6, <1>7, <1>8, RoundAt
  <1>10. a \div PGSIZE = m
    BY <1>5, <1>7, ConstFacts
  <1>11. PGROUNDUP(exec[p].va) = a
    BY <1>4, <1>7, <1>9
  <1>12. \A k \in Int : Target(p, k) = m + k
    BY <1>10, <1>11 DEF Target
  <1> QED  BY <1>3, <1>4, <1>7, <1>8, <1>11, <1>12

\* How many pages a region has: at most one where page tables may be missing.
LEMMA PagesFacts ==
    ASSUME TypeOK, UseInv, TableInv, Modest(use), NEW p \in Proc, LinkStep(p)
    PROVE  Pages(p) \in Nat /\ (use.tablefail => Pages(p) <= 1)
  <1>1. PICK i \in Idx : i = exec[p].i /\ shared[p][i].sz # 0
    <2>1. exec[p] \in Execs
      BY ValueFacts
    <2> QED  BY <2>1, ConstFacts DEF LinkStep, Execs, Idx
  <1>2. PICK s \in Int : s = shared[p][i].sz
    BY TypeFacts DEF Tables, Entry
  <1>3. PICK u \in Nat : u = s % Word /\ USize(p) = u
    BY <1>1, <1>2, WordFacts DEF USize, Addr
  <1>4. PICK g \in Nat : g = PGROUNDUP(u)
    BY RoundType
  <1>5. Pages(p) = g \div PGSIZE
    BY <1>3, <1>4 DEF Pages
  <1>6. ASSUME use.tablefail PROVE g \div PGSIZE <= 1
    <2>1. s <= PGSIZE /\ s >= 0
      <3>1. PICK r \in use.region : r.sz = s
        BY <1>1, <1>2 DEF TableInv, GoodTable, From
      <3> QED  BY <1>6, <3>1 DEF Modest
    <2>2. u = s
      <3>1. PICK W \in Nat : W = Word /\ s < W
        BY <2>1, ConstFacts, WordFacts
      <3>2. s % W = s
        BY <2>1, <3>1
      <3> QED  BY <1>3, <3>1, <3>2
    <2>3. PICK q \in Nat : /\ g = q * PGSIZE /\ q * PGSIZE \in Nat
                           /\ q * PGSIZE < u + PGSIZE
      <3>1. u <= KERNBASE
        BY <2>1, <2>2, ConstFacts
      <3> QED  BY <1>4, <3>1, RoundUp
    <2>4. ~(1 * PGSIZE + PGSIZE <= q * PGSIZE)
      BY <2>1, <2>2, <2>3, ConstFacts
    <2>5. ~(1 < q)
      BY <2>4, PageOrder
    <2>6. g \div PGSIZE = q
      BY <2>3, ConstFacts
    <2> QED  BY <2>5, <2>6
  <1>7. g \div PGSIZE \in Nat
    BY ConstFacts
  <1> QED  BY <1>5, <1>6, <1>7

\* What a region that was linked, or not, leaves behind: a new directory e
\* with the same private pages, and va in its place.
LEMMA LinkResult ==
    ASSUME TypeOK, UseInv, AllGood, Owned(dir, free, use.page), use' = use,
           NEW p \in Proc, LinkStep(p), NEW ret, NextRegion(p, ret),
           NEW e \in Dirs, dir' = [dir EXCEPT ![<<p, "new">>] = e],
           free' = free, \A v \in PrivVPN : e[v] = dir[<<p, "new">>][v],
           NEW m \in PrivN .. NVPN, NEW j \in 0 .. exec[p].i + 1,
           Advance(exec[p].va, ret) = m * PGSIZE - j,
           use.tablefail => \A v \in VPN : v >= m => e[v] = NoPage
    PROVE  AllGood' /\ Owned(dir', free', use.page)
  <1>1. PICK x \in Execs : x = exec[p] /\ x.pc = "link"
    BY ValueFacts DEF LinkStep, InExec
  <1>2. PICK y : y = [x EXCEPT !.i = x.i + 1, !.va = Advance(x.va, ret)]
    OBVIOUS
  <1>3. exec' = [exec EXCEPT ![p] = y]
    BY <1>1, <1>2, TypeFacts DEF NextRegion, Execs
  <1>4. /\ y.pc = "link" /\ y.sz = x.sz /\ y.i = x.i + 1
        /\ y.va = m * PGSIZE - j
    BY <1>1, <1>2 DEF Execs
  <1>5. LinkAt(y, e, use.tablefail)
    BY <1>1, <1>4 DEF LinkAt
  <1>6. state[p] = "RUN" /\ y # NoExec
    <2>1. x # NoExec /\ y # NoExec
      BY <1>1, <1>4, ValueFacts
    <2> QED  BY <1>1, <2>1 DEF AllGood, MapsGood
  <1>7. state' = state /\ sz' = sz
    BY DEF NextRegion
  <1>8. /\ dir'[<<p, "new">>] = e /\ dir'[<<p, "cur">>] = dir[<<p, "cur">>]
        /\ exec'[p] = y
        /\ \A r \in Proc \ {p} : /\ exec'[r] = exec[r]
                                 /\ dir'[<<r, "cur">>] = dir[<<r, "cur">>]
                                 /\ dir'[<<r, "new">>] = dir[<<r, "new">>]
    BY <1>3, ValueFacts, TypeFacts DEF DirId
  <1>9. MapsGood(state[p], sz[p], y, dir[<<p, "cur">>], e, use.tablefail)
    BY <1>1, <1>4, <1>5, <1>6 DEF AllGood, MapsGood
  <1>10. AllGood'
    BY <1>7, <1>8, <1>9, OneProcess
  <1>11. Owned(dir', free', use.page)
    <2>1. PICK a \in DirId, V \in SUBSET PrivVPN : a = <<p, "new">> /\ V = {}
      BY ValueFacts
    <2>2. \A v \in PrivVPN : v \notin V => e[v] = dir[a][v]
      BY <2>1
    <2>3. Owned([dir EXCEPT ![a] = e], free \cup PagesAt(dir[a], V), use.page)
      BY <2>1, <2>2, FreeStep
    <2>4. PagesAt(dir[a], V) = {}
      BY <2>1 DEF PagesAt
    <2> QED  BY <2>1, <2>3, <2>4
  <1> QED  BY <1>10, <1>11

\* Pages m on are mapped by a walk of n pages.
LEMMA LinkedFacts ==
    ASSUME TypeOK, UseInv, NEW p \in Proc, NEW m \in Nat, Target(p, 0) = m,
           NEW n \in Nat, NEW w \in Walks(p, n)
    PROVE  /\ Linked(p, w) \in Dirs
           /\ \A v \in VPN : v < m \/ v >= m + n
                             => Linked(p, w)[v] = dir[<<p, "new">>][v]
  <1>1. Linked(p, w) \in Dirs /\ DOMAIN w = 0 .. n - 1
    <2>1. n \in Int
      OBVIOUS
    <2> QED  BY <2>1, LinkedType
  <1>2. ASSUME NEW v \in VPN, v < m \/ v >= m + n
        PROVE  Linked(p, w)[v] = dir[<<p, "new">>][v]
    <2>1. v \in Int
      BY PageNum
    <2>2. v - m \notin 0 .. n - 1
      BY <1>2, <2>1
    <2> QED  BY <1>1, <2>2 DEF Linked
  <1> QED  BY <1>1, <1>2

\* Private pages lie below every page from which linking may map.
LEMMA AbovePriv ==
    ASSUME NEW m \in PrivN .. NVPN
    PROVE  m \in Nat /\ \A v \in PrivVPN : v \in VPN /\ v < m
  BY BaseFacts, PageNum

\* A region that was not linked moves va back by one byte.
LEMMA UnlinkedResult ==
    ASSUME TypeOK, UseInv, AllGood, Owned(dir, free, use.page), use' = use,
           NEW p \in Proc, LinkStep(p), NextRegion(p, -1),
           NEW e \in Dirs, dir' = [dir EXCEPT ![<<p, "new">>] = e],
           free' = free, \A v \in PrivVPN : e[v] = dir[<<p, "new">>][v],
           use.tablefail => \A v \in VPN : e[v] = dir[<<p, "new">>][v]
    PROVE  AllGood' /\ Owned(dir', free', use.page)
  <1>1. PICK m \in PrivN .. NVPN : \E j \in 0 .. exec[p].i :
           /\ exec[p].va = m * PGSIZE - j /\ exec[p].va \in Nat \ {0}
           /\ use.tablefail
              => \A v \in VPN : v >= m => dir[<<p, "new">>][v] = NoPage
    BY TargetFacts
  <1>2. PICK j \in 0 .. exec[p].i :
           /\ exec[p].va = m * PGSIZE - j /\ exec[p].va \in Nat \ {0}
           /\ use.tablefail
              => \A v \in VPN : v >= m => dir[<<p, "new">>][v] = NoPage
    BY <1>1
  <1>3. exec[p].i \in Nat /\ exec[p].va < Word
    <2>1. exec[p] \in Execs
      BY ValueFacts
    <2>2. exec[p].i \in 0 .. MAXSHARED /\ exec[p].va \in 0 .. Word - 1
      BY <2>1 DEF Execs, Addr
    <2>3. Word \in Nat
      BY WordFacts
    <2> QED  BY <2>2, <2>3
  <1>4. j + 1 \in 0 .. exec[p].i + 1
    BY <1>3
  <1>5. Advance(exec[p].va, -1) = m * PGSIZE - (j + 1)
    <2>1. PICK a \in Nat, W \in Nat : /\ a = exec[p].va - 1 /\ W = Word
                                      /\ a < W
      BY <1>2, <1>3, WordFacts
    <2>2. a % W = a
      BY <2>1
    <2>3. m * PGSIZE \in Nat
      BY AbovePriv, PageOrder
    <2>4. a = m * PGSIZE - (j + 1)
      BY <1>2, <2>1, <2>3
    <2>5. exec[p].va + (-1) = a
      BY <1>2, <2>1
    <2> QED  BY <2>1, <2>2, <2>4, <2>5 DEF Advance
  <1>6. use.tablefail => \A v \in VPN : v >= m => e[v] = NoPage
    BY <1>2
  <1> QED  BY <1>4, <1>5, <1>6, LinkResult

\* linkphysaddr neither takes nor frees a private page.
LEMMA LinkPages ==
    ASSUME TypeOK, UseInv, TableInv, Modest(use), AllGood,
           Owned(dir, free, use.page), use' = use, NEW p \in Proc, Linking(p)
    PROVE  AllGood' /\ Owned(dir', free', use.page)
  <1>0. LinkStep(p)
    BY LinkingFacts
  <1>1. PICK m \in PrivN .. NVPN : \E j \in 0 .. exec[p].i :
           /\ exec[p].va = m * PGSIZE - j /\ exec[p].va \in Nat \ {0}
           /\ PGROUNDUP(exec[p].va) = m * PGSIZE
           /\ \A k \in Int : Target(p, k) = m + k
           /\ use.tablefail
              => \A v \in VPN : v >= m => dir[<<p, "new">>][v] = NoPage
    BY <1>0, TargetFacts
  <1>2. PICK j \in 0 .. exec[p].i :
           /\ exec[p].va = m * PGSIZE - j /\ exec[p].va \in Nat \ {0}
           /\ PGROUNDUP(exec[p].va) = m * PGSIZE
           /\ \A k \in Int : Target(p, k) = m + k
           /\ use.tablefail
              => \A v \in VPN : v >= m => dir[<<p, "new">>][v] = NoPage
    BY <1>1
  <1>3. m \in Nat /\ \A v \in PrivVPN : v \in VPN /\ v < m
    BY AbovePriv
  <1>4. PICK P \in Nat : P = Pages(p) /\ (use.tablefail => P <= 1)
    BY <1>0, PagesFacts
  <1>5. Target(p, 0) = m
    BY <1>2, <1>3
  <1>6. PICK c \in Dirs : c = dir[<<p, "new">>]
    BY ValueFacts
  <1>7. CASE LinkTooHigh(p)
    <2>1. /\ NextRegion(p, -1) /\ free' = free
          /\ dir' = [dir EXCEPT ![<<p, "new">>] = c]
      BY <1>6, <1>7, ValueFacts DEF LinkTooHigh
    <2>2. /\ \A v \in PrivVPN : c[v] = dir[<<p, "new">>][v]
          /\ \A v \in VPN : c[v] = dir[<<p, "new">>][v]
      BY <1>6
    <2> QED  BY <1>0, <2>1, <2>2, UnlinkedResult
  <1>8. CASE LinkMissing(p)
    <2>1. PICK n \in 0 .. P - 1 : \E w \in Walks(p, n) :
             dir' = [dir EXCEPT ![<<p, "new">>] = Linked(p, w)]
      BY <1>4, <1>8 DEF LinkMissing
    <2>2. n \in Nat /\ (use.tablefail => n = 0)
      BY <1>4
    <2>3. PICK w \in Walks(p, n) :
             dir' = [dir EXCEPT ![<<p, "new">>] = Linked(p, w)]
      BY <2>1
    <2>4. PICK e \in Dirs : e = Linked(p, w)
      BY <1>3, <1>5, <2>2, LinkedFacts
    <2>5. \A v \in VPN : v < m \/ v >= m + n => e[v] = dir[<<p, "new">>][v]
      BY <1>3, <1>5, <2>2, <2>4, LinkedFacts
    <2>6. \A v \in PrivVPN : e[v] = dir[<<p, "new">>][v]
      BY <1>3, <2>5
    <2>7. ASSUME use.tablefail, NEW v \in VPN
          PROVE  e[v] = dir[<<p, "new">>][v]
      <3>1. v < m \/ v >= m + n
        BY <1>3, <2>2, <2>7, PageNum
      <3> QED  BY <2>5, <3>1
    <2>8. NextRegion(p, -1) /\ free' = free
      BY <1>8 DEF LinkMissing
    <2> QED  BY <1>0, <2>3, <2>4, <2>6, <2>7, <2>8, UnlinkedResult
  <1>9. CASE LinkNoTable(p)
    <2>1. PICK V : V = PagesBetween(exec[p].va,
                                    PtrAdd(exec[p].va, Pages(p) * PGSIZE))
      OBVIOUS
    <2>2. PICK n \in 0 .. P - 1 :
             /\ NeedsTable(p, n)
             /\ \E w \in Walks(p, n) :
                   /\ free' = free \cup PagesAt(Linked(p, w), V)
                   /\ dir' = [dir EXCEPT ![<<p, "new">>] =
                                            Unmap(Linked(p, w), V)]
      BY <1>4, <1>9, <2>1 DEF LinkNoTable
    <2>3. use.tablefail
      BY <2>2 DEF NeedsTable
    <2>4. n \in Nat /\ n = 0
      BY <1>4, <2>3
    <2>5. PICK w \in Walks(p, n) :
             /\ free' = free \cup PagesAt(Linked(p, w), V)
             /\ dir' = [dir EXCEPT ![<<p, "new">>] = Unmap(Linked(p, w), V)]
      BY <2>2
    <2>6. PICK e \in Dirs : e = Linked(p, w)
      BY <1>3, <1>5, <2>4, LinkedFacts
    <2>7. \A v \in VPN : v < m \/ v >= m + n => e[v] = dir[<<p, "new">>][v]
      BY <1>3, <1>5, <2>4, <2>6, LinkedFacts
    <2>8. \A v \in VPN : e[v] = dir[<<p, "new">>][v]
      BY <1>3, <2>4, <2>7, PageNum
    <2>9. ASSUME NEW v \in V PROVE v \in VPN /\ e[v] = NoPage
      <3>1. v \in VPN /\ m * PGSIZE <= v * PGSIZE
        BY <1>2, <2>1 DEF PagesBetween
      <3>2. m <= v
        BY <1>3, <3>1, PageNum, PageOrder
      <3>3. v >= m
        BY <1>3, <3>1, <3>2, PageNum
      <3> QED  BY <1>2, <2>3, <2>8, <3>1, <3>3
    <2>10. PagesAt(e, V) = {}
      BY <2>9 DEF PagesAt
    <2>11. Unmap(e, V) = e
      BY <2>9 DEF Unmap, Dirs
    <2>12. \A v \in PrivVPN : e[v] = dir[<<p, "new">>][v]
      BY <1>3, <2>8
    <2>13. /\ NextRegion(p, -1) /\ free' = free
           /\ dir' = [dir EXCEPT ![<<p, "new">>] = e]
      BY <1>9, <2>5, <2>6, <2>10, <2>11 DEF LinkNoTable
    <2> QED  BY <1>0, <2>8, <2>12, <2>13, UnlinkedResult
  <1>10. CASE LinkOK(p)
    <2>1. PICK w \in Walks(p, P) :
             dir' = [dir EXCEPT ![<<p, "new">>] = Linked(p, w)]
      BY <1>4, <1>10 DEF LinkOK
    <2>2. PICK e \in Dirs : e = Linked(p, w)
      BY <1>3, <1>5, LinkedFacts
    <2>3. \A v \in VPN : v < m \/ v >= m + P => e[v] = dir[<<p, "new">>][v]
      BY <1>3, <1>5, <2>2, LinkedFacts
    <2>4. \A v \in PrivVPN : e[v] = dir[<<p, "new">>][v]
      BY <1>3, <2>3
    <2>5. m + P \in PrivN .. NVPN
      <3>1. CASE P = 0
        BY <1>3, <3>1
      <3>2. CASE P > 0
        <4>1. P - 1 \in 0 .. P - 1
          BY <3>2
        <4>2. Target(p, P - 1) \in VPN
          BY <1>4, <1>10, <4>1 DEF LinkOK, NoRemap
        <4>3. m + (P - 1) \in VPN
          BY <1>2, <4>2
        <4> QED  BY <1>3, <4>3, BaseFacts
      <3> QED  BY <3>1, <3>2
    <2>6. j \in 0 .. exec[p].i + 1
      <3>1. exec[p] \in Execs
        BY ValueFacts
      <3>2. exec[p].i \in Nat
        BY <3>1, ConstFacts DEF Execs
      <3> QED  BY <3>2
    <2>7. Advance(exec[p].va, P * PGSIZE) = (m + P) * PGSIZE - j
      <3>1. /\ m * PGSIZE \in Nat /\ P * PGSIZE \in Nat
            /\ (m + P) * PGSIZE = m * PGSIZE + P * PGSIZE
        BY <1>3, ConstFacts
      <3>2. (m + P) * PGSIZE <= KERNBASE
        BY <2>5, BaseFacts, PageOrder
      <3>3. PICK a \in Nat, W \in Nat : /\ a = exec[p].va + P * PGSIZE
                                        /\ W = Word /\ a < W
        <4>1. PICK b \in Nat, c1 \in Nat : b = m * PGSIZE /\ c1 = P * PGSIZE
          BY <3>1
        <4>2. j \in Nat /\ exec[p].va = b - j /\ b + c1 <= KERNBASE
          BY <1>2, <3>1, <3>2, <4>1, <2>6
        <4>3. exec[p].va + c1 \in Nat /\ exec[p].va + c1 <= KERNBASE
          BY <1>2, <4>1, <4>2, ConstFacts
        <4>4. Word \in Nat /\ Word > KERNBASE
          BY ConstFacts DEF Word
        <4> QED  BY <4>1, <4>3, <4>4, ConstFacts
      <3>4. a % W = a
        BY <3>3
      <3>5. j \in Int
        OBVIOUS
      <3>6. a = (m + P) * PGSIZE - j
        BY <1>2, <3>1, <3>3, <3>5
      <3> QED  BY <3>3, <3>4, <3>6 DEF Advance
    <2>8. ASSUME use.tablefail, NEW v \in VPN, v >= m + P PROVE e[v] = NoPage
      <3>1. v >= m
        BY <1>3, <2>8, PageNum
      <3> QED  BY <1>2, <2>3, <2>8, <3>1
    <2>9. /\ NextRegion(p, P * PGSIZE) /\ free' = free
          /\ dir' = [dir EXCEPT ![<<p, "new">>] = e]
      BY <1>4, <1>10, <2>1, <2>2 DEF LinkOK
    <2> QED  BY <1>0, <2>4, <2>5, <2>6, <2>7, <2>8, <2>9, LinkResult
  <1> QED  BY <1>7, <1>8, <1>9, <1>10 DEF Linking

\* Every step keeps the pages' invariant.
LEMMA PageStep ==
    ASSUME TypeOK, UseInv, TableInv, PageInv, [Next]_vars
    PROVE  PageInv'
  <1>0. use' = use
    BY Steps DEF vars
  <1>1. SUFFICES ASSUME Modest(use)
                 PROVE  AllGood' /\ Owned(dir', free', use.page)
    BY <1>0 DEF PageInv
  <1>2. AllGood /\ Owned(dir, free, use.page)
    BY <1>1 DEF PageInv
  <1>3. ASSUME UNCHANGED <<state, sz, exec, dir, free>>
        PROVE  AllGood' /\ Owned(dir', free', use.page)
    BY <1>0, <1>2, <1>3 DEF AllGood
  <1>4. ASSUME NEW p \in Proc, Exit(p)
        PROVE  AllGood' /\ Owned(dir', free', use.page)
    <2>1. /\ exec[p] = NoExec /\ UNCHANGED <<sz, exec, dir, free>>
          /\ state' = [state EXCEPT ![p] = "ZOMBIE"]
      BY <1>4 DEF Exit, Idle
    <2>2. /\ state'[p] = "ZOMBIE"
          /\ \A r \in Proc \ {p} : state'[r] = state[r]
      BY <2>1, TypeFacts
    <2>3. MapsGood("ZOMBIE", sz[p], exec[p], dir[<<p, "cur">>],
                   dir[<<p, "new">>], use.tablefail)
      BY <1>2, <2>1 DEF AllGood, MapsGood
    <2>4. AllGood'
      BY <1>0, <1>2, <2>1, <2>2, <2>3, OneProcess
    <2> QED  BY <1>2, <2>1, <2>4
  <1>5. ASSUME NEW p \in Proc, LinkDone(p)
        PROVE  AllGood' /\ Owned(dir', free', use.page)
    <2>1. PICK x \in Execs : x = exec[p] /\ x.pc = "link"
      BY <1>5, ValueFacts DEF LinkDone, InExec
    <2>2. PICK y : y = [x EXCEPT !.pc = "stack"]
      OBVIOUS
    <2>3. y.pc = "stack" /\ y.sz = x.sz
      BY <2>2 DEF Execs
    <2>4. /\ exec' = [exec EXCEPT ![p] = y]
          /\ UNCHANGED <<state, sz, dir, free>>
      BY <1>5, <2>1, <2>2, TypeFacts DEF LinkDone, Execs
    <2>5. exec'[p] = y /\ \A r \in Proc \ {p} : exec'[r] = exec[r]
      BY <2>4, TypeFacts
    <2>6. state[p] = "RUN"
      <3>1. x # NoExec
        BY <2>1, ValueFacts
      <3> QED  BY <1>2, <2>1, <3>1 DEF AllGood, MapsGood
    <2>7. MapsGood(state[p], sz[p], y, dir[<<p, "cur">>], dir[<<p, "new">>],
                   use.tablefail)
      BY <1>2, <2>1, <2>3, <2>6 DEF AllGood, MapsGood
    <2>8. AllGood'
      BY <1>0, <1>2, <2>4, <2>5, <2>7, OneProcess
    <2> QED  BY <1>2, <2>4, <2>8
  <1>6. ASSUME NEW p \in Proc,
               (\E r \in use.region : ShareMem(p, r)) \/ Failing(p)
        PROVE  UNCHANGED <<state, sz, exec, dir, free>>
    BY <1>6, FailingFacts DEF ShareMem
  <1>7. CASE UNCHANGED vars
    BY <1>3, <1>7 DEF vars
  <1>8. ASSUME NEW p \in Proc, NEW n \in use.sbrk, Grow(p, n) \/ Shrink(p, n)
        PROVE  AllGood' /\ Owned(dir', free', use.page)
    BY <1>0, <1>2, <1>8, GrowPages, ShrinkPages
  <1>9. ASSUME NEW p \in Proc, NEW np \in Proc, Fork(p, np) \/ ForkNoMem(p, np)
        PROVE  AllGood' /\ Owned(dir', free', use.page)
    BY <1>0, <1>1, <1>2, <1>9, ForkPages, ForkNoMemPages
  <1>10. ASSUME NEW p \in Proc, NEW isz \in ExecSize, NEW prime \in BOOLEAN,
                ExecLoad(p, isz, prime)
         PROVE  AllGood' /\ Owned(dir', free', use.page)
    BY <1>0, <1>2, <1>10, LoadPages
  <1>11. ASSUME NEW p \in Proc, Linking(p)
         PROVE  AllGood' /\ Owned(dir', free', use.page)
    BY <1>0, <1>1, <1>2, <1>11, LinkPages
  <1>12. ASSUME NEW p \in Proc, ExecCommit(p) \/ ExecBad(p)
         PROVE  AllGood' /\ Owned(dir', free', use.page)
    BY <1>0, <1>2, <1>12, CommitPages, BadPages
  <1>13. ASSUME NEW p \in Proc, NEW q \in Proc, Wait(p, q)
         PROVE  AllGood' /\ Owned(dir', free', use.page)
    BY <1>0, <1>2, <1>13, WaitPages
  <1> QED  BY <1>3, <1>4, <1>5, <1>6, <1>7, <1>8, <1>9, <1>10, <1>11, <1>12,
              <1>13, Steps

\* At the start initproc has its page, and the allocator the others.
LEMMA InitPages == Init => PageInv
  <1> SUFFICES ASSUME Init PROVE AllGood /\ Owned(dir, free, use.page)
    BY DEF PageInv
  <1>0. UseInv /\ 0 \in PrivVPN /\ <<initproc, "cur">> \in DirId
    <2>1. 0 \in PrivVPN
      BY BaseFacts
    <2> QED  BY <2>1, WordFacts DEF Init, UseInv, DirId
  <1>1. use.page \subseteq Page /\ InitPage \in use.page
    BY <1>0, UseFacts
  <1>2. ASSUME NEW a \in DirId, NEW v \in PrivVPN
        PROVE  /\ a = <<initproc, "cur">> /\ v = 0 => dir[a][v] = InitPage
               /\ ~(a = <<initproc, "cur">> /\ v = 0) => dir[a][v] = NoPage
    <2>1. v \in VPN
      BY PageNum
    <2> QED  BY <2>1 DEF Init, EmptyDir
  <1>3. Owned(dir, free, use.page)
    <2>1. free = use.page \ {InitPage} /\ NoPage \notin free
      BY <1>1, ConstFacts DEF Init
    <2>2. Sole(dir, free)
      BY <1>2, <2>1 DEF Sole
    <2>3. Kept(dir, free, use.page)
      BY <1>0, <1>2, <2>1 DEF Kept
    <2> QED  BY <1>1, <2>1, <2>2, <2>3 DEF Owned
  <1>4. AllGood
    <2> SUFFICES ASSUME NEW p \in Proc
                 PROVE  MapsGood(state[p], sz[p], exec[p], dir[<<p, "cur">>],
                                 dir[<<p, "new">>], use.tablefail)
      BY DEF AllGood
    <2>1. /\ exec[p] = NoExec /\ NoExec.pc = "none"
          /\ p = initproc => state[p] = "RUN" /\ sz[p] = PGSIZE
          /\ <<p, "cur">> \in DirId /\ <<p, "new">> \in DirId
          /\ <<p, "new">> # <<initproc, "cur">>
          /\ p # initproc => <<p, "cur">> # <<initproc, "cur">>
      BY DEF Init, NoExec, DirId
    <2>2. \A v \in PrivVPN : dir[<<p, "new">>][v] = NoPage
      BY <1>2, <2>1
    <2>3. ASSUME p = initproc, NEW v \in PrivVPN, sz[p] <= v * PGSIZE
          PROVE  dir[<<p, "cur">>][v] = NoPage
      <3>1. v # 0
        BY <2>1, <2>3, ConstFacts
      <3> QED  BY <1>2, <2>1, <3>1
    <2>4. ASSUME p # initproc, NEW v \in PrivVPN
          PROVE  dir[<<p, "cur">>][v] = NoPage
      BY <1>2, <2>1, <2>4
    <2> QED  BY <2>1, <2>2, <2>3, <2>4 DEF MapsGood
  <1> QED  BY <1>3, <1>4

\* Every physical page is mapped privately in one place or is free, whatever
\* programs call, whatever runs out, and wherever another process stands in
\* its exec: for every workload that leaves an entry of the table unused and,
\* where linking may get no page table, has regions of at most a page.
THEOREM PagesSafe == Spec => []PagesSound
  <1>1. TypeOK /\ UseInv /\ TableInv /\ PageInv /\ [Next]_vars => PageInv'
    BY PageStep
  <1>2. TypeOK /\ UseInv /\ PageInv => PagesSound
    <2> SUFFICES ASSUME TypeOK, UseInv, PageInv, Modest(use)
                 PROVE  NoAlias /\ NoLeak
      BY DEF PagesSound
    <2>1. AllGood /\ Owned(dir, free, use.page)
      BY DEF PageInv
    <2>2. NoAlias
      BY <2>1 DEF Owned, Sole, NoAlias
    <2>3. ASSUME NEW p \in Proc, state[p] = "UNUSED", NEW v \in PrivVPN
          PROVE  /\ dir[<<p, "cur">>][v] = NoPage
                 /\ dir[<<p, "new">>][v] = NoPage
      <3>1. exec[p] = NoExec
        BY <2>1, <2>3 DEF AllGood, MapsGood
      <3>2. exec[p].sz <= v * PGSIZE
        BY <3>1, PageNum DEF NoExec
      <3> QED  BY <2>1, <2>3, <3>2 DEF AllGood, MapsGood
    <2>4. ASSUME NEW pg \in use.page, pg \notin free
          PROVE  \E a \in DirId : \E v \in PrivVPN :
                    dir[a][v] = pg /\ state[a[1]] # "UNUSED"
      <3>1. PICK a \in DirId, v \in PrivVPN : dir[a][v] = pg
        BY <2>1, <2>4 DEF Owned, Kept
      <3>2. pg # NoPage
        BY <2>1, ConstFacts DEF Owned
      <3>3. PICK p \in Proc : /\ a[1] = p
                              /\ a = <<p, "cur">> \/ a = <<p, "new">>
        BY DEF DirId
      <3> QED  BY <2>3, <3>1, <3>2, <3>3
    <2> QED  BY <2>2, <2>4 DEF NoLeak
  <1> QED  BY <1>1, <1>2, InitPages, TableInvariance, PTL DEF Spec

(***************************************************************************)
(* What linked processes share                                             *)
(*                                                                         *)
(* u and d are the table and the page directory of a process's parent.     *)
(***************************************************************************)

\* The pages that mappa2va counts for a size.
PagesOf(s) == PGROUNDUP(s) \div PGSIZE

\* What a region may take of the addresses from SHAREBASE on.
Room == (KERNBASE - SHAREBASE) \div MAXSHARED

\* Page k of a region.
RegionPage(e, k) == (e.memstart \div PGSIZE) + k

\* A region that lies in its PagesOf pages, as Fitting says.
SizeFits(e) ==
    /\ e.sz > 0
    /\ (e.memstart % PGSIZE) + e.sz <= PGROUNDUP(e.sz)
    /\ INT * PGROUNDUP(e.sz) <= Room

\* All of a region is mapped in directory c.
Covers(e, c) ==
    \A k \in 0 .. PagesOf(e.sz) - 1 :
        RegionPage(e, k) \in VPN /\ c[RegionPage(e, k)] # NoPage

\* Region f in directory c is region e in directory d.
Same(f, c, e, d) ==
    /\ f.sz = e.sz /\ f.memstart % PGSIZE = e.memstart % PGSIZE
    /\ \A k \in 0 .. PagesOf(e.sz) - 1 :
          /\ RegionPage(f, k) \in VPN
          /\ c[RegionPage(f, k)] = d[RegionPage(e, k)]

\* All pages below a size are mapped.
Filled(s, c) == \A v \in VPN : v * PGSIZE < s => c[v] # NoPage

\* Where linkphysaddr puts the next region: nothing is mapped from there on.
Vacant(x, new) ==
    \E m \in PrivN .. NVPN :
        /\ x.va = m * PGSIZE /\ x.va <= SHAREBASE + x.i * Room
        /\ \A v \in VPN : v >= m => new[v] = NoPage

\* An exec that has linked the first x.i of the inherited regions.
ExecGood(inh, lk, x, t, new, u, d) ==
    /\ FirstFree(t) = inh /\ x.i <= inh /\ x.pc \in {"link", "stack"}
    /\ x.pc = "stack" => x.i = inh
    /\ lk = "started" \/ (lk = "no" /\ inh = 0)
    /\ Filled(x.sz, new) /\ Vacant(x, new)
    /\ \A i \in Idx : i < x.i => Same(t[i], new, u[i], d)
    /\ \A i \in Idx : x.i <= i /\ i < inh => t[i] = u[i]

\* A process and its parent: regions that were inherited and not yet linked are
\* the parent's entries, and linked ones the parent's memory.
KinGood(st, inh, lk, x, s, t, cur, new, u, d) ==
    st = "RUN" =>
        /\ inh <= FirstFree(t) /\ inh <= FirstFree(u)
        /\ Filled(s, cur)
        /\ \A i \in Idx : i < FirstFree(t) => SizeFits(t[i])
        /\ inh = 0 \/ lk = "done"
           => \A i \in Idx : i < FirstFree(t) => Covers(t[i], cur)
        /\ lk = "no" /\ inh # 0
           => FirstFree(t) = inh /\ \A i \in Idx : i < inh => t[i] = u[i]
        /\ lk = "done"
           => x = NoExec /\ \A i \in Idx : i < inh => Same(t[i], cur, u[i], d)
        /\ x # NoExec => ExecGood(inh, lk, x, t, new, u, d)

\* initproc, which inherits nothing, counts as its own parent.
Up(p) == IF p = initproc THEN initproc ELSE parent[p]
Cur(p) == dir[<<p, "cur">>]
New(p) == dir[<<p, "new">>]

KinInv ==
    \A p \in Proc :
        KinGood(state[p], inherited[p], linked[p], exec[p], sz[p], shared[p],
                Cur(p), New(p), shared[Up(p)], Cur(Up(p)))

\* A process that may have children: it stays as it is until they have exited.
Steady(p) ==
    /\ state[p] = "RUN" /\ exec[p] = NoExec /\ linked[p] # "started"
    /\ inherited[p] = 0 \/ linked[p] = "done"

FamilyInv ==
    /\ fault = "none"
    /\ state[initproc] = "RUN" /\ inherited[initproc] = 0
    /\ linked[initproc] = "no" /\ exec[initproc] = NoExec
    /\ parent[initproc] = NoProc /\ parentpgdir[initproc] = Freed
    /\ \A p \in Proc : exec[p] = NoExec => \A v \in VPN : New(p)[v] = NoPage
    /\ \A p \in Proc \ {initproc} :
          state[p] # "UNUSED"
          => /\ parent[p] \in Proc \ {p} /\ parentpgdir[p] = parent[p]
             /\ Steady(parent[p])

\* A holds p's ancestors, each of which has a child among them or in p; what p
\* maps above its own memory is an ancestor's private page.
Heir(A, p) ==
    /\ p # initproc => parent[p] \in A[p] /\ A[parent[p]] \subseteq A[p]
    /\ \A a \in A[p] :
          \E c \in Children(a) : c = p \/ c \in A[p]
    /\ \A v \in VPN \ PrivVPN : \A g \in {Cur(p)[v], New(p)[v]} \ {NoPage} :
          \E a \in A[p], w \in PrivVPN : Cur(a)[w] = g

AncInv ==
    \E A \in [Proc -> SUBSET Proc] :
        \A p \in Proc : state[p] = "RUN" => Heir(A, p)

\* The invariant of programs that follow primestart.
SharedInv == FamilyInv /\ KinInv /\ AncInv

\* The room for a region: MAXSHARED of them fit below KERNBASE.
LEMMA RoomFacts ==
    /\ Room \in Nat /\ Room <= KERNBASE
    /\ \A i \in Nat : i + 1 < MAXSHARED /\ Room > 0
          => /\ i * Room \in Nat /\ (i + 1) * Room = i * Room + Room
             /\ SHAREBASE + (i + 1) * Room < KERNBASE
  <1>1. PICK K \in Nat : K = KERNBASE - SHAREBASE /\ K <= KERNBASE
    BY ConstFacts
  <1>2. PICK R \in Nat : R = Room /\ MAXSHARED * R <= K
    BY <1>1, ConstFacts DEF Room
  <1>3. R <= K
    <2>1. MAXSHARED \in Nat /\ MAXSHARED >= 1
      BY ConstFacts
    <2>2. 1 * R <= MAXSHARED * R
      BY <2>1
    <2>3. MAXSHARED * R \in Nat
      BY <2>1
    <2> QED  BY <1>1, <1>2, <2>2, <2>3
  <1>4. ASSUME NEW i \in Nat, i + 1 < MAXSHARED, R > 0
        PROVE  /\ i * R \in Nat /\ (i + 1) * R = i * R + R
               /\ SHAREBASE + (i + 1) * R < KERNBASE
    <2>1. i * R \in Nat /\ (i + 1) * R = i * R + R
      BY ConstFacts
    <2>2. MAXSHARED \in Nat
      BY ConstFacts
    <2>3. (i + 2) * R <= MAXSHARED * R
      BY <1>4, <2>2
    <2>4. (i + 2) * R = i * R + R + R
      OBVIOUS
    <2>5. MAXSHARED * R \in Nat
      BY <2>2
    <2> QED  BY <1>1, <1>2, <1>4, <2>1, <2>3, <2>4, <2>5, ConstFacts
  <1> QED  BY <1>1, <1>2, <1>3, <1>4, ConstFacts

\* A region that fits has at least one page, and its size does not wrap.
LEMMA FitFacts ==
    ASSUME NEW e \in Entry, SizeFits(e)
    PROVE  \E q \in Nat \ {0} :
              /\ PagesOf(e.sz) = q /\ PGROUNDUP(e.sz) = q * PGSIZE
              /\ q * PGSIZE \in Nat /\ q * PGSIZE <= Room
              /\ e.sz \in Nat \ {0} /\ e.sz % Word = e.sz
              /\ INT * e.sz \in Nat /\ INT * e.sz <= Room
              /\ (e.memstart % PGSIZE) + e.sz <= q * PGSIZE
  <1>1. PICK s \in Nat \ {0} : s = e.sz
    BY DEF Entry, SizeFits
  <1>2. PICK o \in Nat : o = e.memstart % PGSIZE
    <2>1. e.memstart \in Nat
      BY WordFacts DEF Entry, Addr
    <2> QED  BY <2>1, ConstFacts
  <1>3. PICK g \in Nat : g = PGROUNDUP(s) /\ o + s <= g /\ INT * g <= Room
    BY <1>1, <1>2, RoundType DEF SizeFits
  <1>4. INT \in Nat /\ INT >= 1 /\ Room \in Nat /\ Room <= KERNBASE
    BY ConstFacts, RoomFacts
  <1>5. 1 * g <= INT * g /\ INT * g \in Nat /\ INT * s <= INT * g
        /\ INT * s \in Nat
    <2>1. s <= g
      BY <1>3
    <2> QED  BY <1>3, <1>4, <2>1
  <1>6. g <= Room /\ s <= KERNBASE
    BY <1>3, <1>4, <1>5, ConstFacts
  <1>7. PICK q \in Nat : g = q * PGSIZE
    BY <1>3, <1>6, RoundUp
  <1>8. q # 0
    <2> SUFFICES ASSUME q = 0 PROVE FALSE
      OBVIOUS
    <2>1. g = 0
      BY <1>7, ConstFacts
    <2> QED  BY <1>3, <2>1
  <1>9. g \div PGSIZE = q
    BY <1>7, ConstFacts
  <1>10. s % Word = s
    <2>1. PICK W \in Nat : W = Word /\ s < W
      BY <1>6, ConstFacts, WordFacts
    <2>2. s % W = s
      BY <2>1
    <2> QED  BY <2>1, <2>2
  <1> QED  BY <1>1, <1>2, <1>3, <1>4, <1>5, <1>6, <1>7, <1>8, <1>9, <1>10
           DEF PagesOf

\* Addresses as page and offset.
LEMMA Offsets ==
    ASSUME NEW a \in Nat
    PROVE  /\ a \div PGSIZE \in Nat /\ a % PGSIZE \in Nat
           /\ a % PGSIZE < PGSIZE
           /\ a = (a \div PGSIZE) * PGSIZE + (a % PGSIZE)
           /\ (a \div PGSIZE) * PGSIZE \in Nat
  BY ConstFacts

\* An address is determined by its page and offset.
LEMMA OffsetIs ==
    ASSUME NEW m \in Nat, NEW o \in Nat, o < PGSIZE
    PROVE  /\ (m * PGSIZE + o) \div PGSIZE = m
           /\ (m * PGSIZE + o) % PGSIZE = o
           /\ m * PGSIZE + o \in Nat
  <1>1. PICK b \in Nat : b = m * PGSIZE + o
    BY ConstFacts
  <1>2. b \div PGSIZE = m
    BY <1>1, ConstFacts
  <1>3. b % PGSIZE = b - PGSIZE * (b \div PGSIZE)
    BY <1>1, ConstFacts
  <1>4. PGSIZE * m = m * PGSIZE
    BY ConstFacts
  <1> QED  BY <1>1, <1>2, <1>3, <1>4, ConstFacts

\* Byte o of a region that starts at a: its page counted from a's, and its
\* offset, depend on a's offset only.
LEMMA ByteOf ==
    ASSUME NEW a \in Nat, NEW o \in Nat, NEW q \in Nat,
           (a % PGSIZE) + o < q * PGSIZE
    PROVE  \E k \in 0 .. q - 1, f \in Nat :
              /\ k = ((a % PGSIZE) + o) \div PGSIZE
              /\ f = ((a % PGSIZE) + o) % PGSIZE /\ f < PGSIZE
              /\ a + o = ((a \div PGSIZE) + k) * PGSIZE + f
              /\ (a + o) \div PGSIZE = (a \div PGSIZE) + k
              /\ (a + o) % PGSIZE = f
  <1>1. PICK m \in Nat, b \in Nat :
           /\ m = a \div PGSIZE /\ b = (a % PGSIZE) + o
           /\ m * PGSIZE \in Nat /\ a + o = m * PGSIZE + b
    BY Offsets
  <1>2. PICK k \in Nat, f \in Nat :
           /\ k = b \div PGSIZE /\ f = b % PGSIZE /\ f < PGSIZE
           /\ b = k * PGSIZE + f /\ k * PGSIZE \in Nat
    BY Offsets
  <1>3. (m + k) * PGSIZE = m * PGSIZE + k * PGSIZE
    BY ConstFacts
  <1>4. a + o = (m + k) * PGSIZE + f
    BY <1>1, <1>2, <1>3
  <1>5. k \in 0 .. q - 1
    <2>1. ~(q * PGSIZE <= k * PGSIZE)
      BY <1>1, <1>2, PageOrder
    <2>2. ~(q <= k)
      BY <2>1, PageOrder
    <2> QED  BY <2>2
  <1>6. (a + o) \div PGSIZE = m + k /\ (a + o) % PGSIZE = f
    <2>1. m + k \in Nat
      OBVIOUS
    <2> QED  BY <1>2, <1>4, <2>1, OffsetIs
  <1> QED  BY <1>1, <1>2, <1>4, <1>5, <1>6

\* Where a region lies in its pages, the byte o of it is in a page of it.
LEMMA BytePage ==
    ASSUME NEW e \in Entry, NEW q \in Nat, NEW o \in Nat,
           (e.memstart % PGSIZE) + o < q * PGSIZE,
           \A k \in 0 .. q - 1 : RegionPage(e, k) \in VPN
    PROVE  \E k \in 0 .. q - 1 :
              /\ k = ((e.memstart % PGSIZE) + o) \div PGSIZE
              /\ ((e.memstart + o) % Word) \div PGSIZE = RegionPage(e, k)
              /\ (e.memstart + o) % PGSIZE
                    = ((e.memstart % PGSIZE) + o) % PGSIZE
  <1>1. PICK a \in Nat : a = e.memstart
    BY WordFacts DEF Entry, Addr
  <1>2. PICK k \in 0 .. q - 1, f \in Nat :
           /\ k = ((a % PGSIZE) + o) \div PGSIZE
           /\ f = ((a % PGSIZE) + o) % PGSIZE /\ f < PGSIZE
           /\ a + o = ((a \div PGSIZE) + k) * PGSIZE + f
           /\ (a + o) \div PGSIZE = (a \div PGSIZE) + k
           /\ (a + o) % PGSIZE = f
    <2>1. (a % PGSIZE) + o < q * PGSIZE
      BY <1>1
    <2> QED  BY <2>1, ByteOf
  <1>3. PICK v \in VPN : v = (a \div PGSIZE) + k
    BY <1>1, <1>2 DEF RegionPage
  <1>4. a + o < KERNBASE
    <2>1. v \in Nat /\ v < NVPN /\ NVPN \in Nat
      BY BaseFacts
    <2>2. v * PGSIZE \in Nat /\ v * PGSIZE + PGSIZE <= NVPN * PGSIZE
      BY <2>1, PageOrder
    <2> QED  BY <1>2, <1>3, <2>2, BaseFacts, ConstFacts
  <1>5. (a + o) % Word = a + o
    <2>1. PICK b \in Nat, W \in Nat : b = a + o /\ W = Word /\ b < W
      BY <1>4, ConstFacts, WordFacts
    <2>2. b % W = b
      BY <2>1
    <2> QED  BY <2>1, <2>2
  <1> QED  BY <1>1, <1>2, <1>5 DEF RegionPage

\* Every byte of a region that is the same is on the same page, at the same
\* offset.
LEMMA SameBytes ==
    ASSUME NEW f \in Entry, NEW c, NEW e \in Entry, NEW d,
           SizeFits(e), Covers(e, d), Same(f, c, e, d), NEW o \in 0 .. f.sz - 1
    PROVE  /\ PageOf(c, f.memstart + o) = PageOf(d, e.memstart + o)
           /\ (f.memstart + o) % PGSIZE = (e.memstart + o) % PGSIZE
  <1>1. PICK q \in Nat \ {0} :
           /\ PagesOf(e.sz) = q /\ e.sz \in Nat /\ q * PGSIZE \in Nat
           /\ (e.memstart % PGSIZE) + e.sz <= q * PGSIZE
    BY FitFacts
  <1>2. f.sz = e.sz /\ f.memstart % PGSIZE = e.memstart % PGSIZE
    BY DEF Same
  <1>3. PICK r \in Nat : r = e.memstart % PGSIZE
    <2>1. e.memstart \in Nat
      BY WordFacts DEF Entry, Addr
    <2> QED  BY <2>1, ConstFacts
  <1>4. o \in Nat /\ r + o < q * PGSIZE
    BY <1>1, <1>2, <1>3
  <1>5. PICK k \in 0 .. q - 1 :
           /\ k = (r + o) \div PGSIZE
           /\ ((e.memstart + o) % Word) \div PGSIZE = RegionPage(e, k)
           /\ (e.memstart + o) % PGSIZE = (r + o) % PGSIZE
    <2>1. \A k \in 0 .. q - 1 : RegionPage(e, k) \in VPN
      BY <1>1 DEF Covers
    <2> QED  BY <1>3, <1>4, <2>1, BytePage
  <1>6. PICK j \in 0 .. q - 1 :
           /\ j = (r + o) \div PGSIZE
           /\ ((f.memstart + o) % Word) \div PGSIZE = RegionPage(f, j)
           /\ (f.memstart + o) % PGSIZE = (r + o) % PGSIZE
    <2>1. \A n \in 0 .. q - 1 : RegionPage(f, n) \in VPN
      BY <1>1 DEF Same
    <2>2. (f.memstart % PGSIZE) + o < q * PGSIZE
      BY <1>2, <1>3, <1>4
    <2>3. \E j \in 0 .. q - 1 :
              /\ j = ((f.memstart % PGSIZE) + o) \div PGSIZE
              /\ ((f.memstart + o) % Word) \div PGSIZE = RegionPage(f, j)
              /\ (f.memstart + o) % PGSIZE
                    = ((f.memstart % PGSIZE) + o) % PGSIZE
      BY <1>4, <2>1, <2>2, BytePage
    <2> QED  BY <1>2, <1>3, <2>3
  <1>7. c[RegionPage(f, k)] = d[RegionPage(e, k)]
    BY <1>1 DEF Same
  <1> QED  BY <1>5, <1>6, <1>7 DEF PageOf

\* The parent of a process in use, and what holds between the two.
LEMMA ParentFacts ==
    ASSUME TypeOK, FamilyInv, KinInv, NEW p \in Proc, p # initproc,
           state[p] = "RUN"
    PROVE  \E q \in Proc \ {p} :
              /\ parent[p] = q /\ Up(p) = q /\ parentpgdir[p] = q
              /\ Steady(q) /\ q # p
              /\ \A i \in Idx : i < FirstFree(shared[q])
                    => SizeFits(shared[q][i]) /\ Covers(shared[q][i], Cur(q))
              /\ KinGood("RUN", inherited[p], linked[p], exec[p], sz[p],
                         shared[p], Cur(p), New(p), shared[q], Cur(q))
  <1>1. PICK q \in Proc \ {p} :
           /\ parent[p] = q /\ parentpgdir[p] = q /\ Steady(q)
    BY DEF FamilyInv
  <1>2. Up(p) = q
    BY <1>1 DEF Up
  <1>3. KinGood("RUN", inherited[p], linked[p], exec[p], sz[p],
                shared[p], Cur(p), New(p), shared[q], Cur(q))
    BY <1>2 DEF KinInv
  <1>4. KinGood(state[q], inherited[q], linked[q], exec[q], sz[q],
                shared[q], Cur(q), New(q), shared[Up(q)], Cur(Up(q)))
    BY DEF KinInv
  <1>5. \A i \in Idx : i < FirstFree(shared[q])
            => SizeFits(shared[q][i]) /\ Covers(shared[q][i], Cur(q))
    BY <1>1, <1>4 DEF Steady, KinGood
  <1> QED  BY <1>1, <1>2, <1>3, <1>5

\* The invariant gives what is promised.
LEMMA SharedHolds ==
    ASSUME TypeOK, UseInv, TableInv, Owned(dir, free, use.page), SharedInv
    PROVE  NoFault /\ NoDangling /\ SharedSame
  <1>1. NoFault
    BY DEF SharedInv, FamilyInv, NoFault
  <1>2. NoDangling
    <2> SUFFICES ASSUME NEW p \in Proc, state[p] = "RUN",
                        NEW v \in VPN \ PrivVPN, Cur(p)[v] \in free
                 PROVE  FALSE
      BY DEF NoDangling, Cur
    <2>1. Cur(p)[v] # NoPage
      BY TypeFacts, ConstFacts
    <2>2. PICK A \in [Proc -> SUBSET Proc] : Heir(A, p)
      BY DEF SharedInv, AncInv
    <2>3. PICK a \in A[p], w \in PrivVPN : Cur(a)[w] = Cur(p)[v]
      BY <2>1, <2>2 DEF Heir
    <2>4. <<a, "cur">> \in DirId
      BY <2>2, <2>3 DEF DirId
    <2> QED  BY <2>3, <2>4 DEF Owned, Sole, Cur
  <1>3. SharedSame
    <2> SUFFICES ASSUME NEW p \in Proc, state[p] = "RUN", linked[p] = "done",
                        parentpgdir[p] \in Proc,
                        NEW i \in 0 .. inherited[p] - 1,
                        NEW o \in 0 .. shared[p][i].sz - 1
                 PROVE  SameByte(p, parentpgdir[p], i, o)
      BY DEF SharedSame
    <2>1. p # initproc
      BY DEF SharedInv, FamilyInv
    <2>2. PICK q \in Proc :
             /\ parentpgdir[p] = q
             /\ \A j \in Idx : j < FirstFree(shared[q])
                   => SizeFits(shared[q][j]) /\ Covers(shared[q][j], Cur(q))
             /\ KinGood("RUN", inherited[p], linked[p], exec[p], sz[p],
                        shared[p], Cur(p), New(p), shared[q], Cur(q))
      BY <2>1, ParentFacts DEF SharedInv
    <2>3. inherited[p] \in 0 .. MAXSHARED
      BY TypeFacts
    <2>4. i \in Idx /\ i < inherited[p]
      BY <2>3, ConstFacts DEF Idx
    <2>5. FirstFree(shared[q]) \in 0 .. MAXSHARED
      BY PrefixFacts
    <2>6. i < FirstFree(shared[q])
      BY <2>2, <2>3, <2>4, <2>5, ConstFacts DEF KinGood, Idx
    <2>7. Same(shared[p][i], Cur(p), shared[q][i], Cur(q))
      BY <2>2, <2>4 DEF KinGood
    <2>8. SizeFits(shared[q][i]) /\ Covers(shared[q][i], Cur(q))
      BY <2>2, <2>4, <2>6
    <2>9. shared[p][i] \in Entry /\ shared[q][i] \in Entry
      BY <2>4, TypeFacts DEF Tables
    <2>10. /\ PageOf(Cur(p), shared[p][i].memstart + o)
                 = PageOf(Cur(q), shared[q][i].memstart + o)
           /\ (shared[p][i].memstart + o) % PGSIZE
                 = (shared[q][i].memstart + o) % PGSIZE
      BY <2>7, <2>8, <2>9, SameBytes
    <2> QED  BY <2>2, <2>10 DEF SameByte, Cur
  <1> QED  BY <1>1, <1>2, <1>3

(***************************************************************************)
(* What a step of one process means for the others                         *)
(***************************************************************************)

\* A table and a directory that keep what they had.
Keeps(u, d, u2, d2) ==
    /\ FirstFree(u) <= FirstFree(u2)
    /\ \A i \in Idx : i < FirstFree(u) => u2[i] = u[i]
    /\ \A v \in VPN : d[v] # NoPage => d2[v] = d[v]

\* A process does not notice that its parent registers more, or grows.
LEMMA KinKept ==
    ASSUME NEW st, NEW inh \in 0 .. MAXSHARED, NEW lk, NEW x \in Execs, NEW s,
           NEW t, NEW cur, NEW new, NEW u, NEW d, NEW u2, NEW d2,
           KinGood(st, inh, lk, x, s, t, cur, new, u, d),
           Keeps(u, d, u2, d2),
           FirstFree(u) \in 0 .. MAXSHARED, FirstFree(u2) \in 0 .. MAXSHARED,
           \A i \in Idx : i < FirstFree(u) => Covers(u[i], d)
    PROVE  KinGood(st, inh, lk, x, s, t, cur, new, u2, d2)
  <1> SUFFICES ASSUME st = "RUN"
               PROVE  KinGood(st, inh, lk, x, s, t, cur, new, u2, d2)
    BY DEF KinGood
  <1>1. /\ inh <= FirstFree(t) /\ inh <= FirstFree(u)
        /\ Filled(s, cur)
        /\ \A i \in Idx : i < FirstFree(t) => SizeFits(t[i])
        /\ inh = 0 \/ lk = "done"
           => \A i \in Idx : i < FirstFree(t) => Covers(t[i], cur)
        /\ lk = "no" /\ inh # 0
           => FirstFree(t) = inh /\ \A i \in Idx : i < inh => t[i] = u[i]
        /\ lk = "done"
           => x = NoExec /\ \A i \in Idx : i < inh => Same(t[i], cur, u[i], d)
        /\ x # NoExec => ExecGood(inh, lk, x, t, new, u, d)
    BY DEF KinGood
  <1>2. inh <= FirstFree(u2)
    BY <1>1, ConstFacts DEF Keeps
  <1>3. ASSUME NEW i \in Idx, i < inh PROVE u2[i] = u[i] /\ Covers(u[i], d)
    <2>1. i < FirstFree(u)
      BY <1>1, <1>3, ConstFacts DEF Idx
    <2> QED  BY <2>1 DEF Keeps
  <1>4. ASSUME NEW i \in Idx, i < inh, NEW f, NEW c, Same(f, c, u[i], d)
        PROVE  Same(f, c, u2[i], d2)
    <2>1. u2[i] = u[i] /\ Covers(u[i], d)
      BY <1>3, <1>4
    <2>2. Same(f, c, u[i], d2)
      BY <1>4, <2>1 DEF Same, Covers, Keeps
    <2> QED  BY <2>1, <2>2
  <1>5. lk = "no" /\ inh # 0
           => FirstFree(t) = inh /\ \A i \in Idx : i < inh => t[i] = u2[i]
    BY <1>1, <1>3
  <1>6. lk = "done"
         => x = NoExec /\ \A i \in Idx : i < inh => Same(t[i], cur, u2[i], d2)
    BY <1>1, <1>4
  <1>7. ASSUME x # NoExec PROVE ExecGood(inh, lk, x, t, new, u2, d2)
    <2>1. ExecGood(inh, lk, x, t, new, u, d)
      BY <1>1, <1>7
    <2>2. x.i \in Nat /\ x.i <= inh
      BY <2>1, ConstFacts DEF ExecGood, Execs
    <2>3. ASSUME NEW i \in Idx, i < x.i PROVE Same(t[i], new, u2[i], d2)
      <3>1. i < inh
        BY <2>2, <2>3, ConstFacts DEF Idx
      <3>2. Same(t[i], new, u[i], d)
        BY <2>1, <2>3 DEF ExecGood
      <3> QED  BY <1>4, <3>1, <3>2
    <2>4. \A i \in Idx : x.i <= i /\ i < inh => t[i] = u2[i]
      BY <1>3, <2>1 DEF ExecGood
    <2> QED  BY <2>1, <2>3, <2>4 DEF ExecGood
  <1> QED  BY <1>1, <1>2, <1>5, <1>6, <1>7 DEF KinGood

\* Parents are processes that may have children.
LEMMA UpFacts ==
    ASSUME FamilyInv, NEW r \in Proc, state[r] # "UNUSED"
    PROVE  /\ Up(r) \in Proc /\ state[Up(r)] = "RUN"
           /\ r # initproc => Up(r) = parent[r] /\ Up(r) # r /\ Steady(Up(r))
  <1>1. CASE r = initproc
    BY <1>1 DEF Up, FamilyInv
  <1>2. CASE r # initproc
    BY <1>2 DEF Up, FamilyInv, Steady
  <1> QED  BY <1>1, <1>2

\* Who may not have children, or has none, is nobody's parent.
LEMMA Childless ==
    ASSUME FamilyInv, NEW p \in Proc, ~Steady(p) \/ Children(p) = {}
    PROVE  /\ \A r \in Proc \ {p} : state[r] # "UNUSED" => Up(r) # p
           /\ \A r \in Proc \ {initproc} : state[r] # "UNUSED" => parent[r] # p
           /\ Children(p) \subseteq {initproc}
  <1>1. ASSUME NEW r \in Proc \ {initproc}, state[r] # "UNUSED"
        PROVE  parent[r] # p
    BY <1>1 DEF FamilyInv, Children
  <1>2. ASSUME NEW r \in Proc \ {p}, state[r] # "UNUSED" PROVE Up(r) # p
    <2>1. CASE r = initproc
      BY <1>2, <2>1 DEF Up
    <2>2. CASE r # initproc
      BY <1>1, <1>2, <2>2 DEF Up
    <2> QED  BY <2>1, <2>2
  <1> QED  BY <1>1, <1>2 DEF Children

\* A step that changes one process, and keeps its table and pages if it may
\* have children.
LEMMA OneKin ==
    ASSUME TypeOK, TableInv, FamilyInv, KinInv, NEW p \in Proc,
           \A r \in Proc \ {p} :
              /\ state'[r] = state[r] /\ inherited'[r] = inherited[r]
              /\ linked'[r] = linked[r] /\ exec'[r] = exec[r]
              /\ sz'[r] = sz[r] /\ shared'[r] = shared[r]
              /\ Cur(r)' = Cur(r) /\ New(r)' = New(r)
              /\ state[r] = "RUN" => Up(r)' = Up(r),
           \/ ~Steady(p) \/ Children(p) = {}
           \/ /\ Keeps(shared[p], Cur(p), shared'[p], Cur(p)')
              /\ FirstFree(shared'[p]) \in 0 .. MAXSHARED,
           KinGood(state'[p], inherited'[p], linked'[p], exec'[p], sz'[p],
                   shared'[p], Cur(p)', New(p)', shared'[Up(p)'], Cur(Up(p))')
    PROVE  KinInv'
  <1> SUFFICES ASSUME NEW r \in Proc
               PROVE  KinGood(state'[r], inherited'[r], linked'[r], exec'[r],
                              sz'[r], shared'[r], Cur(r)', New(r)',
                              shared'[Up(r)'], Cur(Up(r))')
    BY DEF KinInv
  <1>1. CASE r = p
    BY <1>1
  <1>2. CASE r # p /\ state[r] # "RUN"
    BY <1>2 DEF KinGood
  <1>3. CASE r # p /\ state[r] = "RUN"
    <2>1. PICK q \in Proc : /\ q = Up(r) /\ Up(r)' = q
                            /\ r # initproc => Steady(q)
      BY <1>3, UpFacts
    <2>2. KinGood(state[r], inherited[r], linked[r], exec[r], sz[r], shared[r],
                  Cur(r), New(r), shared[q], Cur(q))
      BY <2>1 DEF KinInv
    <2>3. CASE q # p
      <3>1. shared'[q] = shared[q] /\ Cur(q)' = Cur(q)
        BY <2>3
      <3>2. Cur(Up(r))' = Cur(q)'
        BY <2>1 DEF Cur
      <3> QED  BY <1>3, <2>1, <2>2, <3>1, <3>2
    <2>4. CASE q = p
      <3>1. r # initproc
        BY <1>3, <2>1, <2>4 DEF Up
      <3>2. Steady(p) /\ Children(p) # {}
        <4>1. state[r] # "UNUSED"
          BY <1>3
        <4> QED  BY <1>3, <2>1, <2>4, <4>1, Childless
      <3>3. /\ Keeps(shared[p], Cur(p), shared'[p], Cur(p)')
            /\ FirstFree(shared'[p]) \in 0 .. MAXSHARED
            /\ FirstFree(shared[p]) \in 0 .. MAXSHARED
        BY <3>2, PrefixFacts
      <3>4. \A i \in Idx : i < FirstFree(shared[p])
                           => Covers(shared[p][i], Cur(p))
        <4>1. KinGood(state[p], inherited[p], linked[p], exec[p], sz[p],
                      shared[p], Cur(p), New(p), shared[Up(p)], Cur(Up(p)))
          BY DEF KinInv
        <4> QED  BY <3>2, <4>1 DEF KinGood, Steady
      <3>5. inherited[r] \in 0 .. MAXSHARED /\ exec[r] \in Execs
        BY TypeFacts
      <3>6. KinGood(state[r], inherited[r], linked[r], exec[r], sz[r],
                    shared[r], Cur(r), New(r), shared'[p], Cur(p)')
        BY <2>2, <2>4, <3>3, <3>4, <3>5, KinKept
      <3>7. Cur(Up(r))' = Cur(p)' /\ shared'[Up(r)'] = shared'[p]
        BY <2>1, <2>4 DEF Cur
      <3> QED  BY <1>3, <3>6, <3>7
    <2> QED  BY <2>3, <2>4
  <1> QED  BY <1>1, <1>2, <1>3

\* A step that changes process p only, besides slots that are not in use.
Alone(p) ==
    \A r \in Proc \ {p} :
        /\ state'[r] = state[r] /\ inherited'[r] = inherited[r]
        /\ linked'[r] = linked[r] /\ exec'[r] = exec[r]
        /\ sz'[r] = sz[r] /\ shared'[r] = shared[r]
        /\ Cur(r)' = Cur(r) /\ New(r)' = New(r)
        /\ state[r] # "UNUSED"
           => parent'[r] = parent[r] /\ parentpgdir'[r] = parentpgdir[r]

\* If p has children, it keeps what they have from it.
Calm(p) ==
    \/ ~Steady(p) \/ Children(p) = {}
    \/ /\ Steady(p)' /\ FirstFree(shared'[p]) \in 0 .. MAXSHARED
       /\ Keeps(shared[p], Cur(p), shared'[p], Cur(p)')

\* What remains in use keeps its parent.
Stays(p) ==
    state'[p] # "UNUSED" => /\ state[p] # "UNUSED" /\ parent'[p] = parent[p]
                            /\ parentpgdir'[p] = parentpgdir[p]

\* Such a step keeps the parents and children.
LEMMA OneFamily ==
    ASSUME FamilyInv, NEW p \in Proc, Alone(p), Calm(p), Stays(p),
           fault' = "none",
           p = initproc => /\ state'[p] = "RUN" /\ inherited'[p] = 0
                           /\ linked'[p] = "no" /\ exec'[p] = NoExec,
           exec'[p] = NoExec => \A v \in VPN : New(p)'[v] = NoPage
    PROVE  FamilyInv'
  <1>1. /\ state'[initproc] = "RUN" /\ inherited'[initproc] = 0
        /\ linked'[initproc] = "no" /\ exec'[initproc] = NoExec
        /\ parent'[initproc] = NoProc /\ parentpgdir'[initproc] = Freed
    <2>1. CASE p = initproc
      BY <2>1 DEF FamilyInv, Stays
    <2>2. CASE p # initproc
      BY <2>2, WordFacts DEF FamilyInv, Alone
    <2> QED  BY <2>1, <2>2
  <1>2. ASSUME NEW r \in Proc, exec'[r] = NoExec, NEW v \in VPN
        PROVE  New(r)'[v] = NoPage
    <2>1. CASE r = p
      BY <1>2, <2>1
    <2>2. CASE r # p
      BY <1>2, <2>2 DEF FamilyInv, Alone
    <2> QED  BY <2>1, <2>2
  <1>3. ASSUME NEW r \in Proc \ {initproc}, state'[r] # "UNUSED"
        PROVE  /\ parent'[r] \in Proc \ {r} /\ parentpgdir'[r] = parent'[r]
               /\ Steady(parent[r])'
    <2>1. /\ state[r] # "UNUSED" /\ parent'[r] = parent[r]
          /\ parentpgdir'[r] = parentpgdir[r]
      BY <1>3 DEF Alone, Stays
    <2>2. PICK q \in Proc \ {r} : /\ parent[r] = q /\ parentpgdir[r] = q
                                  /\ Steady(q)
      BY <2>1 DEF FamilyInv
    <2>3. Steady(q)'
      <3>1. CASE q = p
        BY <2>1, <2>2, <3>1 DEF Calm, Children
      <3>2. CASE q # p
        BY <2>2, <3>2 DEF Alone, Steady
      <3> QED  BY <3>1, <3>2
    <2> QED  BY <2>1, <2>2, <2>3
  <1> QED  BY <1>1, <1>2, <1>3 DEF FamilyInv, New

\* A page that p had above its own memory, or that its parent has.
Seen(p, g) ==
    \/ \E w \in VPN \ PrivVPN : g \in {Cur(p)[w], New(p)[w]}
    \/ p # initproc /\ \E w \in VPN : Cur(parent[p])[w] = g

\* Such a step keeps what a process maps above its own memory an ancestor's, if
\* p maps there what it had or what its parent has.
LEMMA OneHeir ==
    ASSUME FamilyInv, AncInv, NEW p \in Proc, Alone(p), Calm(p), Stays(p),
           state'[p] = "UNUSED" => ~Steady(p),
           state'[p] = "RUN"
           => /\ state[p] = "RUN"
              /\ \A v \in VPN \ PrivVPN :
                    \A g \in {Cur(p)'[v], New(p)'[v]} \ {NoPage} : Seen(p, g)
    PROVE  AncInv'
  <1>1. PICK A \in [Proc -> SUBSET Proc] :
           \A r \in Proc : state[r] = "RUN" => Heir(A, r)
    BY DEF AncInv
  <1>2. \A r \in Proc : state'[r] = "RUN" => state[r] = "RUN"
    BY DEF Alone
  <1>3. ASSUME NEW r \in Proc, state[r] = "RUN", p \in A[r]
        PROVE  /\ Steady(p) /\ state'[p] # "UNUSED"
               /\ Keeps(shared[p], Cur(p), shared'[p], Cur(p)')
    <2>1. PICK c \in Children(p) : TRUE
      BY <1>1, <1>3 DEF Heir
    <2>2. Steady(p)
      BY <2>1, WordFacts DEF FamilyInv, Children
    <2> QED  BY <2>1, <2>2 DEF Calm
  <1>4. ASSUME NEW r \in Proc, state[r] = "RUN", NEW a \in A[r],
               NEW w \in PrivVPN, Cur(a)[w] # NoPage
        PROVE  Cur(a)'[w] = Cur(a)[w]
    <2>1. a \in Proc /\ w \in VPN
      BY <1>1, PageNum
    <2>2. CASE a = p
      BY <1>3, <1>4, <2>1, <2>2 DEF Keeps
    <2>3. CASE a # p
      BY <2>1, <2>3 DEF Alone
    <2> QED  BY <2>2, <2>3
  <1>5. ASSUME NEW r \in Proc, state'[r] = "RUN" PROVE Heir(A, r)'
    <2>1. state[r] = "RUN" /\ Heir(A, r) /\ parent'[r] = parent[r]
      <3>1. state[r] = "RUN" /\ Heir(A, r)
        BY <1>1, <1>2, <1>5
      <3> QED  BY <1>5, <3>1 DEF Alone, Stays
    <2>2. r # initproc => parent'[r] \in A[r] /\ A[parent'[r]] \subseteq A[r]
      BY <2>1 DEF Heir
    <2>3. ASSUME NEW a \in A[r]
          PROVE  \E c \in Children(a)' : c = r \/ c \in A[r]
      <3>1. PICK c \in Children(a) : c = r \/ c \in A[r]
        BY <2>1 DEF Heir
      <3>2. c \in Proc /\ state'[c] # "UNUSED"
        <4>1. c \in Proc /\ state[c] # "UNUSED"
          BY DEF Children
        <4>2. CASE c # p
          BY <4>1, <4>2 DEF Alone
        <4>3. CASE c = p
          BY <1>3, <1>5, <2>1, <3>1, <4>1, <4>3
        <4> QED  BY <4>1, <4>2, <4>3
      <3>3. parent'[c] = parent[c]
        BY <3>2 DEF Alone, Stays
      <3> QED  BY <3>1, <3>2, <3>3 DEF Children
    <2>4. ASSUME NEW v \in VPN \ PrivVPN,
                 NEW g \in {Cur(r)'[v], New(r)'[v]} \ {NoPage}
          PROVE  \E a \in A[r], w \in PrivVPN : Cur(a)[w] = g
      <3>1. CASE r # p
        <4>1. g \in {Cur(r)[v], New(r)[v]} \ {NoPage}
          BY <3>1 DEF Alone
        <4> QED  BY <2>1, <4>1 DEF Heir
      <3>2. CASE r = p
        <4>1. Seen(p, g)
          BY <1>5, <3>2
        <4>2. CASE \E w \in VPN \ PrivVPN : g \in {Cur(p)[w], New(p)[w]}
          BY <2>1, <3>2, <4>2 DEF Heir
        <4>3. CASE p # initproc /\ \E w \in VPN : Cur(parent[p])[w] = g
          <5>1. PICK q \in Proc : q = parent[p] /\ state[q] = "RUN"
            BY <2>1, <3>2, <4>3 DEF FamilyInv, Steady
          <5>2. q \in A[r] /\ A[q] \subseteq A[r] /\ Heir(A, q)
            BY <1>1, <2>1, <3>2, <4>3, <5>1 DEF Heir
          <5>3. PICK w \in VPN : Cur(q)[w] = g
            BY <4>3, <5>1
          <5>4. CASE w \in PrivVPN
            BY <5>2, <5>3, <5>4
          <5>5. CASE w \notin PrivVPN
            <6>1. \E a \in A[q], u \in PrivVPN : Cur(a)[u] = g
              BY <5>2, <5>3, <5>5 DEF Heir
            <6> QED  BY <5>2, <6>1
          <5> QED  BY <5>4, <5>5
        <4> QED  BY <4>1, <4>2, <4>3 DEF Seen
      <3> QED  BY <3>1, <3>2
    <2>5. ASSUME NEW v \in VPN \ PrivVPN,
                 NEW g \in {Cur(r)'[v], New(r)'[v]} \ {NoPage}
          PROVE  \E a \in A[r], w \in PrivVPN : Cur(a)'[w] = g
      <3>1. PICK a \in A[r], w \in PrivVPN : Cur(a)[w] = g
        BY <2>4
      <3>2. Cur(a)'[w] = g
        BY <1>4, <2>1, <3>1
      <3> QED  BY <3>1, <3>2
    <2> QED  BY <2>2, <2>3, <2>5 DEF Heir, Cur, New
  <1> QED  BY <1>1, <1>5 DEF AncInv

\* The three together, for a step after which p is as KinGood says.
LEMMA OneShared ==
    ASSUME TypeOK, TableInv, SharedInv, NEW p \in Proc,
           Alone(p), Calm(p), Stays(p), fault' = "none",
           p = initproc => /\ state'[p] = "RUN" /\ inherited'[p] = 0
                           /\ linked'[p] = "no" /\ exec'[p] = NoExec,
           exec'[p] = NoExec => \A v \in VPN : New(p)'[v] = NoPage,
           state'[p] = "UNUSED" => ~Steady(p),
           state'[p] = "RUN"
           => /\ state[p] = "RUN"
              /\ \A v \in VPN \ PrivVPN :
                    \A g \in {Cur(p)'[v], New(p)'[v]} \ {NoPage} : Seen(p, g),
           KinGood(state'[p], inherited'[p], linked'[p], exec'[p], sz'[p],
                   shared'[p], Cur(p)', New(p)', shared'[Up(p)], Cur(Up(p))')
    PROVE  SharedInv'
  <1>1. FamilyInv /\ KinInv /\ AncInv
    BY DEF SharedInv
  <1>2. FamilyInv' /\ AncInv'
    BY <1>1, OneFamily, OneHeir
  <1>3. ASSUME NEW r \in Proc \ {p}
        PROVE  /\ state'[r] = state[r] /\ inherited'[r] = inherited[r]
               /\ linked'[r] = linked[r] /\ exec'[r] = exec[r]
               /\ sz'[r] = sz[r] /\ shared'[r] = shared[r]
               /\ Cur(r)' = Cur(r) /\ New(r)' = New(r)
               /\ state[r] = "RUN" => Up(r)' = Up(r)
    BY DEF Alone, Up
  <1>4. \/ ~Steady(p) \/ Children(p) = {}
        \/ /\ Keeps(shared[p], Cur(p), shared'[p], Cur(p)')
           /\ FirstFree(shared'[p]) \in 0 .. MAXSHARED
    BY DEF Calm
  <1>5. KinGood(state'[p], inherited'[p], linked'[p], exec'[p], sz'[p],
                shared'[p], Cur(p)', New(p)', shared'[Up(p)'], Cur(Up(p))')
    <2>1. CASE state'[p] = "RUN"
      <3>1. Up(p)' = Up(p)
        BY <2>1 DEF Up, Stays
      <3> QED  BY <3>1
    <2>2. CASE state'[p] # "RUN"
      BY <2>2 DEF KinGood
    <2> QED  BY <2>1, <2>2
  <1>6. KinInv'
    BY <1>1, <1>3, <1>4, <1>5, OneKin
  <1> QED  BY <1>2, <1>6 DEF SharedInv

(***************************************************************************)
(* The steps                                                               *)
(***************************************************************************)

\* A step that replaces a directory of one process.
LEMMA DirFrame ==
    ASSUME TypeOK, UseInv, NEW p \in Proc, NEW e
    PROVE  /\ dir' = dir => \A r \in Proc : Cur(r)' = Cur(r) /\ New(r)' = New(r)
           /\ dir' = [dir EXCEPT ![<<p, "cur">>] = e]
              => /\ Cur(p)' = e
                 /\ \A r \in Proc \ {p} : Cur(r)' = Cur(r)
                 /\ \A r \in Proc : New(r)' = New(r)
           /\ dir' = [dir EXCEPT ![<<p, "new">>] = e]
              => /\ New(p)' = e
                 /\ \A r \in Proc \ {p} : New(r)' = New(r)
                 /\ \A r \in Proc : Cur(r)' = Cur(r)
  BY ValueFacts, TypeFacts DEF DirId, Cur, New

\* Nobody in use has p's directory for its parent's if p may not have, or has
\* no, children: freeing it concerns nobody.
LEMMA DropFrame ==
    ASSUME FamilyInv, NEW p \in Proc, ~Steady(p) \/ Children(p) = {},
           NEW r \in Proc, state[r] # "UNUSED"
    PROVE  DropDir(p)[r] = parentpgdir[r]
  <1>1. CASE r = initproc
    BY <1>1, WordFacts DEF DropDir, FamilyInv
  <1>2. CASE r # initproc
    <2>1. parent[r] # p /\ parentpgdir[r] = parent[r]
      BY <1>2, Childless DEF FamilyInv
    <2> QED  BY <2>1 DEF DropDir
  <1> QED  BY <1>1, <1>2

\* exit: a process without children becomes a zombie.
LEMMA ExitShared ==
    ASSUME TypeOK, UseInv, TableInv, SharedInv, use.obeys,
           NEW p \in Proc, Exit(p)
    PROVE  SharedInv'
  <1>1. FamilyInv /\ Children(p) = {} /\ p # initproc
    BY DEF SharedInv, Exit, Settled, Disciplined
  <1>2. \A r \in Proc : Cur(r)' = Cur(r) /\ New(r)' = New(r)
    BY DirFrame DEF Exit
  <1>3. /\ state'[p] = "ZOMBIE" /\ state[p] = "RUN" /\ exec[p] = NoExec
        /\ \A r \in Proc \ {p} : state'[r] = state[r] /\ shared'[r] = shared[r]
        /\ fault' = "none"
        /\ UNCHANGED <<sz, parentpgdir, exec, inherited, linked>>
    BY TypeFacts DEF Exit, Idle
  <1>4. ASSUME NEW r \in Proc, state[r] # "UNUSED"
        PROVE  parent'[r] = parent[r]
    <2>1. parent[r] # p
      BY <1>1, <1>4, WordFacts DEF FamilyInv, Children
    <2> QED  BY <2>1 DEF Exit, Reparent
  <1>5. Alone(p) /\ Calm(p) /\ Stays(p)
    BY <1>1, <1>2, <1>3, <1>4 DEF Alone, Calm, Stays
  <1>6. \A v \in VPN : New(p)'[v] = NoPage
    BY <1>1, <1>2, <1>3 DEF FamilyInv
  <1>7. KinGood(state'[p], inherited'[p], linked'[p], exec'[p], sz'[p],
                shared'[p], Cur(p)', New(p)', shared'[Up(p)], Cur(Up(p))')
    BY <1>3 DEF KinGood
  <1> QED  BY <1>1, <1>3, <1>5, <1>6, <1>7, OneShared

\* wait: a zombie, which has no children, is gone.
LEMMA WaitShared ==
    ASSUME TypeOK, UseInv, TableInv, AllGood, SharedInv,
           NEW p \in Proc, NEW q \in Proc, Wait(p, q)
    PROVE  SharedInv'
  <1>1. /\ FamilyInv /\ state[q] = "ZOMBIE" /\ exec[q] = NoExec /\ q # initproc
        /\ ~Steady(q)
    BY DEF SharedInv, Wait, AllGood, MapsGood, FamilyInv, Steady
  <1>2. /\ \A r \in Proc \ {q} : Cur(r)' = Cur(r)
        /\ \A r \in Proc : New(r)' = New(r)
    BY DirFrame DEF Wait
  <1>3. /\ state'[q] = "UNUSED" /\ fault' = "none"
        /\ \A r \in Proc \ {q} :
              /\ state'[r] = state[r] /\ parent'[r] = parent[r]
              /\ inherited'[r] = inherited[r] /\ linked'[r] = linked[r]
        /\ UNCHANGED <<sz, shared, exec>>
    BY TypeFacts DEF Wait, CanRun, Idle
  <1>4. \A r \in Proc : state[r] # "UNUSED" => parentpgdir'[r] = parentpgdir[r]
    BY <1>1, DropFrame DEF Wait
  <1>5. Alone(q) /\ Calm(q) /\ Stays(q)
    BY <1>1, <1>2, <1>3, <1>4 DEF Alone, Calm, Stays
  <1>6. \A v \in VPN : New(q)'[v] = NoPage
    BY <1>1, <1>2 DEF FamilyInv
  <1>7. KinGood(state'[q], inherited'[q], linked'[q], exec'[q], sz'[q],
                shared'[q], Cur(q)', New(q)', shared'[Up(q)], Cur(Up(q))')
    BY <1>3 DEF KinGood
  <1> QED  BY <1>1, <1>3, <1>5, <1>6, <1>7, OneShared

\* fork that runs out of memory changes a slot that is not in use.
LEMMA NoMemShared ==
    ASSUME TypeOK, UseInv, TableInv, AllGood, SharedInv,
           NEW p \in Proc, NEW np \in Proc, ForkNoMem(p, np)
    PROVE  SharedInv'
  <1>1. /\ FamilyInv /\ state[np] = "UNUSED" /\ exec[np] = NoExec
        /\ np # initproc /\ ~Steady(np) /\ fault = "none"
    BY DEF SharedInv, ForkNoMem, CanFork, FirstUnused, AllGood, MapsGood,
           FamilyInv, Steady
  <1>2. /\ \A r \in Proc \ {np} : Cur(r)' = Cur(r)
        /\ \A r \in Proc : New(r)' = New(r)
    BY DirFrame DEF ForkNoMem
  <1>3. /\ \A r \in Proc \ {np} : shared'[r] = shared[r]
        /\ UNCHANGED <<state, parent, sz, parentpgdir, exec, fault, inherited,
                       linked>>
    BY TypeFacts DEF ForkNoMem
  <1>4. Alone(np) /\ Calm(np) /\ Stays(np)
    BY <1>1, <1>2, <1>3 DEF Alone, Calm, Stays
  <1>5. \A v \in VPN : New(np)'[v] = NoPage
    BY <1>1, <1>2 DEF FamilyInv
  <1>6. KinGood(state'[np], inherited'[np], linked'[np], exec'[np], sz'[np],
                shared'[np], Cur(np)', New(np)', shared'[Up(np)], Cur(Up(np))')
    BY <1>1, <1>3 DEF KinGood
  <1> QED  BY <1>1, <1>3, <1>4, <1>5, <1>6, OneShared

\* A process in exec: it has no children, and its parent has the regions.
LEMMA ExecFacts ==
    ASSUME TypeOK, UseInv, TableInv, AllGood, SharedInv, NEW p \in Proc,
           exec[p].pc # "none"
    PROVE  /\ p # initproc /\ state[p] = "RUN" /\ ~Steady(p)
           /\ exec[p] # NoExec /\ linked[p] # "done"
           /\ \E q \in Proc \ {p} :
                 /\ Up(p) = q /\ parent[p] = q /\ parentpgdir[p] = q
                 /\ \A i \in Idx : i < FirstFree(shared[q])
                       => SizeFits(shared[q][i]) /\ Covers(shared[q][i], Cur(q))
                 /\ KinGood("RUN", inherited[p], linked[p], exec[p], sz[p],
                            shared[p], Cur(p), New(p), shared[q], Cur(q))
                 /\ ExecGood(inherited[p], linked[p], exec[p], shared[p],
                             New(p), shared[q], Cur(q))
  <1>1. exec[p] # NoExec /\ state[p] = "RUN"
    BY ValueFacts DEF AllGood, MapsGood
  <1>2. p # initproc /\ ~Steady(p)
    BY <1>1 DEF SharedInv, FamilyInv, Steady
  <1>3. PICK q \in Proc \ {p} :
           /\ parent[p] = q /\ Up(p) = q /\ parentpgdir[p] = q
           /\ \A i \in Idx : i < FirstFree(shared[q])
                 => SizeFits(shared[q][i]) /\ Covers(shared[q][i], Cur(q))
           /\ KinGood("RUN", inherited[p], linked[p], exec[p], sz[p],
                      shared[p], Cur(p), New(p), shared[q], Cur(q))
    BY <1>1, <1>2, ParentFacts DEF SharedInv
  <1>4. /\ ExecGood(inherited[p], linked[p], exec[p], shared[p], New(p),
                    shared[q], Cur(q))
        /\ linked[p] # "done"
    BY <1>1, <1>3 DEF KinGood
  <1> QED  BY <1>1, <1>2, <1>3, <1>4

\* A step of a process in exec, after which it is as KinGood says.
LEMMA OneExec ==
    ASSUME TypeOK, UseInv, TableInv, AllGood, SharedInv, NEW p \in Proc,
           exec[p].pc # "none", Alone(p), fault' = "none",
           state'[p] = "RUN" /\ Stays(p),
           exec'[p] = NoExec => \A v \in VPN : New(p)'[v] = NoPage,
           \A v \in VPN \ PrivVPN :
              \A g \in {Cur(p)'[v], New(p)'[v]} \ {NoPage} : Seen(p, g),
           NEW q \in Proc \ {p}, q = Up(p),
           KinGood("RUN", inherited'[p], linked'[p], exec'[p], sz'[p],
                   shared'[p], Cur(p)', New(p)', shared[q], Cur(q))
    PROVE  SharedInv'
  <1>1. p # initproc /\ state[p] = "RUN" /\ ~Steady(p)
    BY ExecFacts
  <1>2. Calm(p)
    BY <1>1 DEF Calm
  <1>3. shared'[q] = shared[q] /\ Cur(q)' = Cur(q)
    BY DEF Alone
  <1>4. Up(p)' = q
    BY <1>1 DEF Up, Stays
  <1>5. KinGood(state'[p], inherited'[p], linked'[p], exec'[p], sz'[p],
                shared'[p], Cur(p)', New(p)', shared'[Up(p)], Cur(Up(p))')
    <2>1. Cur(Up(p))' = Cur(q)
      BY <1>3, <1>4 DEF Cur
    <2> QED  BY <1>3, <2>1
  <1> QED  BY <1>1, <1>2, <1>5, OneShared

\* linkphysaddr ends when it has linked what was inherited.
LEMMA DoneShared ==
    ASSUME TypeOK, UseInv, TableInv, AllGood, SharedInv, Modest(use),
           NEW p \in Proc, LinkDone(p)
    PROVE  SharedInv'
  <1>0. exec[p].pc = "link" /\ exec[p] \in Execs
    BY ValueFacts DEF LinkDone, InExec
  <1>1. PICK q \in Proc \ {p} :
           /\ Up(p) = q
           /\ KinGood("RUN", inherited[p], linked[p], exec[p], sz[p],
                      shared[p], Cur(p), New(p), shared[q], Cur(q))
           /\ ExecGood(inherited[p], linked[p], exec[p], shared[p],
                       New(p), shared[q], Cur(q))
    BY <1>0, ExecFacts
  <1>2. state[p] = "RUN" /\ linked[p] # "done"
    BY <1>0, ExecFacts
  <1>3. PICK y : y = [exec[p] EXCEPT !.pc = "stack"]
    OBVIOUS
  <1>4. /\ exec'[p] = y /\ \A r \in Proc \ {p} : exec'[r] = exec[r]
        /\ UNCHANGED <<state, parent, sz, parentpgdir, shared, dir, fault,
                       inherited, linked>>
        /\ fault = "none"
    BY <1>3, TypeFacts DEF LinkDone, InExec
  <1>5. /\ y.pc = "stack" /\ y.sz = exec[p].sz /\ y.i = exec[p].i
        /\ y.va = exec[p].va /\ y # NoExec
    <2>1. /\ y.pc = "stack" /\ y.sz = exec[p].sz /\ y.i = exec[p].i
          /\ y.va = exec[p].va
      BY <1>0, <1>3 DEF Execs
    <2> QED  BY <2>1, ValueFacts
  <1>6. \A r \in Proc : Cur(r)' = Cur(r) /\ New(r)' = New(r)
    BY <1>4, DirFrame
  <1>7. exec[p].i = inherited[p]
    <2>1. FirstFree(shared[p]) = inherited[p] /\ exec[p].i <= inherited[p]
      BY <1>1 DEF ExecGood
    <2>2. inherited[p] < MAXSHARED
      BY <2>1, TableRoom
    <2>3. exec[p].i \in Nat /\ inherited[p] \in Nat
      <3>1. inherited[p] \in 0 .. MAXSHARED
        BY TypeFacts
      <3> QED  BY <1>0, <3>1, ConstFacts DEF Execs
    <2>4. exec[p].i \in Idx /\ shared[p][exec[p].i].sz = 0
      BY <2>1, <2>2, <2>3, ConstFacts DEF LinkDone, Idx
    <2>5. PrefixOf(shared[p], inherited[p])
      BY <2>1, PrefixFacts
    <2>6. ~(exec[p].i < inherited[p])
      BY <2>4, <2>5 DEF PrefixOf
    <2> QED  BY <2>1, <2>3, <2>6
  <1>8. ExecGood(inherited[p], linked[p], y, shared[p], New(p), shared[q],
                 Cur(q))
    BY <1>1, <1>5, <1>7 DEF ExecGood, Vacant
  <1>9. KinGood("RUN", inherited[p], linked[p], y, sz[p], shared[p], Cur(p),
                New(p), shared[q], Cur(q))
    BY <1>1, <1>2, <1>5, <1>8 DEF KinGood
  <1>10. Alone(p) /\ Stays(p)
    BY <1>2, <1>4, <1>6 DEF Alone, Stays
  <1>11. \A v \in VPN \ PrivVPN :
            \A g \in {Cur(p)'[v], New(p)'[v]} \ {NoPage} : Seen(p, g)
    BY <1>6 DEF Seen
  <1>12. KinGood("RUN", inherited'[p], linked'[p], exec'[p], sz'[p],
                 shared'[p], Cur(p)', New(p)', shared[q], Cur(q))
    BY <1>4, <1>6, <1>9
  <1> QED  BY <1>0, <1>1, <1>2, <1>4, <1>5, <1>10, <1>11, <1>12, OneExec

\* An exec that fails leaves the process without what it built.
LEMMA BadShared ==
    ASSUME TypeOK, UseInv, TableInv, AllGood, SharedInv, NEW p \in Proc,
           ExecBad(p)
    PROVE  SharedInv'
  <1>0. exec[p].pc = "stack"
    BY DEF ExecBad, InExec
  <1>1. PICK q \in Proc \ {p} :
           /\ Up(p) = q
           /\ KinGood("RUN", inherited[p], linked[p], exec[p], sz[p],
                      shared[p], Cur(p), New(p), shared[q], Cur(q))
           /\ ExecGood(inherited[p], linked[p], exec[p], shared[p],
                       New(p), shared[q], Cur(q))
    BY <1>0, ExecFacts
  <1>2. state[p] = "RUN" /\ linked[p] # "done"
    BY <1>0, ExecFacts
  <1>3. /\ exec'[p] = NoExec /\ \A r \in Proc \ {p} : exec'[r] = exec[r]
        /\ UNCHANGED <<state, parent, sz, parentpgdir, shared, fault,
                       inherited, linked>>
        /\ fault = "none"
    BY TypeFacts DEF ExecBad, InExec
  <1>4. /\ New(p)' = EmptyDir /\ \A r \in Proc \ {p} : New(r)' = New(r)
        /\ \A r \in Proc : Cur(r)' = Cur(r)
    BY DirFrame DEF ExecBad
  <1>5. \A v \in VPN : EmptyDir[v] = NoPage
    BY DEF EmptyDir
  <1>6. KinGood("RUN", inherited[p], linked[p], NoExec, sz[p], shared[p],
                Cur(p), EmptyDir, shared[q], Cur(q))
    BY <1>1, <1>2 DEF KinGood, ExecGood
  <1>7. Alone(p) /\ Stays(p)
    BY <1>2, <1>3, <1>4 DEF Alone, Stays
  <1>8. \A v \in VPN \ PrivVPN :
           \A g \in {Cur(p)'[v], New(p)'[v]} \ {NoPage} : Seen(p, g)
    BY <1>4, <1>5 DEF Seen
  <1>9. KinGood("RUN", inherited'[p], linked'[p], exec'[p], sz'[p],
                shared'[p], Cur(p)', New(p)', shared[q], Cur(q))
    BY <1>3, <1>4, <1>6
  <1> QED  BY <1>0, <1>1, <1>2, <1>3, <1>4, <1>5, <1>7, <1>8, <1>9, OneExec

\* A region that is the parent's stays so when pages are mapped around it.
LEMMA SameKept ==
    ASSUME NEW f, NEW c, NEW e, NEW d, NEW c2, Same(f, c, e, d), Covers(e, d),
           \A v \in VPN : c[v] # NoPage => c2[v] = c[v]
    PROVE  Same(f, c2, e, d) /\ Covers(f, c2)
  <1>1. ASSUME NEW k \in 0 .. PagesOf(e.sz) - 1
        PROVE  /\ RegionPage(f, k) \in VPN
               /\ c2[RegionPage(f, k)] = d[RegionPage(e, k)]
               /\ d[RegionPage(e, k)] # NoPage
    BY DEF Same, Covers
  <1>2. f.sz = e.sz /\ f.memstart % PGSIZE = e.memstart % PGSIZE
    BY DEF Same
  <1> QED  BY <1>1, <1>2 DEF Same, Covers

\* A process that maps more of its own memory.
LEMMA KinMore ==
    ASSUME NEW inh \in 0 .. MAXSHARED, NEW lk, NEW x, NEW s, NEW t, NEW cur,
           NEW new, NEW u, NEW d, NEW s2, NEW cur2,
           KinGood("RUN", inh, lk, x, s, t, cur, new, u, d),
           \A v \in VPN : cur[v] # NoPage => cur2[v] = cur[v],
           Filled(s2, cur2), \A i \in Idx : i < inh => Covers(u[i], d)
    PROVE  KinGood("RUN", inh, lk, x, s2, t, cur2, new, u, d)
  <1>1. ASSUME NEW e, Covers(e, cur) PROVE Covers(e, cur2)
    BY <1>1 DEF Covers
  <1>2. ASSUME NEW i \in Idx, i < inh, Same(t[i], cur, u[i], d)
        PROVE  Same(t[i], cur2, u[i], d)
    BY <1>2, SameKept
  <1> QED  BY <1>1, <1>2 DEF KinGood

\* Pages that kalloc gives for the pages from one size to the next.
LEMMA FillMore ==
    ASSUME TypeOK, NEW a \in Nat, a < SHAREBASE, NEW s1 \in Nat, a <= s1,
           s1 = PGROUNDUP(a) \/ s1 = a, NEW b \in Nat, b < SHAREBASE, s1 <= b,
           NEW f \in KallocFor(PagesBetween(s1, b)), NEW c \in Dirs,
           Filled(a, c), \A v \in PrivVPN : a <= v * PGSIZE => c[v] = NoPage
    PROVE  /\ \A v \in VPN : c[v] # NoPage => MapPages(c, f)[v] = c[v]
           /\ \A v \in VPN \ PrivVPN : MapPages(c, f)[v] = c[v]
           /\ Filled(b, MapPages(c, f))
  <1>1. PICK V : V = PagesBetween(s1, b)
    OBVIOUS
  <1>2. /\ V \subseteq PrivVPN
        /\ \A v \in VPN : v \in V <=> s1 <= v * PGSIZE /\ v * PGSIZE < b
    <2>1. s1 <= KERNBASE /\ b <= SHAREBASE
      BY ConstFacts
    <2> QED  BY <1>1, <2>1, BetweenFacts
  <1>3. \A v \in VPN : s1 <= v * PGSIZE <=> a <= v * PGSIZE
    <2>1. a <= KERNBASE
      BY ConstFacts
    <2>2. \A v \in VPN : PGROUNDUP(a) <= v * PGSIZE <=> a <= v * PGSIZE
      BY <2>1, RoundOrder, PageNum
    <2> QED  BY <2>2
  <1>4. f \in [V -> free] /\ free \subseteq Page
    BY <1>1, TypeFacts DEF KallocFor
  <1>5. \A v \in VPN : /\ v \in V => MapPages(c, f)[v] = f[v] /\ f[v] # NoPage
                       /\ v \notin V => MapPages(c, f)[v] = c[v]
    BY <1>4, ConstFacts DEF MapPages
  <1>6. \A v \in V : v \in VPN /\ c[v] = NoPage
    BY <1>2, <1>3, PageNum
  <1>7. ASSUME NEW v \in VPN, v * PGSIZE < b PROVE MapPages(c, f)[v] # NoPage
    <2>1. CASE a <= v * PGSIZE
      BY <1>2, <1>3, <1>5, <1>7, <2>1
    <2>2. CASE v * PGSIZE < a
      <3>1. v \notin V
        BY <1>2, <1>3, <2>2, PageNum
      <3> QED  BY <1>5, <2>2, <3>1 DEF Filled
    <2> QED  BY <2>1, <2>2, PageNum
  <1> QED  BY <1>2, <1>5, <1>6, <1>7 DEF Filled

\* exec commits: what was linked in the new directory is the parent's memory
\* in the process's directory.
LEMMA CommitShared ==
    ASSUME TypeOK, UseInv, TableInv, AllGood, SharedInv, NEW p \in Proc,
           ExecCommit(p)
    PROVE  SharedInv'
  <1>0. exec[p].pc = "stack"
    BY DEF ExecCommit, InExec
  <1>1. PICK q \in Proc \ {p} :
           /\ Up(p) = q
           /\ \A i \in Idx : i < FirstFree(shared[q])
                 => SizeFits(shared[q][i]) /\ Covers(shared[q][i], Cur(q))
           /\ KinGood("RUN", inherited[p], linked[p], exec[p], sz[p],
                      shared[p], Cur(p), New(p), shared[q], Cur(q))
           /\ ExecGood(inherited[p], linked[p], exec[p], shared[p],
                       New(p), shared[q], Cur(q))
    BY <1>0, ExecFacts
  <1>2. state[p] = "RUN" /\ linked[p] # "done" /\ ~Steady(p) /\ FamilyInv
    BY <1>0, ExecFacts DEF SharedInv
  <1>3. PICK x \in Nat, s1 \in Nat, s2 \in Nat :
           /\ x = exec[p].sz /\ x < SHAREBASE /\ s1 = PGROUNDUP(x) /\ x <= s1
           /\ s2 = s1 + NSTACK * PGSIZE /\ s1 <= s2 /\ s2 < SHAREBASE
    <2>1. PICK x \in Nat : x = exec[p].sz /\ x < SHAREBASE
      BY ValueFacts
    <2>2. PICK s1 \in Nat : s1 = PGROUNDUP(x) /\ x <= s1
      <3>1. x <= KERNBASE /\ 0 \in Nat
        BY <2>1, ConstFacts
      <3> QED  BY <3>1, RoundOrder
    <2>3. NSTACK * PGSIZE \in Nat
      BY ConstFacts
    <2>4. s1 + NSTACK * PGSIZE < SHAREBASE
      BY <2>1, <2>2 DEF ExecCommit
    <2> QED  BY <2>1, <2>2, <2>3, <2>4
  <1>4. PICK f \in KallocFor(PagesBetween(s1, s2)) :
           dir' = [dir EXCEPT ![<<p, "cur">>] = MapPages(dir[<<p, "new">>], f),
                              ![<<p, "new">>] = EmptyDir]
    BY <1>3 DEF ExecCommit
  <1>5. PICK c \in Dirs : c = New(p)
    BY ValueFacts DEF New
  <1>6. PICK e : e = MapPages(c, f)
    OBVIOUS
  <1>7. /\ Cur(p)' = e /\ New(p)' = EmptyDir
        /\ \A r \in Proc \ {p} : Cur(r)' = Cur(r) /\ New(r)' = New(r)
    BY <1>4, <1>5, <1>6, ValueFacts, TypeFacts DEF DirId, Cur, New
  <1>8. /\ \A v \in VPN : c[v] # NoPage => e[v] = c[v]
        /\ \A v \in VPN \ PrivVPN : e[v] = c[v]
        /\ Filled(s2, e)
    <2>1. Filled(x, c)
      BY <1>1, <1>3, <1>5 DEF ExecGood
    <2>2. \A v \in PrivVPN : x <= v * PGSIZE => c[v] = NoPage
      BY <1>3, <1>5 DEF AllGood, MapsGood, New
    <2> QED  BY <1>3, <1>6, <2>1, <2>2, FillMore
  <1>9. PICK lk : lk = IF linked[p] = "started" THEN "done" ELSE linked[p]
    OBVIOUS
  <1>10. /\ exec'[p] = NoExec /\ sz'[p] = s2 /\ linked'[p] = lk
         /\ \A r \in Proc \ {p} : /\ exec'[r] = exec[r] /\ sz'[r] = sz[r]
                                  /\ linked'[r] = linked[r]
         /\ UNCHANGED <<state, parent, shared, fault, inherited>>
         /\ fault = "none" /\ parentpgdir' = DropDir(p)
    BY <1>3, <1>9, TypeFacts DEF ExecCommit, InExec
  <1>11. \A r \in Proc : state[r] # "UNUSED" => parentpgdir'[r] = parentpgdir[r]
    BY <1>2, <1>10, DropFrame
  <1>12. /\ inherited[p] \in 0 .. MAXSHARED /\ exec[p].i = inherited[p]
         /\ FirstFree(shared[p]) = inherited[p]
         /\ inherited[p] <= FirstFree(shared[q])
         /\ FirstFree(shared[q]) \in 0 .. MAXSHARED
    BY <1>0, <1>1, TypeFacts, PrefixFacts DEF ExecGood, KinGood
  <1>13. ASSUME NEW i \in Idx, i < inherited[p]
         PROVE  Same(shared[p][i], e, shared[q][i], Cur(q))
                /\ Covers(shared[p][i], e)
    <2>1. i < FirstFree(shared[q])
      BY <1>12, <1>13, ConstFacts DEF Idx
    <2>2. Covers(shared[q][i], Cur(q))
      BY <1>1, <2>1
    <2>3. Same(shared[p][i], c, shared[q][i], Cur(q))
      BY <1>1, <1>5, <1>12, <1>13 DEF ExecGood
    <2> QED  BY <1>8, <2>2, <2>3, SameKept
  <1>14. KinGood("RUN", inherited[p], lk, NoExec, s2, shared[p], e, EmptyDir,
                 shared[q], Cur(q))
    <2>1. lk = "done" \/ (lk = "no" /\ inherited[p] = 0)
      BY <1>1, <1>9 DEF ExecGood
    <2> QED  BY <1>1, <1>8, <1>12, <1>13, <2>1 DEF KinGood
  <1>15. Alone(p) /\ Stays(p)
    BY <1>2, <1>7, <1>10, <1>11 DEF Alone, Stays
  <1>16. \A v \in VPN : EmptyDir[v] = NoPage
    BY DEF EmptyDir
  <1>17. \A v \in VPN \ PrivVPN :
            \A g \in {Cur(p)'[v], New(p)'[v]} \ {NoPage} : Seen(p, g)
    BY <1>5, <1>7, <1>8, <1>16 DEF Seen
  <1>18. KinGood("RUN", inherited'[p], linked'[p], exec'[p], sz'[p],
                 shared'[p], Cur(p)', New(p)', shared[q], Cur(q))
    BY <1>7, <1>10, <1>14
  <1> QED  BY <1>0, <1>1, <1>2, <1>7, <1>10, <1>15, <1>16, <1>17, <1>18,
              OneExec

\* exec loads the image: nothing is linked yet.
LEMMA LoadShared ==
    ASSUME TypeOK, UseInv, TableInv, AllGood, SharedInv, use.obeys,
           NEW p \in Proc, NEW isz \in ExecSize, NEW prime \in BOOLEAN,
           ExecLoad(p, isz, prime)
    PROVE  SharedInv'
  <1>0. /\ state[p] = "RUN" /\ exec[p] = NoExec /\ fault = "none"
        /\ p # initproc /\ Children(p) = {} /\ linked[p] = "no"
        /\ FirstFree(shared[p]) = inherited[p]
        /\ prime \/ inherited[p] = 0
    BY DEF ExecLoad, CanRun, Idle, Settled, Disciplined
  <1>1. PICK q \in Proc \ {p} :
           /\ Up(p) = q
           /\ KinGood("RUN", inherited[p], linked[p], exec[p], sz[p],
                      shared[p], Cur(p), New(p), shared[q], Cur(q))
    BY <1>0, ParentFacts DEF SharedInv
  <1>2. isz \in Nat /\ isz < SHAREBASE /\ 0 <= isz /\ 0 < SHAREBASE
    BY ConstFacts DEF ExecLoad
  <1>3. PICK f \in KallocFor(PagesBetween(0, isz)) :
           dir' = [dir EXCEPT ![<<p, "new">>] = MapPages(EmptyDir, f)]
    BY DEF ExecLoad
  <1>4. PICK c \in Dirs : c = EmptyDir /\ \A v \in VPN : c[v] = NoPage
    <2>1. EmptyDir \in Dirs
      BY DEF EmptyDir, Dirs
    <2> QED  BY <2>1 DEF EmptyDir
  <1>5. PICK e : e = MapPages(c, f)
    OBVIOUS
  <1>6. (\A v \in VPN \ PrivVPN : e[v] = NoPage) /\ Filled(isz, e)
    <2>1. Filled(0, c)
      BY PageNum DEF Filled
    <2>2. \A v \in PrivVPN : 0 <= v * PGSIZE => c[v] = NoPage
      BY <1>4, PageNum
    <2> QED  BY <1>2, <1>4, <1>5, <2>1, <2>2, FillMore
  <1>7. /\ New(p)' = e /\ \A r \in Proc \ {p} : New(r)' = New(r)
        /\ \A r \in Proc : Cur(r)' = Cur(r)
    BY <1>3, <1>4, <1>5, DirFrame
  <1>8. PICK x, lk : /\ x = [pc |-> IF prime THEN "link" ELSE "stack",
                             sz |-> isz, i |-> 0, va |-> SHAREBASE]
                     /\ lk = IF prime THEN "started" ELSE "no"
    OBVIOUS
  <1>9. /\ x.pc = (IF prime THEN "link" ELSE "stack") /\ x.sz = isz
        /\ x.i = 0 /\ x.va = SHAREBASE /\ x # NoExec
    BY <1>8 DEF NoExec
  <1>10. /\ exec'[p] = x /\ linked'[p] = lk /\ fault' = "none"
         /\ \A r \in Proc \ {p} : exec'[r] = exec[r] /\ linked'[r] = linked[r]
         /\ UNCHANGED <<state, parent, sz, parentpgdir, shared, inherited>>
    BY <1>0, <1>8, TypeFacts DEF ExecLoad
  <1>11. Vacant(x, e)
    <2>1. PrivN \in PrivN .. NVPN /\ x.va = PrivN * PGSIZE
      BY <1>9, BaseFacts
    <2>2. x.va <= SHAREBASE + x.i * Room
      <3>1. 0 * Room = 0
        BY RoomFacts
      <3> QED  BY <1>9, <3>1, ConstFacts
    <2>3. \A v \in VPN : v >= PrivN => v \notin PrivVPN
      BY BaseFacts
    <2> QED  BY <1>6, <2>1, <2>2, <2>3 DEF Vacant
  <1>12. ExecGood(inherited[p], lk, x, shared[p], e, shared[q], Cur(q))
    <2>1. inherited[p] \in Nat
      <3>1. inherited[p] \in 0 .. MAXSHARED
        BY TypeFacts
      <3> QED  BY <3>1, ConstFacts
    <2>2. \A i \in Idx : ~(i < 0)
      BY ConstFacts DEF Idx
    <2>3. ASSUME NEW i \in Idx, i < inherited[p]
          PROVE  shared[p][i] = shared[q][i]
      <3>1. inherited[p] # 0
        BY <2>2, <2>3
      <3> QED  BY <1>0, <1>1, <2>3, <3>1 DEF KinGood
    <2>4. /\ x.i <= inherited[p] /\ x.pc \in {"link", "stack"}
          /\ x.pc = "stack" => x.i = inherited[p]
          /\ lk = "started" \/ (lk = "no" /\ inherited[p] = 0)
      BY <1>0, <1>8, <1>9, <2>1
    <2> QED  BY <1>0, <1>6, <1>9, <1>11, <2>2, <2>3, <2>4 DEF ExecGood
  <1>13. KinGood("RUN", inherited[p], lk, x, sz[p], shared[p], Cur(p), e,
                 shared[q], Cur(q))
    <2>1. lk # "done" /\ (lk = "no" => inherited[p] = 0)
      BY <1>0, <1>8
    <2> QED  BY <1>1, <1>12, <2>1 DEF KinGood
  <1>14. Alone(p) /\ Stays(p) /\ Calm(p)
    BY <1>0, <1>7, <1>10 DEF Alone, Stays, Calm
  <1>15. \A v \in VPN \ PrivVPN :
            \A g \in {Cur(p)'[v], New(p)'[v]} \ {NoPage} : Seen(p, g)
    BY <1>6, <1>7 DEF Seen
  <1>16. KinGood(state'[p], inherited'[p], linked'[p], exec'[p], sz'[p],
                 shared'[p], Cur(p)', New(p)', shared'[Up(p)], Cur(Up(p))')
    <2>1. Cur(Up(p))' = Cur(q)
      BY <1>1, <1>7, <1>10 DEF Cur, Up
    <2> QED  BY <1>0, <1>1, <1>7, <1>10, <1>13, <2>1
  <1> QED  BY <1>0, <1>9, <1>10, <1>14, <1>15, <1>16, OneShared

\* A step of a process outside exec that keeps what it has.
LEMMA OneIdle ==
    ASSUME TypeOK, UseInv, TableInv, SharedInv, NEW p \in Proc,
           p # initproc, state[p] = "RUN", fault = "none", Alone(p),
           UNCHANGED <<state, parent, parentpgdir, exec, fault, inherited,
                       linked>>,
           New(p)' = New(p), \A v \in VPN \ PrivVPN : Cur(p)'[v] = Cur(p)[v],
           FirstFree(shared'[p]) \in 0 .. MAXSHARED,
           Keeps(shared[p], Cur(p), shared'[p], Cur(p)'),
           NEW q \in Proc \ {p}, q = Up(p),
           KinGood("RUN", inherited[p], linked[p], exec[p], sz'[p],
                   shared'[p], Cur(p)', New(p), shared[q], Cur(q))
    PROVE  SharedInv'
  <1>1. Stays(p) /\ Calm(p)
    BY DEF Stays, Calm, Steady
  <1>2. exec'[p] = NoExec => \A v \in VPN : New(p)'[v] = NoPage
    BY DEF SharedInv, FamilyInv
  <1>3. \A v \in VPN \ PrivVPN :
           \A g \in {Cur(p)'[v], New(p)'[v]} \ {NoPage} : Seen(p, g)
    BY DEF Seen
  <1>4. KinGood(state'[p], inherited'[p], linked'[p], exec'[p], sz'[p],
                shared'[p], Cur(p)', New(p)', shared'[Up(p)], Cur(Up(p))')
    <2>1. shared'[q] = shared[q] /\ Cur(q)' = Cur(q) /\ Up(p)' = q
      BY DEF Alone, Up
    <2>2. Cur(Up(p))' = Cur(q)
      BY <2>1 DEF Cur
    <2> QED  BY <2>1, <2>2
  <1>5. state'[p] = "RUN" /\ fault' = "none"
    OBVIOUS
  <1> QED  BY <1>1, <1>2, <1>3, <1>4, <1>5, OneShared

\* growproc maps more of the process's own memory.
LEMMA GrowShared ==
    ASSUME TypeOK, UseInv, TableInv, AllGood, SharedInv,
           NEW p \in Proc, NEW n \in use.sbrk, Grow(p, n)
    PROVE  SharedInv'
  <1>0. state[p] = "RUN" /\ exec[p] = NoExec /\ fault = "none" /\ p # initproc
    BY DEF Grow, CanRun, Idle
  <1>1. PICK q \in Proc \ {p} :
           /\ Up(p) = q
           /\ \A i \in Idx : i < FirstFree(shared[q])
                 => SizeFits(shared[q][i]) /\ Covers(shared[q][i], Cur(q))
           /\ KinGood("RUN", inherited[p], linked[p], exec[p], sz[p],
                      shared[p], Cur(p), New(p), shared[q], Cur(q))
    BY <1>0, ParentFacts DEF SharedInv
  <1>2. PICK s \in Nat : s = (sz[p] + n) % Word /\ s < SHAREBASE /\ s >= sz[p]
    <2>1. n \in Int /\ sz[p] \in Nat
      BY UseFacts, ValueFacts
    <2>2. sz[p] + n \in Int
      BY <2>1
    <2>3. (sz[p] + n) % Word \in Nat
      BY <2>2, WordFacts DEF Addr
    <2> QED  BY <2>3 DEF Grow
  <1>3. PICK f \in KallocFor(PagesBetween(sz[p], s)) :
           dir' = [dir EXCEPT ![<<p, "cur">>] = MapPages(dir[<<p, "cur">>], f)]
    BY <1>2 DEF Grow
  <1>4. PICK c \in Dirs, a \in Nat : /\ c = Cur(p) /\ a = sz[p]
                                     /\ a < SHAREBASE
    BY ValueFacts DEF Cur
  <1>5. PICK e : e = MapPages(c, f)
    OBVIOUS
  <1>6. /\ \A v \in VPN : c[v] # NoPage => e[v] = c[v]
        /\ \A v \in VPN \ PrivVPN : e[v] = c[v]
        /\ Filled(s, e)
    <2>1. Filled(a, c)
      BY <1>1, <1>4 DEF KinGood
    <2>2. \A v \in PrivVPN : a <= v * PGSIZE => c[v] = NoPage
      BY <1>4 DEF AllGood, MapsGood, Cur
    <2>3. a <= a /\ a <= s /\ f \in KallocFor(PagesBetween(a, s))
      BY <1>2, <1>3, <1>4
    <2> QED  BY <1>2, <1>4, <1>5, <2>1, <2>2, <2>3, FillMore
  <1>7. /\ Cur(p)' = e /\ \A r \in Proc \ {p} : Cur(r)' = Cur(r)
        /\ \A r \in Proc : New(r)' = New(r)
    BY <1>3, <1>4, <1>5, DirFrame DEF Cur
  <1>8. /\ sz'[p] = s /\ \A r \in Proc \ {p} : sz'[r] = sz[r]
        /\ UNCHANGED <<state, parent, parentpgdir, shared, exec, fault,
                       inherited, linked>>
    BY <1>2, TypeFacts DEF Grow
  <1>9. /\ inherited[p] \in 0 .. MAXSHARED
        /\ inherited[p] <= FirstFree(shared[q])
        /\ FirstFree(shared[q]) \in 0 .. MAXSHARED
        /\ FirstFree(shared[p]) \in 0 .. MAXSHARED
    BY <1>1, TypeFacts, PrefixFacts DEF KinGood
  <1>10. ASSUME NEW i \in Idx, i < inherited[p]
         PROVE  Covers(shared[q][i], Cur(q))
    <2>1. i < FirstFree(shared[q])
      BY <1>9, <1>10, ConstFacts DEF Idx
    <2> QED  BY <1>1, <2>1
  <1>11. KinGood("RUN", inherited[p], linked[p], exec[p], s, shared[p], e,
                 New(p), shared[q], Cur(q))
    BY <1>1, <1>4, <1>6, <1>9, <1>10, KinMore
  <1>12. Keeps(shared[p], Cur(p), shared'[p], Cur(p)')
    BY <1>4, <1>6, <1>7, <1>8, <1>9, ConstFacts DEF Keeps
  <1>13. Alone(p)
    BY <1>7, <1>8 DEF Alone
  <1>14. \A v \in VPN \ PrivVPN : Cur(p)'[v] = Cur(p)[v]
    BY <1>4, <1>6, <1>7
  <1>15. KinGood("RUN", inherited[p], linked[p], exec[p], sz'[p],
                 shared'[p], Cur(p)', New(p), shared[q], Cur(q))
    BY <1>7, <1>8, <1>11
  <1> QED  BY <1>0, <1>1, <1>7, <1>8, <1>9, <1>12, <1>13, <1>14, <1>15, OneIdle

\* The table that share_mem leaves.
LEMMA ShareTable ==
    ASSUME TypeOK, UseInv, TableInv, NEW p \in Proc, NEW r \in use.region,
           ShareMem(p, r)
    PROVE  \E t \in Tables, n \in Idx :
              /\ n = FirstFree(shared[p]) /\ shared'[p] = t
              /\ \A q \in Proc \ {p} : shared'[q] = shared[q]
              /\ t[n] = r /\ r \in Entry
              /\ \A i \in Idx \ {n} : t[i] = shared[p][i]
              /\ FirstFree(t) \in 0 .. MAXSHARED
              /\ r.sz = 0 => FirstFree(t) = n
              /\ r.sz # 0 => FirstFree(t) = n + 1
  <1>1. PICK s \in Tables : s = shared[p]
    BY PrefixFacts
  <1>2. PICK n \in Idx : n = FirstFree(s) /\ PrefixOf(s, n)
    BY <1>1, PrefixFacts, ConstFacts DEF ShareMem, Idx
  <1>3. PICK t \in Tables : /\ shared' = [shared EXCEPT ![p] = t]
                            /\ GoodTable(t, use.region)
    BY ShareGood
  <1>4. shared'[p] = t /\ \A q \in Proc \ {p} : shared'[q] = shared[q]
    BY <1>3, TypeFacts
  <1>5. t[n] = r /\ \A i \in Idx \ {n} : t[i] = s[i]
    <2>1. shared'[p] = [s EXCEPT ![n] = r]
      BY <1>1, <1>2, TypeFacts DEF ShareMem
    <2> QED  BY <1>4, <2>1 DEF Tables
  <1>6. /\ n \in 0 .. MAXSHARED /\ n + 1 \in 0 .. MAXSHARED
        /\ \A i \in Idx : /\ i < n + 1 <=> i < n \/ i = n
                          /\ ~(n < n)
    BY ConstFacts DEF Idx
  <1>7. ASSUME r.sz = 0 PROVE FirstFree(t) = n
    <2>1. PrefixOf(t, n)
      BY <1>2, <1>5, <1>6, <1>7 DEF PrefixOf
    <2> QED  BY <1>6, <2>1, FirstFreeIs
  <1>8. ASSUME r.sz # 0 PROVE FirstFree(t) = n + 1
    <2>1. PrefixOf(t, n + 1)
      BY <1>2, <1>5, <1>6, <1>8 DEF PrefixOf
    <2> QED  BY <1>6, <2>1, FirstFreeIs
  <1>9. r \in Entry
    BY <1>5 DEF Tables
  <1> QED  BY <1>1, <1>2, <1>4, <1>5, <1>6, <1>7, <1>8, <1>9

\* A region that ends below the size is mapped.
LEMMA RegionFilled ==
    ASSUME NEW e \in Entry, SizeFits(e), NEW s \in Nat, s < SHAREBASE,
           e.memstart + e.sz <= s, NEW c, Filled(s, c)
    PROVE  Covers(e, c)
  <1>1. PICK q \in Nat \ {0} :
           /\ PagesOf(e.sz) = q /\ PGROUNDUP(e.sz) = q * PGSIZE
           /\ q * PGSIZE \in Nat /\ q * PGSIZE <= Room /\ e.sz \in Nat \ {0}
    BY FitFacts
  <1>2. PICK a \in Nat, z \in Nat : a = e.memstart /\ z = e.sz
    BY <1>1, WordFacts DEF Entry, Addr
  <1>3. PICK m \in Nat, o \in Nat : /\ m = a \div PGSIZE /\ m * PGSIZE \in Nat
                                    /\ a = m * PGSIZE + o
    BY Offsets
  <1>4. q * PGSIZE < z + PGSIZE
    <2>1. z <= KERNBASE
      BY <1>2, <1>3, ConstFacts
    <2>2. PICK j \in Nat : PGROUNDUP(z) = j * PGSIZE /\ j * PGSIZE < z + PGSIZE
      BY <2>1, RoundUp
    <2> QED  BY <1>1, <1>2, <2>2
  <1>5. ASSUME NEW k \in 0 .. q - 1
        PROVE  m + k \in VPN /\ c[m + k] # NoPage
    <2>1. k \in Nat /\ k < q
      OBVIOUS
    <2>2. k * PGSIZE \in Nat /\ k * PGSIZE + PGSIZE <= q * PGSIZE
      BY <2>1, PageOrder
    <2>3. k * PGSIZE < z
      BY <1>1, <1>4, <2>2, ConstFacts
    <2>4. (m + k) * PGSIZE = m * PGSIZE + k * PGSIZE
      BY <2>1, ConstFacts
    <2>5. (m + k) * PGSIZE < s
      BY <1>2, <1>3, <2>2, <2>3, <2>4
    <2>6. m + k \in VPN
      <3>1. (m + k) * PGSIZE < NVPN * PGSIZE
        BY <1>3, <2>2, <2>4, <2>5, BaseFacts, ConstFacts
      <3>2. ~(NVPN <= m + k)
        <4>1. m + k \in Nat /\ NVPN \in Nat
          BY <2>1, BaseFacts
        <4>2. (m + k) * PGSIZE \in Nat /\ NVPN * PGSIZE \in Nat
          BY <4>1, PageOrder
        <4>3. ~(NVPN * PGSIZE <= (m + k) * PGSIZE)
          BY <3>1, <4>2
        <4> QED  BY <4>1, <4>3, PageOrder
      <3> QED  BY <2>1, <3>2, BaseFacts
    <2> QED  BY <2>5, <2>6 DEF Filled
  <1> QED  BY <1>1, <1>2, <1>3, <1>5 DEF Covers, RegionPage

\* share_mem registers memory that the process has.
LEMMA ShareShared ==
    ASSUME TypeOK, UseInv, TableInv, SharedInv, Fitting(use),
           NEW p \in Proc, NEW r \in use.region, ShareMem(p, r)
    PROVE  SharedInv'
  <1>0. /\ state[p] = "RUN" /\ exec[p] = NoExec /\ fault = "none"
        /\ p # initproc /\ (inherited[p] = 0 \/ linked[p] = "done")
        /\ r.memstart + r.sz <= sz[p]
    BY DEF ShareMem, CanRun, Idle, Ready, Disciplined, Fitting
  <1>1. PICK q \in Proc \ {p} :
           /\ Up(p) = q
           /\ KinGood("RUN", inherited[p], linked[p], exec[p], sz[p],
                      shared[p], Cur(p), New(p), shared[q], Cur(q))
    BY <1>0, ParentFacts DEF SharedInv
  <1>2. PICK t \in Tables, n \in Idx :
              /\ n = FirstFree(shared[p]) /\ shared'[p] = t
              /\ \A a \in Proc \ {p} : shared'[a] = shared[a]
              /\ t[n] = r /\ r \in Entry
              /\ \A i \in Idx \ {n} : t[i] = shared[p][i]
              /\ FirstFree(t) \in 0 .. MAXSHARED
              /\ r.sz = 0 => FirstFree(t) = n
              /\ r.sz # 0 => FirstFree(t) = n + 1
    BY ShareTable
  <1>3. \A a \in Proc : Cur(a)' = Cur(a) /\ New(a)' = New(a)
    BY DirFrame DEF ShareMem
  <1>4. UNCHANGED <<state, parent, sz, parentpgdir, exec, fault, inherited,
                    linked>>
    BY DEF ShareMem
  <1>5. /\ n \in Nat /\ n <= FirstFree(t) /\ inherited[p] \in Nat
        /\ inherited[p] <= n /\ inherited[p] <= FirstFree(t)
        /\ \A i \in Idx : i < n => i # n
        /\ \A i \in Idx : i < inherited[p] => i < n
        /\ \A i \in Idx : i < FirstFree(t) => i < n \/ (i = n /\ r.sz # 0)
    <2>1. inherited[p] \in 0 .. MAXSHARED /\ inherited[p] <= n
      BY <1>1, <1>2, TypeFacts DEF KinGood
    <2>2. n \in Nat /\ inherited[p] \in Nat /\ \A i \in Idx : i \in Nat
      BY <2>1, ConstFacts DEF Idx
    <2>3. FirstFree(t) = n \/ (FirstFree(t) = n + 1 /\ r.sz # 0)
      BY <1>2
    <2>4. PICK b \in Nat : /\ b = FirstFree(t)
                           /\ b = n \/ (b = n + 1 /\ r.sz # 0)
      BY <2>2, <2>3
    <2>5. /\ n <= b /\ inherited[p] <= b
          /\ \A i \in Idx : i < n => i # n
          /\ \A i \in Idx : i < inherited[p] => i < n
      BY <2>1, <2>2, <2>4
    <2>6. \A i \in Idx : i < b => i < n \/ (i = n /\ r.sz # 0)
      BY <2>2, <2>4
    <2> QED  BY <2>1, <2>2, <2>4, <2>5, <2>6
  <1>6. ASSUME r.sz # 0 PROVE SizeFits(r) /\ Covers(r, Cur(p))
    <2>1. SizeFits(r)
      <3>1. r.sz \in Int
        BY <1>2 DEF Entry
      <3> QED  BY <1>6, <3>1 DEF Fitting, SizeFits, Room
    <2>2. sz[p] \in Nat /\ sz[p] < SHAREBASE /\ Filled(sz[p], Cur(p))
      BY <1>1, ValueFacts DEF KinGood
    <2> QED  BY <1>0, <1>2, <2>1, <2>2, RegionFilled
  <1>7. ASSUME NEW i \in Idx, i < FirstFree(t)
        PROVE  SizeFits(t[i]) /\ Covers(t[i], Cur(p))
    <2>1. CASE i = n /\ r.sz # 0
      BY <1>2, <1>6, <2>1
    <2>2. CASE i < n
      BY <1>0, <1>1, <1>2, <1>5, <2>2 DEF KinGood
    <2> QED  BY <1>5, <1>7, <2>1, <2>2
  <1>8. \A i \in Idx : i < n => t[i] = shared[p][i]
    BY <1>2, <1>5
  <1>9. KinGood("RUN", inherited[p], linked[p], exec[p], sz[p], t, Cur(p),
                New(p), shared[q], Cur(q))
    <2>1. \A i \in Idx : i < inherited[p] => t[i] = shared[p][i]
      BY <1>5, <1>8
    <2> QED  BY <1>0, <1>1, <1>5, <1>7, <2>1 DEF KinGood
  <1>10. Keeps(shared[p], Cur(p), shared'[p], Cur(p)')
    BY <1>2, <1>3, <1>5, <1>8 DEF Keeps
  <1>11. Alone(p)
    BY <1>2, <1>3, <1>4 DEF Alone
  <1>12. KinGood("RUN", inherited[p], linked[p], exec[p], sz'[p],
                 shared'[p], Cur(p)', New(p), shared[q], Cur(q))
    BY <1>2, <1>3, <1>4, <1>9
  <1>13. FirstFree(shared'[p]) \in 0 .. MAXSHARED
    BY <1>2
  <1> QED  BY <1>0, <1>1, <1>3, <1>4, <1>10, <1>11, <1>12, <1>13, OneIdle

\* What fork finds, and what it stores in the slot.
LEMMA ForkFacts ==
    ASSUME TypeOK, UseInv, TableInv, AllGood, SharedInv, use.obeys,
           NEW p \in Proc, NEW np \in Proc, CanFork(p, np)
    PROVE  /\ Steady(p) /\ ~Steady(np) /\ np # p /\ np # initproc
           /\ state[np] = "UNUSED" /\ exec[np] = NoExec /\ fault = "none"
           /\ Filled(sz[p], Cur(p))
           /\ \A i \in Idx : i < FirstFree(shared[p]) => SizeFits(shared[p][i])
           /\ FirstFree(Inherit(p, np)) = FirstFree(shared[p])
           /\ \A i \in Idx : i < FirstFree(shared[p])
                 => Inherit(p, np)[i] = shared[p][i]
  <1>1. /\ state[p] = "RUN" /\ exec[p] = NoExec /\ fault = "none"
        /\ linked[p] # "started" /\ (inherited[p] = 0 \/ linked[p] = "done")
        /\ state[np] = "UNUSED"
    BY DEF CanFork, Idle, Obeys, Ready, Disciplined, FirstUnused
  <1>2. /\ Steady(p) /\ ~Steady(np) /\ np # p /\ np # initproc
        /\ exec[np] = NoExec
    BY <1>1 DEF Steady, SharedInv, FamilyInv, AllGood, MapsGood
  <1>3. /\ Filled(sz[p], Cur(p))
        /\ \A i \in Idx : i < FirstFree(shared[p]) => SizeFits(shared[p][i])
    <2>1. KinGood(state[p], inherited[p], linked[p], exec[p], sz[p], shared[p],
                  Cur(p), New(p), shared[Up(p)], Cur(Up(p)))
      BY DEF SharedInv, KinInv
    <2> QED  BY <1>1, <2>1 DEF KinGood
  <1>4. PICK n \in 0 .. MAXSHARED : /\ n = FirstFree(shared[p])
                                    /\ PrefixOf(shared[p], n)
    BY PrefixFacts
  <1>5. PICK t \in Tables : t = Inherit(p, np)
    BY InheritGood
  <1>6. \A i \in Idx : /\ i < n => t[i] = shared[p][i]
                       /\ ~(i < n) => t[i].sz = 0
    <2>1. \A i \in Idx : [shared[np][i] EXCEPT !.sz = 0].sz = 0
      BY TypeFacts DEF Tables, Entry
    <2> QED  BY <1>4, <1>5, <2>1 DEF Inherit
  <1>7. FirstFree(t) = n
    <2>1. PrefixOf(t, n)
      BY <1>4, <1>6 DEF PrefixOf
    <2> QED  BY <2>1, FirstFreeIs
  <1> QED  BY <1>1, <1>2, <1>3, <1>4, <1>5, <1>6, <1>7

\* fork: the child has copies of the parent's memory, and the parent's table.
LEMMA ForkShared ==
    ASSUME TypeOK, UseInv, TableInv, AllGood, SharedInv, Fitting(use),
           NEW p \in Proc, NEW np \in Proc, Fork(p, np)
    PROVE  SharedInv'
  <1>0. FamilyInv /\ KinInv /\ AncInv
    BY DEF SharedInv
  <1>1. /\ Steady(p) /\ ~Steady(np) /\ np # p /\ np # initproc
        /\ state[np] = "UNUSED" /\ exec[np] = NoExec /\ fault = "none"
        /\ \A i \in Idx : i < FirstFree(shared[p]) => SizeFits(shared[p][i])
        /\ FirstFree(Inherit(p, np)) = FirstFree(shared[p])
        /\ \A i \in Idx : i < FirstFree(shared[p])
              => Inherit(p, np)[i] = shared[p][i]
    BY ForkFacts DEF Fork, Fitting
  <1>2. PICK f \in KallocFor(UserPages(p)) :
           dir' = [dir EXCEPT ![<<np, "cur">>] = MapPages(EmptyDir, f)]
    BY DEF Fork
  <1>3. PICK e : e = MapPages(EmptyDir, f)
    OBVIOUS
  <1>4. (\A v \in VPN \ PrivVPN : e[v] = NoPage) /\ Filled(sz[p], e)
    <2>1. /\ f \in [UserPages(p) -> free] /\ free \subseteq Page
          /\ \A v \in VPN : v \in UserPages(p) <=> v * PGSIZE < sz[p]
      BY TypeFacts DEF KallocFor, UserPages
    <2>2. \A v \in VPN :
             /\ v \in UserPages(p) => e[v] = f[v] /\ f[v] # NoPage
             /\ v \notin UserPages(p) => e[v] = NoPage
      BY <1>3, <2>1, ConstFacts DEF MapPages, EmptyDir
    <2>3. ASSUME NEW v \in VPN, v * PGSIZE < sz[p] PROVE v \in PrivVPN
      <3>1. sz[p] \in Nat /\ sz[p] <= SHAREBASE
        <4>1. sz[p] \in Nat /\ sz[p] < SHAREBASE
          BY ValueFacts
        <4> QED  BY <4>1, ConstFacts
      <3> QED  BY <2>3, <3>1, PageNum
    <2> QED  BY <2>1, <2>2, <2>3 DEF Filled
  <1>5. /\ Cur(np)' = e /\ \A r \in Proc \ {np} : Cur(r)' = Cur(r)
        /\ \A r \in Proc : New(r)' = New(r)
    BY <1>2, <1>3, DirFrame
  <1>6. /\ state'[np] = "RUN" /\ parent'[np] = p /\ parentpgdir'[np] = p
        /\ sz'[np] = sz[p] /\ shared'[np] = Inherit(p, np)
        /\ inherited'[np] = FirstFree(shared[p]) /\ linked'[np] = "no"
        /\ exec' = exec /\ fault' = "none"
        /\ \A r \in Proc \ {np} :
              /\ state'[r] = state[r] /\ parent'[r] = parent[r]
              /\ parentpgdir'[r] = parentpgdir[r] /\ sz'[r] = sz[r]
              /\ shared'[r] = shared[r] /\ inherited'[r] = inherited[r]
              /\ linked'[r] = linked[r]
    <2>1. FirstFree(shared[p]) < MAXSHARED
      BY TableRoom DEF Fitting
    <2> QED  BY <1>1, <2>1, TypeFacts DEF Fork
  <1>7. FamilyInv'
    <2>1. /\ state'[initproc] = "RUN" /\ inherited'[initproc] = 0
          /\ linked'[initproc] = "no" /\ exec'[initproc] = NoExec
          /\ parent'[initproc] = NoProc /\ parentpgdir'[initproc] = Freed
      BY <1>0, <1>1, <1>6, WordFacts DEF FamilyInv
    <2>2. \A r \in Proc : exec'[r] = NoExec
                         => \A v \in VPN : New(r)'[v] = NoPage
      BY <1>0, <1>5, <1>6 DEF FamilyInv
    <2>3. \A q \in Proc : Steady(q) => Steady(q)'
      BY <1>1, <1>6 DEF Steady
    <2>4. ASSUME NEW r \in Proc \ {initproc}, state'[r] # "UNUSED"
          PROVE  \E q \in Proc \ {r} :
                    /\ parent'[r] = q /\ parentpgdir'[r] = q /\ Steady(q)'
      <3>1. CASE r = np
        BY <1>1, <1>6, <2>3, <3>1
      <3>2. CASE r # np
        <4>1. /\ state[r] # "UNUSED" /\ parent'[r] = parent[r]
              /\ parentpgdir'[r] = parentpgdir[r]
          BY <1>6, <2>4, <3>2
        <4>2. /\ parent[r] \in Proc \ {r} /\ parentpgdir[r] = parent[r]
              /\ Steady(parent[r])
          BY <1>0, <4>1 DEF FamilyInv
        <4> QED  BY <2>3, <4>1, <4>2
      <3> QED  BY <3>1, <3>2
    <2>5. ASSUME NEW r \in Proc \ {initproc}, state'[r] # "UNUSED"
          PROVE  /\ parent'[r] \in Proc \ {r} /\ parentpgdir'[r] = parent'[r]
                 /\ Steady(parent[r])'
      BY <2>4, <2>5
    <2> QED  BY <1>6, <2>1, <2>2, <2>5 DEF FamilyInv, New
  <1>8. KinInv'
    <2>1. ASSUME NEW r \in Proc \ {np}
          PROVE  /\ state'[r] = state[r] /\ inherited'[r] = inherited[r]
                 /\ linked'[r] = linked[r] /\ exec'[r] = exec[r]
                 /\ sz'[r] = sz[r] /\ shared'[r] = shared[r]
                 /\ Cur(r)' = Cur(r) /\ New(r)' = New(r)
                 /\ state[r] = "RUN" => Up(r)' = Up(r)
      BY <1>5, <1>6 DEF Up
    <2>2. FirstFree(shared[p]) \in 0 .. MAXSHARED
      BY PrefixFacts
    <2>3. KinGood("RUN", FirstFree(shared[p]), "no", NoExec, sz[p],
                  Inherit(p, np), e, New(np), shared[p], Cur(p))
      <3>1. \A i \in Idx : ~(i < 0)
        BY ConstFacts DEF Idx
      <3> QED  BY <1>1, <1>4, <2>2, <3>1, ConstFacts DEF KinGood
    <2>4. Up(np)' = p
      BY <1>1, <1>6 DEF Up
    <2>5. shared'[Up(np)'] = shared[p] /\ Cur(Up(np))' = Cur(p)
      <3>1. shared'[p] = shared[p] /\ Cur(p)' = Cur(p)
        BY <1>1, <1>5, <1>6
      <3> QED  BY <2>4, <3>1 DEF Cur
    <2>6. KinGood(state'[np], inherited'[np], linked'[np], exec'[np], sz'[np],
                  shared'[np], Cur(np)', New(np)', shared'[Up(np)'],
                  Cur(Up(np))')
      BY <1>1, <1>5, <1>6, <2>3, <2>5
    <2> QED  BY <1>0, <1>1, <2>1, <2>6, OneKin
  <1>9. AncInv'
    <2>1. PICK A \in [Proc -> SUBSET Proc] :
             \A r \in Proc : state[r] = "RUN" => Heir(A, r)
      BY <1>0 DEF AncInv
    <2>2. PICK B \in [Proc -> SUBSET Proc] :
             /\ B[np] = A[p] \cup {p} /\ \A r \in Proc \ {np} : B[r] = A[r]
      <3>1. [A EXCEPT ![np] = A[p] \cup {p}] \in [Proc -> SUBSET Proc]
        BY <2>1
      <3> QED  BY <2>1, <3>1
    <2>3. \A a \in Proc : Children(a) \subseteq Children(a)'
      BY <1>1, <1>6 DEF Children
    <2>4. Children(np) = {}
      BY <1>0, <1>1, WordFacts DEF FamilyInv, Children
    <2>5. ASSUME NEW r \in Proc, state[r] = "RUN"
          PROVE  np \notin A[r] /\ r # np /\ A[r] \subseteq Proc
      BY <1>1, <2>1, <2>4, <2>5 DEF Heir
    <2>6. ASSUME NEW r \in Proc \ {np}, state'[r] = "RUN" PROVE Heir(B, r)'
      <3>1. /\ state[r] = "RUN" /\ Heir(A, r) /\ parent'[r] = parent[r]
            /\ B[r] = A[r] /\ A[r] \subseteq Proc /\ np \notin A[r]
        BY <1>6, <2>1, <2>2, <2>5, <2>6
      <3>2. r # initproc => parent'[r] \in B[r] /\ B[parent'[r]] \subseteq B[r]
        <4> SUFFICES ASSUME r # initproc
                     PROVE  parent[r] \in A[r] /\ B[parent[r]] \subseteq A[r]
          BY <3>1
        <4>1. parent[r] \in A[r] /\ A[parent[r]] \subseteq A[r]
          BY <3>1 DEF Heir
        <4> QED  BY <2>2, <3>1, <4>1
      <3>3. \A a \in B[r] : \E c \in Children(a)' : c = r \/ c \in B[r]
        BY <2>3, <3>1 DEF Heir
      <3>4. ASSUME NEW v \in VPN \ PrivVPN,
                   NEW g \in {Cur(r)'[v], New(r)'[v]} \ {NoPage}
            PROVE  \E a \in B[r], w \in PrivVPN : Cur(a)'[w] = g
        <4>1. g \in {Cur(r)[v], New(r)[v]} \ {NoPage}
          BY <1>5
        <4>2. PICK a \in A[r], w \in PrivVPN : Cur(a)[w] = g
          BY <3>1, <4>1 DEF Heir
        <4>3. Cur(a)' = Cur(a)
          BY <1>5, <3>1
        <4> QED  BY <3>1, <4>2, <4>3
      <3> QED  BY <3>2, <3>3, <3>4 DEF Heir, Cur, New
    <2>7. Heir(B, np)'
      <3>1. Heir(A, p) /\ B[p] = A[p] /\ A[p] \subseteq Proc
        BY <1>1, <2>1, <2>2, <2>5 DEF Steady
      <3>2. parent'[np] \in B[np] /\ B[parent'[np]] \subseteq B[np]
        BY <1>6, <2>2, <3>1
      <3>3. ASSUME NEW a \in B[np]
            PROVE  \E c \in Children(a)' : c = np \/ c \in B[np]
        <4>1. CASE a = p
          BY <1>6, <4>1 DEF Children
        <4>2. CASE a # p
          <5>1. a \in A[p] /\ a \in Proc
            BY <2>2, <3>1, <4>2
          <5>2. PICK c \in Children(a) : c = p \/ c \in A[p]
            BY <3>1, <5>1 DEF Heir
          <5> QED  BY <2>2, <2>3, <5>1, <5>2
        <4> QED  BY <4>1, <4>2
      <3>4. \A v \in VPN : New(np)'[v] = NoPage
        BY <1>0, <1>1, <1>5 DEF FamilyInv
      <3>5. \A v \in VPN \ PrivVPN :
               \A g \in {Cur(np)'[v], New(np)'[v]} \ {NoPage} : FALSE
        BY <1>4, <1>5, <3>4
      <3> QED  BY <3>2, <3>3, <3>5 DEF Heir, Cur, New
    <2>8. \A r \in Proc : state'[r] = "RUN" => Heir(B, r)'
      BY <2>6, <2>7
    <2> QED  BY <2>2, <2>8 DEF AncInv
  <1> QED  BY <1>7, <1>8, <1>9 DEF SharedInv

\* Where linkphysaddr stands: region i, of n pages, is that of parent q; it goes
\* to the pages from m on, where there is room and nothing is mapped, and the
\* parent has all of its pages.
Placed(p, q, i, m, n) ==
    /\ Up(p) = q /\ parent[p] = q /\ exec[p].i = i
    /\ i < inherited[p] /\ linked[p] = "started"
    /\ exec[p].va = m * PGSIZE /\ Pages(p) = n
    /\ shared[p][i] = shared[q][i] /\ PagesOf(shared[q][i].sz) = n
    /\ \A v \in VPN : v >= m => New(p)[v] = NoPage
    /\ Target(p, 0) = m /\ m + n \in PrivN .. NVPN
    /\ (m + n) * PGSIZE <= SHAREBASE + (i + 1) * Room
    /\ (m + n) * PGSIZE < KERNBASE /\ ~TooHigh(p)
    /\ \A k \in 0 .. n - 1 :
          /\ Target(p, k) = m + k /\ m + k \in VPN
          /\ RegionPage(shared[q][i], k) \in VPN
          /\ WalkParent(p, k) = {Cur(q)[RegionPage(shared[q][i], k)]}
          /\ Cur(q)[RegionPage(shared[q][i], k)] # NoPage

\* That is where linkphysaddr stands when it links the next region.
LEMMA LinkPlace ==
    ASSUME TypeOK, UseInv, TableInv, AllGood, SharedInv, Fitting(use),
           NEW p \in Proc, LinkStep(p)
    PROVE  \E q \in Proc \ {p}, i \in Idx, m \in PrivN .. NVPN,
              n \in Nat \ {0} : Placed(p, q, i, m, n)
  <1>0. exec[p].pc = "link" /\ exec[p] \in Execs
    BY ValueFacts DEF LinkStep, InExec
  <1>1. PICK q \in Proc \ {p} :
           /\ Up(p) = q /\ parent[p] = q /\ parentpgdir[p] = q
           /\ \A i \in Idx : i < FirstFree(shared[q])
                 => SizeFits(shared[q][i]) /\ Covers(shared[q][i], Cur(q))
           /\ KinGood("RUN", inherited[p], linked[p], exec[p], sz[p],
                      shared[p], Cur(p), New(p), shared[q], Cur(q))
           /\ ExecGood(inherited[p], linked[p], exec[p], shared[p],
                       New(p), shared[q], Cur(q))
    BY <1>0, ExecFacts
  <1>2. PICK i \in Idx : i = exec[p].i
    BY <1>0, ConstFacts DEF LinkStep, Execs, Idx
  <1>3. PICK h \in Nat : /\ h = inherited[p] /\ h = FirstFree(shared[p])
                         /\ h < MAXSHARED /\ h <= FirstFree(shared[q])
    <2>1. inherited[p] \in 0 .. MAXSHARED
      BY TypeFacts
    <2>2. FirstFree(shared[p]) < MAXSHARED
      BY TableRoom DEF Fitting
    <2> QED  BY <1>1, <2>1, <2>2, ConstFacts DEF ExecGood, KinGood
  <1>4. i \in Nat /\ i < h /\ i + 1 < MAXSHARED /\ i < FirstFree(shared[q])
    <2>1. shared[p][i].sz # 0 /\ PrefixOf(shared[p], h)
      BY <1>2, <1>3, PrefixFacts DEF LinkStep
    <2>2. i < h /\ i \in Nat
      BY <2>1, ConstFacts DEF PrefixOf, Idx
    <2>3. FirstFree(shared[q]) \in 0 .. MAXSHARED
      BY PrefixFacts
    <2> QED  BY <1>3, <2>2, <2>3, ConstFacts
  <1>5. PICK e \in Entry :
           /\ e = shared[q][i] /\ e = shared[p][i]
           /\ SizeFits(e) /\ Covers(e, Cur(q))
    <2>1. shared[p][i] = shared[q][i]
      BY <1>1, <1>2, <1>3, <1>4 DEF ExecGood
    <2>2. shared[q][i] \in Entry
      BY TypeFacts DEF Tables
    <2> QED  BY <1>1, <1>4, <2>1, <2>2
  <1>6. PICK n \in Nat \ {0} :
           /\ PagesOf(e.sz) = n /\ n * PGSIZE \in Nat /\ n * PGSIZE <= Room
           /\ e.sz \in Nat \ {0} /\ e.sz % Word = e.sz
           /\ INT * e.sz \in Nat /\ INT * e.sz <= Room
           /\ (e.memstart % PGSIZE) + e.sz <= n * PGSIZE
    BY <1>5, FitFacts
  <1>7. /\ Room \in Nat /\ Room > 0 /\ i * Room \in Nat
        /\ (i + 1) * Room = i * Room + Room
        /\ SHAREBASE + (i + 1) * Room < KERNBASE
    <2>1. e.memstart % PGSIZE \in Nat
      <3>1. e.memstart \in Nat
        BY WordFacts DEF Entry, Addr
      <3> QED  BY <3>1, ConstFacts
    <2>2. Room \in Nat /\ Room > 0
      BY <1>6, <2>1, RoomFacts
    <2> QED  BY <1>4, <2>2, RoomFacts
  <1>8. PICK m \in PrivN .. NVPN :
           /\ exec[p].va = m * PGSIZE /\ exec[p].va <= SHAREBASE + i * Room
           /\ \A v \in VPN : v >= m => New(p)[v] = NoPage
    BY <1>1, <1>2 DEF ExecGood, Vacant
  <1>9. m \in Nat /\ PrivN <= m /\ m <= NVPN /\ NVPN \in Nat
    BY BaseFacts
  <1>10. PICK b \in Nat : /\ b = m * PGSIZE /\ b <= SHAREBASE + i * Room
                          /\ b <= KERNBASE /\ b = exec[p].va
    <2>1. m * PGSIZE \in Nat /\ m * PGSIZE <= NVPN * PGSIZE
      BY <1>9, PageOrder
    <2> QED  BY <1>8, <2>1, BaseFacts
  <1>11. /\ (m + n) * PGSIZE = b + n * PGSIZE
         /\ (m + n) * PGSIZE <= SHAREBASE + (i + 1) * Room
         /\ (m + n) * PGSIZE < KERNBASE
    <2>1. (m + n) * PGSIZE = m * PGSIZE + n * PGSIZE
      BY <1>9, ConstFacts
    <2> QED  BY <1>6, <1>7, <1>10, <2>1, ConstFacts
  <1>12. m + n \in Nat /\ m + n <= NVPN /\ m + n \in PrivN .. NVPN
    <2>1. m + n \in Nat
      BY <1>9
    <2>2. (m + n) * PGSIZE \in Nat /\ NVPN * PGSIZE \in Nat
      BY <1>9, <2>1, PageOrder
    <2>3. (m + n) * PGSIZE <= NVPN * PGSIZE
      BY <1>11, <2>2, BaseFacts
    <2>4. m + n <= NVPN
      BY <1>9, <2>1, <2>3, PageOrder
    <2> QED  BY <1>9, <2>1, <2>4, BaseFacts
  <1>13. \A k \in Int : Target(p, k) = m + k
    <2>1. PGROUNDUP(m * PGSIZE - 0) = m * PGSIZE
      <3>1. 0 \in Nat /\ 0 < PGSIZE /\ m * PGSIZE - 0 \in Nat
        BY <1>10, ConstFacts
      <3> QED  BY <1>9, <1>10, <3>1, RoundAt
    <2>2. PGROUNDUP(exec[p].va) = b /\ b \div PGSIZE = m
      <3>1. b \div PGSIZE = m
        BY <1>9, <1>10, ConstFacts
      <3> QED  BY <1>10, <2>1, <3>1
    <2> QED  BY <2>2 DEF Target
  <1>14. Pages(p) = n /\ USize(p) = e.sz
    BY <1>2, <1>5, <1>6 DEF Pages, USize, PagesOf
  <1>15. ~TooHigh(p)
    <2>1. PICK a \in Nat, W \in Nat :
             a = b + INT * e.sz /\ W = Word /\ a < W /\ a < KERNBASE
      <3>1. b + INT * e.sz < KERNBASE
        BY <1>6, <1>7, <1>10, ConstFacts
      <3>2. PICK a \in Nat : a = b + INT * e.sz /\ a < KERNBASE
        BY <1>6, <3>1
      <3> QED  BY <3>2, ConstFacts, WordFacts
    <2>2. a % W = a
      BY <2>1
    <2>3. PtrAdd(exec[p].va, USize(p)) = a
      BY <1>10, <1>14, <2>1, <2>2 DEF PtrAdd
    <2> QED  BY <2>1, <2>3, ConstFacts DEF TooHigh
  <1>16. ASSUME NEW k \in 0 .. n - 1
         PROVE  /\ m + k \in VPN /\ RegionPage(e, k) \in VPN
                /\ WalkParent(p, k) = {Cur(q)[RegionPage(e, k)]}
                /\ Cur(q)[RegionPage(e, k)] # NoPage
    <2>1. m + k \in VPN
      BY <1>9, <1>12, BaseFacts
    <2>2. Source(p, k) = RegionPage(e, k)
      <3>1. PICK a \in Nat : a = e.memstart
        BY WordFacts DEF Entry, Addr
      <3>2. PICK o \in Nat : o = a % PGSIZE /\ o < PGSIZE
        BY Offsets
      <3>3. k \in Nat /\ k * PGSIZE \in Nat
        BY ConstFacts
      <3>4. o + k * PGSIZE < n * PGSIZE
        <4>1. k * PGSIZE + PGSIZE <= n * PGSIZE
          BY <3>3, PageOrder
        <4> QED  BY <1>6, <3>2, <3>3, <4>1, ConstFacts
      <3>5. PICK j \in 0 .. n - 1 :
               /\ j = (o + k * PGSIZE) \div PGSIZE
               /\ ((e.memstart + k * PGSIZE) % Word) \div PGSIZE
                     = RegionPage(e, j)
        <4>1. \A j \in 0 .. n - 1 : RegionPage(e, j) \in VPN
          BY <1>5, <1>6 DEF Covers
        <4>2. (e.memstart % PGSIZE) + k * PGSIZE < n * PGSIZE
          BY <3>1, <3>2, <3>4
        <4>3. \E j \in 0 .. n - 1 :
                 /\ j = ((e.memstart % PGSIZE) + k * PGSIZE) \div PGSIZE
                 /\ ((e.memstart + k * PGSIZE) % Word) \div PGSIZE
                       = RegionPage(e, j)
          BY <3>3, <4>1, <4>2, BytePage
        <4> QED  BY <3>1, <3>2, <4>3
      <3>6. j = k
        <4>1. (k * PGSIZE + o) \div PGSIZE = k
          BY <3>2, <3>3, OffsetIs
        <4>2. o + k * PGSIZE = k * PGSIZE + o
          BY <3>2, <3>3
        <4> QED  BY <3>5, <4>1, <4>2
      <3> QED  BY <1>2, <1>5, <3>5, <3>6 DEF Source
    <2>3. RegionPage(e, k) \in VPN /\ Cur(q)[RegionPage(e, k)] # NoPage
      BY <1>5, <1>6 DEF Covers
    <2>4. parentpgdir[p] = q /\ parentpgdir[p] # Freed
      BY <1>1, WordFacts
    <2>5. WalkParent(p, k) = {Cur(q)[RegionPage(e, k)]}
      BY <2>2, <2>3, <2>4 DEF WalkParent, Present, Cur
    <2> QED  BY <2>1, <2>3, <2>5
  <1>17. linked[p] = "started"
    BY <1>1, <1>3, <1>4 DEF ExecGood
  <1>18. Target(p, 0) = m /\ \A k \in 0 .. n - 1 : Target(p, k) = m + k
    BY <1>9, <1>13
  <1>19. \A k \in 0 .. n - 1 :
            /\ Target(p, k) = m + k /\ m + k \in VPN
            /\ RegionPage(shared[q][i], k) \in VPN
            /\ WalkParent(p, k) = {Cur(q)[RegionPage(shared[q][i], k)]}
            /\ Cur(q)[RegionPage(shared[q][i], k)] # NoPage
    BY <1>5, <1>16, <1>18
  <1>20. /\ i < inherited[p] /\ exec[p].i = i
         /\ shared[p][i] = shared[q][i] /\ PagesOf(shared[q][i].sz) = n
    BY <1>2, <1>3, <1>4, <1>5, <1>6
  <1>21. Placed(p, q, i, m, n)
    BY <1>1, <1>8, <1>11, <1>12, <1>14, <1>15, <1>17, <1>18, <1>19, <1>20
       DEF Placed
  <1> QED  BY <1>21

\* No step of such programs ends in a panic or runs past the table, and mappa2va
\* links every region.
LEMMA NoFailure ==
    ASSUME TypeOK, UseInv, TableInv, AllGood, SharedInv, Fitting(use),
           NEW p \in Proc
    PROVE  ~Failing(p) /\ (Linking(p) => LinkOK(p))
  <1>1. ASSUME LinkStep(p)
        PROVE  /\ ~LinkTooHigh(p) /\ ~LinkMissing(p) /\ ~LinkNoTable(p)
               /\ ~LinkRemap(p)
    <2>1. PICK q \in Proc \ {p}, i \in Idx, m \in PrivN .. NVPN,
               n \in Nat \ {0} : Placed(p, q, i, m, n)
      BY <1>1, LinkPlace
    <2>2. m \in Nat
      BY BaseFacts
    <2>3. ASSUME NEW k \in 0 .. n - 1
          PROVE  /\ NoPage \notin WalkParent(p, k) /\ Target(p, k) \in VPN
                 /\ ~Present(dir[<<p, "new">>], Target(p, k))
      <3>1. /\ Target(p, k) = m + k /\ m + k \in VPN
            /\ NoPage \notin WalkParent(p, k)
        BY <2>1 DEF Placed
      <3>2. m + k >= m
        BY <2>2
      <3> QED  BY <2>1, <3>1, <3>2 DEF Placed, Present, New
    <2>4. ~TooHigh(p) /\ Pages(p) = n
      BY <2>1 DEF Placed
    <2>5. ~use.tablefail
      BY DEF Fitting
    <2>6. \A j \in 0 .. n - 1 : NoRemap(p, j + 1)
      <3>1. ASSUME NEW j \in 0 .. n - 1, NEW k \in 0 .. (j + 1) - 1
            PROVE  k \in 0 .. n - 1
        OBVIOUS
      <3> QED  BY <2>3, <3>1 DEF NoRemap
    <2> QED  BY <2>3, <2>4, <2>5, <2>6
             DEF LinkTooHigh, LinkMissing, LinkNoTable, NeedsTable, LinkRemap
  <1>2. ~LinkOverrun(p)
    <2> SUFFICES ASSUME exec[p].pc = "link", exec[p].i = MAXSHARED PROVE FALSE
      BY DEF LinkOverrun, InExec
    <2>1. /\ exec[p].i <= FirstFree(shared[p])
          /\ FirstFree(shared[p]) \in 0 .. MAXSHARED
      BY ExecFacts, PrefixFacts DEF ExecGood
    <2>2. FirstFree(shared[p]) < MAXSHARED
      BY TableRoom DEF Fitting
    <2> QED  BY <2>1, <2>2, ConstFacts
  <1>3. ASSUME NEW np \in Proc, ForkPanic(p, np) PROVE FALSE
    <2>1. Filled(sz[p], Cur(p))
      BY <1>3, ForkFacts DEF ForkPanic, Fitting
    <2> QED  BY <1>3, <2>1 DEF ForkPanic, Filled, UserPages, Present, Cur
  <1>4. Linking(p) => LinkStep(p)
    BY LinkingFacts
  <1>5. LinkRemap(p) => LinkStep(p)
    BY DEF LinkRemap
  <1> QED  BY <1>1, <1>2, <1>3, <1>4, <1>5 DEF Failing, Linking

\* What linkphysaddr maps: the parent's pages, from m on.
LEMMA LinkMaps ==
    ASSUME TypeOK, UseInv, NEW p \in Proc, NEW q \in Proc, NEW i \in Idx,
           NEW m \in PrivN .. NVPN, NEW n \in Nat \ {0},
           Placed(p, q, i, m, n), NEW w \in Walks(p, n)
    PROVE  /\ Linked(p, w) \in Dirs
           /\ \A k \in 0 .. n - 1 :
                 Linked(p, w)[m + k] = Cur(q)[RegionPage(shared[q][i], k)]
           /\ \A v \in VPN :
                 \/ Linked(p, w)[v] = New(p)[v]
                 \/ \E k \in 0 .. n - 1 : v = m + k
           /\ \A v \in VPN : New(p)[v] # NoPage => Linked(p, w)[v] = New(p)[v]
           /\ \A v \in VPN : v >= m + n => Linked(p, w)[v] = NoPage
  <1>1. m \in Nat /\ Target(p, 0) = m /\ \A v \in VPN : v \in Nat
    BY BaseFacts DEF Placed
  <1>2. /\ Linked(p, w) \in Dirs
        /\ \A v \in VPN : v < m \/ v >= m + n => Linked(p, w)[v] = New(p)[v]
    <2>1. n \in Nat
      OBVIOUS
    <2> QED  BY <1>1, <2>1, LinkedFacts DEF New
  <1>3. ASSUME NEW k \in 0 .. n - 1
        PROVE  Linked(p, w)[m + k] = Cur(q)[RegionPage(shared[q][i], k)]
    <2>1. DOMAIN w = 0 .. n - 1 /\ w[k] \in WalkParent(p, k)
      BY DEF Walks
    <2>2. /\ WalkParent(p, k) = {Cur(q)[RegionPage(shared[q][i], k)]}
          /\ m + k \in VPN
      BY DEF Placed
    <2>3. (m + k) - m = k
      BY <1>1
    <2>4. Linked(p, w)[m + k] = w[k]
      BY <1>1, <2>1, <2>2, <2>3 DEF Linked
    <2> QED  BY <2>1, <2>2, <2>4
  <1>4. ASSUME NEW v \in VPN, ~(v < m \/ v >= m + n)
        PROVE  \E k \in 0 .. n - 1 : v = m + k
    <2>1. v - m \in 0 .. n - 1 /\ v = m + (v - m)
      BY <1>1, <1>4
    <2> QED  BY <2>1
  <1>5. ASSUME NEW v \in VPN, New(p)[v] # NoPage PROVE v < m
    BY <1>1, <1>5 DEF Placed
  <1>6. \A v \in VPN : v >= m + n => v >= m /\ New(p)[v] = NoPage
    <2>1. \A v \in VPN : v >= m + n => v >= m
      BY <1>1
    <2> QED  BY <2>1 DEF Placed
  <1> QED  BY <1>2, <1>3, <1>4, <1>5, <1>6

\* linkphysaddr links a region: its new address has the parent's pages.
LEMMA LinkShared ==
    ASSUME TypeOK, UseInv, TableInv, AllGood, SharedInv, Fitting(use),
           NEW p \in Proc, LinkOK(p)
    PROVE  SharedInv'
  <1>0. exec[p].pc = "link" /\ exec[p] \in Execs /\ LinkStep(p)
    BY ValueFacts DEF LinkOK, LinkStep, InExec
  <1>1. PICK q \in Proc \ {p}, i \in Idx, m \in PrivN .. NVPN, n \in Nat \ {0} :
           Placed(p, q, i, m, n)
    BY <1>0, LinkPlace
  <1>2. /\ Up(p) = q /\ parent[p] = q
        /\ \A j \in Idx : j < FirstFree(shared[q])
              => SizeFits(shared[q][j]) /\ Covers(shared[q][j], Cur(q))
        /\ KinGood("RUN", inherited[p], linked[p], exec[p], sz[p],
                   shared[p], Cur(p), New(p), shared[q], Cur(q))
        /\ ExecGood(inherited[p], linked[p], exec[p], shared[p],
                    New(p), shared[q], Cur(q))
        /\ state[p] = "RUN" /\ p # initproc
    BY <1>0, <1>1, ExecFacts DEF Placed
  <1>3. PICK w \in Walks(p, n) :
           dir' = [dir EXCEPT ![<<p, "new">>] = Linked(p, w)]
    BY <1>1 DEF LinkOK, Placed
  <1>4. PICK e : e = Linked(p, w)
    OBVIOUS
  <1>5. /\ \A k \in 0 .. n - 1 :
              e[m + k] = Cur(q)[RegionPage(shared[q][i], k)]
        /\ \A v \in VPN : e[v] = New(p)[v] \/ \E k \in 0 .. n - 1 : v = m + k
        /\ \A v \in VPN : New(p)[v] # NoPage => e[v] = New(p)[v]
        /\ \A v \in VPN : v >= m + n => e[v] = NoPage
    BY <1>1, <1>3, <1>4, LinkMaps
  <1>6. /\ New(p)' = e /\ \A r \in Proc \ {p} : New(r)' = New(r)
        /\ \A r \in Proc : Cur(r)' = Cur(r)
    BY <1>3, <1>4, DirFrame
  <1>7. PICK s \in Tables, g \in Entry : s = shared[p] /\ g = s[i]
    BY PrefixFacts DEF Tables
  <1>8. PICK a \in Nat, o \in Nat :
           /\ a = m * PGSIZE + o /\ o = g.memstart % PGSIZE
           /\ LinkedStart(exec[p].va, g.memstart) = a
           /\ a \div PGSIZE = m /\ a % PGSIZE = o /\ a \in Addr
    <2>1. g.memstart \in Nat
      BY WordFacts DEF Entry, Addr
    <2>2. PICK o \in Nat : o = g.memstart % PGSIZE /\ o < PGSIZE
      BY <2>1, Offsets
    <2>3. m \in Nat /\ n \in Nat
      BY BaseFacts
    <2>4. PICK a \in Nat : /\ a = m * PGSIZE + o
                           /\ a \div PGSIZE = m /\ a % PGSIZE = o
      BY <2>2, <2>3, OffsetIs
    <2>5. a < KERNBASE
      <3>1. m * PGSIZE + PGSIZE <= (m + n) * PGSIZE /\ m * PGSIZE \in Nat
            /\ (m + n) * PGSIZE \in Nat
        BY <2>3, PageOrder
      <3>2. (m + n) * PGSIZE < KERNBASE
        BY <1>1 DEF Placed
      <3> QED  BY <2>2, <2>4, <3>1, <3>2, ConstFacts
    <2>6. PICK W \in Nat : W = Word /\ a < W
      BY <2>5, ConstFacts, WordFacts
    <2>7. a % W = a
      BY <2>6
    <2>8. exec[p].va = m * PGSIZE
      BY <1>1 DEF Placed
    <2>9. LinkedStart(exec[p].va, g.memstart) = a
      BY <2>2, <2>4, <2>6, <2>7, <2>8 DEF LinkedStart
    <2>10. a \in Addr
      BY <2>6 DEF Addr
    <2> QED  BY <2>2, <2>4, <2>9, <2>10
  <1>9. PICK z, t : /\ z = [g EXCEPT !.memstart = a] /\ t = [s EXCEPT ![i] = z]
    OBVIOUS
  <1>10. /\ t[i] = z /\ z.sz = g.sz /\ z.memstart = a
         /\ \A j \in Idx \ {i} : t[j] = s[j]
         /\ \A j \in Idx : t[j].sz = s[j].sz
    BY <1>7, <1>9 DEF Tables, Entry
  <1>11. exec[p].i = i /\ NextRegion(p, n * PGSIZE)
    BY <1>1 DEF Placed, LinkOK
  <1>12. shared'[p] = t /\ \A r \in Proc \ {p} : shared'[r] = shared[r]
    BY <1>7, <1>8, <1>9, <1>11, TypeFacts DEF NextRegion, Tables, Entry
  <1>13. PICK y : y = [exec[p] EXCEPT !.i = i + 1,
                                      !.va = Advance(exec[p].va, n * PGSIZE)]
    OBVIOUS
  <1>14. /\ y.pc = "link" /\ y.sz = exec[p].sz /\ y.i = i + 1
         /\ y.va = (m + n) * PGSIZE /\ y # NoExec
    <2>1. /\ y.pc = "link" /\ y.sz = exec[p].sz /\ y.i = i + 1
          /\ y.va = Advance(exec[p].va, n * PGSIZE)
      BY <1>0, <1>13 DEF Execs
    <2>2. m \in Nat /\ exec[p].va = m * PGSIZE /\ (m + n) * PGSIZE < KERNBASE
      BY <1>1, BaseFacts DEF Placed
    <2>3. (m + n) * PGSIZE = m * PGSIZE + n * PGSIZE /\ (m + n) * PGSIZE \in Nat
      BY <2>2, ConstFacts
    <2>4. PICK b \in Nat, W \in Nat : b = (m + n) * PGSIZE /\ W = Word /\ b < W
      BY <2>2, <2>3, ConstFacts, WordFacts
    <2>5. b % W = b
      BY <2>4
    <2>6. Advance(exec[p].va, n * PGSIZE) = b
      BY <2>2, <2>3, <2>4, <2>5 DEF Advance
    <2> QED  BY <2>1, <2>4, <2>6, ValueFacts
  <1>15. /\ exec'[p] = y /\ \A r \in Proc \ {p} : exec'[r] = exec[r]
         /\ UNCHANGED <<state, parent, sz, parentpgdir, inherited, linked>>
         /\ fault' = "none"
    BY <1>0, <1>11, <1>13, TypeFacts DEF NextRegion, Execs, LinkStep, InExec
  <1>16. PICK h \in Nat : /\ h = inherited[p] /\ h = FirstFree(s) /\ i < h
                          /\ h <= FirstFree(shared[q]) /\ h <= MAXSHARED
                          /\ FirstFree(shared[q]) \in 0 .. MAXSHARED
                          /\ PrefixOf(s, h) /\ i \in Nat
    <2>1. inherited[p] \in 0 .. MAXSHARED
      BY TypeFacts
    <2>2. inherited[p] = FirstFree(s) /\ i < inherited[p]
          /\ inherited[p] <= FirstFree(shared[q])
      BY <1>1, <1>2, <1>7 DEF ExecGood, KinGood, Placed
    <2> QED  BY <1>7, <2>1, <2>2, PrefixFacts, ConstFacts DEF Idx
  <1>17. FirstFree(t) = h
    <2>1. PrefixOf(t, h)
      BY <1>10, <1>16 DEF PrefixOf
    <2>2. t \in Tables /\ h \in 0 .. MAXSHARED
      <3>1. z \in Entry
        BY <1>8, <1>9 DEF Entry
      <3> QED  BY <1>9, <1>16, <3>1, ConstFacts DEF Tables
    <2> QED  BY <2>1, <2>2, FirstFreeIs
  <1>18. ASSUME NEW j \in Idx, j < h
         PROVE  SizeFits(shared[q][j]) /\ Covers(shared[q][j], Cur(q))
    <2>1. j < FirstFree(shared[q])
      BY <1>16, <1>18, ConstFacts DEF Idx
    <2> QED  BY <1>2, <2>1
  <1>19. Same(z, e, shared[q][i], Cur(q)) /\ SizeFits(z)
    <2>1. g = shared[q][i] /\ PagesOf(g.sz) = n
      BY <1>1, <1>7 DEF Placed
    <2>2. z.memstart % PGSIZE = g.memstart % PGSIZE /\ z.sz = g.sz
      BY <1>8, <1>10
    <2>3. \A k \in 0 .. n - 1 : /\ RegionPage(z, k) = m + k
                                /\ m + k \in VPN
      BY <1>1, <1>8, <1>10 DEF RegionPage, Placed
    <2>4. Same(z, e, shared[q][i], Cur(q))
      BY <1>5, <2>1, <2>2, <2>3 DEF Same
    <2>5. SizeFits(g)
      BY <1>16, <1>18, <2>1
    <2> QED  BY <2>2, <2>4, <2>5 DEF SizeFits
  <1>20. ASSUME NEW j \in Idx, j < i + 1
         PROVE  Same(t[j], e, shared[q][j], Cur(q))
    <2>1. CASE j = i
      BY <1>10, <1>19, <2>1
    <2>2. CASE j < i
      <3>1. j < h /\ j # i
        BY <1>16, <2>2, ConstFacts DEF Idx
      <3>2. Same(s[j], New(p), shared[q][j], Cur(q))
        BY <1>2, <1>7, <1>11, <2>2 DEF ExecGood
      <3>3. Same(s[j], e, shared[q][j], Cur(q))
        BY <1>5, <1>18, <3>1, <3>2, SameKept
      <3> QED  BY <1>10, <3>1, <3>3
    <2> QED  BY <1>16, <1>20, <2>1, <2>2, ConstFacts DEF Idx
  <1>21. Vacant(y, e)
    <2>1. /\ m + n \in PrivN .. NVPN
          /\ (m + n) * PGSIZE <= SHAREBASE + (i + 1) * Room
      BY <1>1 DEF Placed
    <2> QED  BY <1>5, <1>14, <2>1 DEF Vacant
  <1>22. Filled(y.sz, e)
    BY <1>2, <1>5, <1>14 DEF ExecGood, Filled
  <1>23. linked[p] = "started"
    BY <1>1 DEF Placed
  <1>24. ASSUME NEW j \in Idx, i + 1 <= j, j < h PROVE t[j] = shared[q][j]
    <2>1. j # i /\ i <= j
      BY <1>16, <1>24, ConstFacts DEF Idx
    <2> QED  BY <1>2, <1>7, <1>10, <1>11, <1>16, <1>24, <2>1 DEF ExecGood
  <1>25. ExecGood(h, linked[p], y, t, e, shared[q], Cur(q))
    <2>1. y.i <= h
      BY <1>14, <1>16
    <2> QED  BY <1>14, <1>17, <1>20, <1>21, <1>22, <1>23, <1>24, <2>1
             DEF ExecGood
  <1>26. ASSUME NEW j \in Idx, j < h PROVE SizeFits(t[j])
    <2>1. CASE j = i
      BY <1>10, <1>19, <2>1
    <2>2. CASE j # i
      BY <1>2, <1>7, <1>10, <1>16, <1>26, <2>2 DEF KinGood
    <2> QED  BY <2>1, <2>2
  <1>27. KinGood("RUN", h, linked[p], y, sz[p], t, Cur(p), e, shared[q],
                 Cur(q))
    <2>1. h # 0 /\ h <= h /\ Filled(sz[p], Cur(p))
      BY <1>2, <1>16 DEF KinGood
    <2> QED  BY <1>16, <1>17, <1>23, <1>25, <1>26, <2>1 DEF KinGood
  <1>28. Alone(p) /\ Stays(p)
    BY <1>2, <1>6, <1>12, <1>15 DEF Alone, Stays
  <1>29. ASSUME NEW v \in VPN \ PrivVPN,
                NEW b \in {Cur(p)'[v], New(p)'[v]} \ {NoPage}
         PROVE  Seen(p, b)
    <2>1. CASE b = Cur(p)[v] \/ b = New(p)[v]
      BY <2>1 DEF Seen
    <2>2. CASE b # Cur(p)[v] /\ b # New(p)[v]
      <3>1. b = e[v] /\ e[v] # New(p)[v]
        BY <1>6, <2>2
      <3>2. PICK k \in 0 .. n - 1 : v = m + k
        BY <1>5, <3>1
      <3>3. b = Cur(parent[p])[RegionPage(shared[q][i], k)]
        BY <1>2, <1>5, <3>1, <3>2
      <3>4. RegionPage(shared[q][i], k) \in VPN
        BY <1>1 DEF Placed
      <3> QED  BY <1>2, <3>3, <3>4 DEF Seen
    <2> QED  BY <2>1, <2>2
  <1>30. KinGood("RUN", inherited'[p], linked'[p], exec'[p], sz'[p],
                 shared'[p], Cur(p)', New(p)', shared[q], Cur(q))
    BY <1>6, <1>12, <1>15, <1>16, <1>27
  <1>31. exec'[p] # NoExec /\ state'[p] = "RUN"
    BY <1>2, <1>14, <1>15
  <1> QED  BY <1>0, <1>2, <1>15, <1>28, <1>29, <1>30, <1>31, OneExec

\* Every step keeps the invariant.
LEMMA SharedStep ==
    ASSUME TypeOK, UseInv, TableInv, PageInv, SharedInv, Fitting(use),
           [Next]_vars
    PROVE  SharedInv'
  <1>1. AllGood /\ use.obeys /\ Modest(use)
    BY DEF PageInv, Fitting
  <1>2. CASE UNCHANGED vars
    <2>1. UNCHANGED <<state, parent, sz, parentpgdir, shared, dir, exec,
                      fault, inherited, linked>>
      BY <1>2 DEF vars
    <2>2. \A p \in Proc : Cur(p)' = Cur(p) /\ New(p)' = New(p)
      BY <2>1, DirFrame
    <2>3. Alone(initproc) /\ Stays(initproc)
      BY <2>1, <2>2 DEF Alone, Stays
    <2>4. /\ FamilyInv /\ KinInv /\ initproc \in Proc
          /\ state[initproc] = "RUN" /\ inherited[initproc] = 0
          /\ linked[initproc] = "no" /\ exec[initproc] = NoExec
          /\ fault = "none" /\ \A v \in VPN : New(initproc)[v] = NoPage
      BY WordFacts DEF SharedInv, FamilyInv
    <2>5. /\ FirstFree(shared'[initproc]) \in 0 .. MAXSHARED
          /\ FirstFree(shared'[initproc]) = FirstFree(shared[initproc])
      BY <2>1, <2>4, PrefixFacts
    <2>6. Calm(initproc)
      BY <2>1, <2>2, <2>4, <2>5, ConstFacts DEF Calm, Steady, Keeps
    <2>7. Up(initproc) = initproc
      BY DEF Up
    <2>8. KinGood(state'[initproc], inherited'[initproc], linked'[initproc],
                  exec'[initproc], sz'[initproc], shared'[initproc],
                  Cur(initproc)', New(initproc)', shared'[Up(initproc)],
                  Cur(Up(initproc))')
      <3>1. Cur(Up(initproc))' = Cur(initproc)
        BY <2>2, <2>4 DEF Up, Cur
      <3> QED  BY <2>1, <2>2, <2>4, <2>7, <3>1 DEF KinInv
    <2>9. \A v \in VPN \ PrivVPN :
             \A g \in {Cur(initproc)'[v], New(initproc)'[v]} \ {NoPage} :
                Seen(initproc, g)
      BY <2>2, <2>4 DEF Seen
    <2> QED  BY <2>1, <2>2, <2>3, <2>4, <2>6, <2>8, <2>9, OneShared
  <1>3. ASSUME NEW p \in Proc, NEW n \in use.sbrk, Shrink(p, n) PROVE FALSE
    <2>1. n \in Int /\ n >= 0 /\ n < 0
      BY <1>3, UseFacts DEF Shrink, Fitting
    <2> QED  BY <2>1
  <1> QED  BY <1>1, <1>2, <1>3, Steps, NoFailure, ShareShared, GrowShared,
              ForkShared, NoMemShared, LoadShared, LinkShared, DoneShared,
              CommitShared, BadShared, ExitShared, WaitShared

\* At the start there is initproc, which has no parent.
LEMMA InitShared == Init => SharedInv
  <1> SUFFICES ASSUME Init PROVE SharedInv
    OBVIOUS
  <1>1. /\ fault = "none" /\ initproc \in Proc
        /\ \A p \in Proc :
              /\ exec[p] = NoExec /\ inherited[p] = 0 /\ linked[p] = "no"
              /\ parent[p] = NoProc /\ parentpgdir[p] = Freed
              /\ shared[p] = [i \in Idx |-> NoEntry]
              /\ p = initproc => state[p] = "RUN" /\ sz[p] = PGSIZE
              /\ p # initproc => state[p] = "UNUSED"
    BY WordFacts DEF Init
  <1>2. ASSUME NEW p \in Proc, NEW v \in VPN
        PROVE  /\ New(p)[v] = NoPage
               /\ v # 0 => Cur(p)[v] = NoPage
               /\ p = initproc /\ v = 0 => Cur(p)[v] # NoPage
    <2>1. <<p, "cur">> \in DirId /\ <<p, "new">> \in DirId
          /\ <<p, "new">> # <<initproc, "cur">>
      BY DEF DirId
    <2>2. InitPage # NoPage
      <3>1. UseInv
        BY DEF Init, UseInv
      <3> QED  BY <3>1, UseFacts, ConstFacts
    <2>3. dir[<<p, "new">>] = EmptyDir
      BY <2>1 DEF Init
    <2>4. CASE p = initproc
      <3>1. dir[<<p, "cur">>]
               = [u \in VPN |-> IF u = 0 THEN InitPage ELSE NoPage]
        BY <2>1, <2>4 DEF Init
      <3> QED  BY <2>2, <2>3, <3>1 DEF EmptyDir, Cur, New
    <2>5. CASE p # initproc
      <3>1. dir[<<p, "cur">>] = EmptyDir
        BY <2>1, <2>5 DEF Init
      <3> QED  BY <2>3, <2>5, <3>1 DEF EmptyDir, Cur, New
    <2> QED  BY <2>4, <2>5
  <1>3. FamilyInv
    BY <1>1, <1>2 DEF FamilyInv
  <1>4. KinInv
    <2> SUFFICES ASSUME NEW p \in Proc, p = initproc
                 PROVE  KinGood("RUN", 0, "no", NoExec, PGSIZE, shared[p],
                                Cur(p), New(p), shared[p], Cur(p))
      <3>1. ASSUME NEW p \in Proc
            PROVE  KinGood(state[p], inherited[p], linked[p], exec[p], sz[p],
                           shared[p], Cur(p), New(p), shared[Up(p)],
                           Cur(Up(p)))
        <4>1. CASE p = initproc
          <5>1. Up(p) = p
            BY <4>1 DEF Up
          <5> QED  BY <1>1, <4>1, <5>1
        <4>2. CASE p # initproc
          BY <1>1, <4>2 DEF KinGood
        <4> QED  BY <4>1, <4>2
      <3> QED  BY <3>1 DEF KinInv
    <2>1. FirstFree(shared[p]) = 0
      <3>1. 0 \in 0 .. MAXSHARED /\ \A i \in Idx : ~(i < 0)
        BY ConstFacts DEF Idx
      <3>2. shared[p] \in Tables /\ PrefixOf(shared[p], 0)
        <4>1. NoEntry \in Entry /\ NoEntry.sz = 0
          BY WordFacts DEF NoEntry, Entry
        <4> QED  BY <1>1, <3>1, <4>1 DEF Tables, PrefixOf
      <3> QED  BY <3>1, <3>2, FirstFreeIs
    <2>2. \A i \in Idx : ~(i < 0)
      BY ConstFacts DEF Idx
    <2>3. Filled(PGSIZE, Cur(p))
      <3>1. ASSUME NEW v \in VPN, v * PGSIZE < PGSIZE PROVE v = 0
        <4>1. v \in Nat /\ 0 \in Nat
          BY PageNum
        <4>2. ASSUME 0 < v PROVE PGSIZE <= v * PGSIZE
          <5>1. 0 * PGSIZE + PGSIZE <= v * PGSIZE
            BY <4>1, <4>2, PageOrder
          <5> QED  BY <5>1, ConstFacts
        <4>3. v * PGSIZE \in Nat
          BY <4>1, ConstFacts
        <4> QED  BY <3>1, <4>1, <4>2, <4>3, ConstFacts
      <3> QED  BY <1>2, <3>1 DEF Filled
    <2> QED  BY <2>1, <2>2, <2>3 DEF KinGood
  <1>5. AncInv
    <2>1. PICK A \in [Proc -> SUBSET Proc] : \A p \in Proc : A[p] = {}
      <3>1. [p \in Proc |-> {}] \in [Proc -> SUBSET Proc]
        OBVIOUS
      <3> QED  BY <3>1
    <2>2. Heir(A, initproc)
      <3>1. \A v \in VPN \ PrivVPN : v # 0
        BY BaseFacts
      <3> QED  BY <1>1, <1>2, <2>1, <3>1 DEF Heir
    <2> QED  BY <1>1, <2>1, <2>2 DEF AncInv
  <1> QED  BY <1>3, <1>4, <1>5 DEF SharedInv

\* What linkphysaddr promises holds for every number of processes and pages and
\* every page size: when programs follow primestart, with regions that lie in
\* the pages that mappa2va counts and fit below KERNBASE, the kernel neither
\* panics nor runs past the table; a child that has linked, a grandchild as
\* well, has every byte of the regions on its parent's pages at the same
\* offset; and no exit, wait or exec of any process frees such a page.
THEOREM SharedSafe == Spec => []SharedSound
  <1> DEFINE I == Fitting(use) => SharedInv
  <1>1. TypeOK /\ UseInv /\ TableInv /\ PageInv /\ I /\ [Next]_vars => I'
    <2> SUFFICES ASSUME TypeOK, UseInv, TableInv, PageInv, I, [Next]_vars,
                        Fitting(use)'
                 PROVE  SharedInv'
      OBVIOUS
    <2>1. use' = use
      BY Steps DEF vars
    <2>2. Fitting(use)
      BY <2>1 DEF Fitting, Modest
    <2> QED  BY <2>2, SharedStep
  <1>2. TypeOK /\ UseInv /\ TableInv /\ PageInv /\ I => SharedSound
    <2> SUFFICES ASSUME TypeOK, UseInv, TableInv, PageInv, I, Fitting(use)
                 PROVE  NoFault /\ NoDangling /\ SharedSame
      BY DEF SharedSound
    <2>1. Owned(dir, free, use.page)
      BY DEF PageInv, Fitting
    <2> QED  BY <2>1, SharedHolds
  <1>3. Init => I
    BY InitShared
  <1>4. TypeOK /\ UseInv /\ TableInv /\ PageInv /\ [Next]_vars => PageInv'
    BY PageStep
  <1> QED  BY <1>1, <1>2, <1>3, <1>4, InitPages, TableInvariance, PTL DEF Spec
=============================================================================
