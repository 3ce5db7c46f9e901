------------------------------ MODULE MCShMem ------------------------------
(***************************************************************************)
(* Instances of ShMem for TLC.  A page has 4 bytes and an int 2, so a page *)
(* holds two ints; a process has at most SHAREBASE - 1 bytes of its own.   *)
(***************************************************************************)
EXTENDS ShMem, TLC

R(n, start, size) == [name |-> n, memstart |-> start, sz |-> size]

\* Regions that fit in one page, as primestart's index does.
OneRegion == {R("niz", 0, 4)}
SmallRegions == {R("index", 2, 2), R("niz", 0, 4)}

\* Regions of two pages, of size -1, and too large to be mapped at all.
AnyRegions == {R("niz", 0, 8), R("index", 2, -1), R("x", 2, 16)}

Workload(obeys, region, sbrk, tablefail, pages, procs) ==
    {[obeys |-> obeys, region |-> region, sbrk |-> sbrk,
      tablefail |-> tablefail, page |-> S, nproc |-> procs] :
        S \in {T \in SUBSET Page : InitPage \in T /\ Cardinality(T) = pages}}

\* Programs that follow primestart's protocol.
LikePrimestart == Workload(TRUE, SmallRegions, {}, FALSE, 5, 3)

\* Processes exit, exec and shrink whenever they like, allocations fail.
Anything == Workload(FALSE, OneRegion, {4, -4}, TRUE, 4, 3)

\* Sizes that share_mem does not refuse, and enough names for a full table.
AnySizes == Workload(FALSE, AnyRegions, {4, -4}, TRUE, 4, 2)

ThreeWorkloads == LikePrimestart \cup Anything \cup AnySizes

\* For the further configurations of the README.
OnlyOne == Workload(TRUE, OneRegion, {}, FALSE, 4, 3)
OnlyOneAny == Workload(FALSE, OneRegion, {}, FALSE, 5, 3)
Shrinking == Workload(TRUE, OneRegion, {4, -4}, FALSE, 4, 3)
Straddling == Workload(TRUE, {R("niz", 2, 4)}, {4, -4}, FALSE, 5, 3)
TwoPages == Workload(TRUE, {R("niz", 0, 8)}, {4}, TRUE, 6, 3)
TooLarge == Workload(FALSE, AnyRegions, {}, FALSE, 4, 2)
NoTables == Workload(TRUE, SmallRegions, {}, TRUE, 5, 3)

PagePerms == Permutations(Page \ {InitPage})
=============================================================================
