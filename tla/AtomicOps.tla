----------------------------- MODULE AtomicOps -----------------------------
(***************************************************************************)
(* What the log promises to file system operations: the disk goes from one *)
(* state between operations to another, never to one in the middle of an   *)
(* operation, and a crash takes the system back to the last such state.    *)
(***************************************************************************)
CONSTANTS Proc, Block, Val

VARIABLES
    stable,   \* the blocks as they are after a crash and recovery
    cur,      \* the blocks as operations see them
    active    \* processes inside an operation

atomicVars == <<stable, cur, active>>

AtomicInit ==
    /\ stable \in [Block -> Val]
    /\ cur = stable
    /\ active = {}

Begin(p) ==
    /\ p \notin active
    /\ active' = active \cup {p}
    /\ UNCHANGED <<stable, cur>>

Write(p, b, v) ==
    /\ p \in active
    /\ cur' = [cur EXCEPT ![b] = v]
    /\ UNCHANGED <<stable, active>>

End(p) ==
    /\ active' = active \ {p}
    /\ UNCHANGED <<stable, cur>>

Commit ==
    /\ active = {}
    /\ stable' = cur
    /\ UNCHANGED <<cur, active>>

Crash ==
    /\ cur' = stable
    /\ active' = {}
    /\ UNCHANGED stable

AtomicNext ==
    \/ \E p \in Proc : Begin(p) \/ End(p)
    \/ \E p \in Proc, b \in Block, v \in Val : Write(p, b, v)
    \/ Commit \/ Crash

AtomicSpec == AtomicInit /\ [][AtomicNext]_atomicVars
=============================================================================
