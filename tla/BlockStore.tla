---------------------------- MODULE BlockStore ----------------------------
(***************************************************************************)
(* What the buffer cache promises: every block has one value, and a        *)
(* process that has a block has it alone until it gives it back.           *)
(***************************************************************************)
CONSTANTS Proc, Block, NoBlock, Val

VARIABLES
    value,   \* of a block
    has      \* the block that a process has

storeVars == <<value, has>>

StoreInit ==
    /\ value \in [Block -> Val]
    /\ has = [p \in Proc |-> NoBlock]

Get(p, k) ==
    /\ has[p] = NoBlock /\ \A q \in Proc : has[q] # k
    /\ has' = [has EXCEPT ![p] = k]
    /\ UNCHANGED value

Set(p, v) ==
    /\ has[p] # NoBlock
    /\ value' = [value EXCEPT ![has[p]] = v]
    /\ UNCHANGED has

Drop(p) ==
    /\ has' = [has EXCEPT ![p] = NoBlock]
    /\ UNCHANGED value

StoreNext ==
    \E p \in Proc : \/ Drop(p)
                    \/ \E k \in Block : Get(p, k)
                    \/ \E v \in Val : Set(p, v)

StoreSpec == StoreInit /\ [][StoreNext]_storeVars
=============================================================================
