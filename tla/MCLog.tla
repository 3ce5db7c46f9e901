------------------------------- MODULE MCLog -------------------------------
(***************************************************************************)
(* Instances of Log for TLC: two operations at once, of two blocks each.   *)
(***************************************************************************)
EXTENDS Log, TLC

Perms == Permutations(Block) \cup Permutations(Proc)
=============================================================================
