------------------------------- MODULE MCKmem -------------------------------
(***************************************************************************)
(* Instance of Kmem for TLC.                                               *)
(***************************************************************************)
EXTENDS Kmem

\* Boot and the second process's stack take four pages: two pages are left for
\* two processes, or one, which they compete for.
TwoMemories == {[calls |-> {"mem"}, late |-> {3, 4, 5, 6}],
                [calls |-> {"mem"}, late |-> {3, 4, 5}],
                [calls |-> {"sleep"}, late |-> {3, 4}]}
=============================================================================
