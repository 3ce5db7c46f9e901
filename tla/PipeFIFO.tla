------------------------------ MODULE PipeFIFO ------------------------------
(***************************************************************************)
(* What a pipe promises: a bounded queue of bytes.  The bytes of a write   *)
(* enter it in their order, every byte leaves it once and in the order in  *)
(* which they came; a read takes what is there, up to what it asked for; a *)
(* write is cut short only at a full queue; each end closes once.          *)
(***************************************************************************)
EXTENDS Integers, Sequences

CONSTANTS Proc, Byte, Size

VARIABLES
    pending,            \* of a process: the bytes its write has still to put
    queue,              \* the bytes on their way
    out,                \* the bytes that the last read returned
    readable, writable  \* the two ends are open

fifoVars == <<pending, queue, out, readable, writable>>

FIFOInit ==
    /\ pending = [p \in Proc |-> <<>>]
    /\ queue = <<>> /\ out = <<>>
    /\ readable = TRUE /\ writable = TRUE

Begin(p) ==
    /\ writable /\ pending[p] = <<>>
    /\ pending'[p] \in Seq(Byte)
    /\ pending' = [pending EXCEPT ![p] = pending'[p]]
    /\ UNCHANGED <<queue, out, readable, writable>>

Put(p) ==
    /\ pending[p] # <<>> /\ writable /\ Len(queue) < Size
    /\ queue' = Append(queue, Head(pending[p]))
    /\ pending' = [pending EXCEPT ![p] = Tail(@)]
    /\ UNCHANGED <<out, readable, writable>>

GiveUp(p) ==
    /\ Len(queue) = Size
    /\ pending' = [pending EXCEPT ![p] = <<>>]
    /\ UNCHANGED <<queue, out, readable, writable>>

\* A read of nothing is possible at the end of the stream, or when it asks
\* for nothing.
Get(k) ==
    /\ k <= Len(queue) /\ readable
    /\ out' = SubSeq(queue, 1, k)
    /\ queue' = SubSeq(queue, k + 1, Len(queue))
    /\ UNCHANGED <<pending, readable, writable>>

CloseEnds ==
    /\ readable' \in BOOLEAN /\ writable' \in BOOLEAN
    /\ readable' => readable
    /\ writable' => writable
    /\ UNCHANGED <<pending, queue, out>>

FIFONext ==
    \/ \E p \in Proc : Begin(p) \/ Put(p) \/ GiveUp(p)
    \/ \E k \in 0 .. Size : Get(k)
    \/ CloseEnds

FIFOSpec == FIFOInit /\ [][FIFONext]_fifoVars
=============================================================================
