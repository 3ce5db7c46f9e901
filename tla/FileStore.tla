------------------------------ MODULE FileStore ------------------------------
(***************************************************************************)
(* What open files promise: a file is a string of bytes.  Whoever has the  *)
(* file's lock reads or overwrites it piece by piece, each piece at the    *)
(* offset where the one before it through the same open file ended, and    *)
(* nothing else changes a byte or an offset.                               *)
(***************************************************************************)
EXTENDS Integers, Sequences

CONSTANTS Proc, NoProc, Inum, File,
          Given      \* what the files may hold at first

VARIABLES content,   \* the bytes of each file
          open,      \* the file that an open file is on
          off,       \* its offset
          has,       \* who has the lock of a file
          using,     \* the open file that a process is in a call on
          todo,      \* what a process has still to write
          got        \* what a read has returned so far

storeVars == <<content, open, off, has, using, todo, got>>

StoreInit ==
    /\ content \in Given
    /\ open = [f \in File |-> 0] /\ off = [f \in File |-> 0]
    /\ has = [i \in Inum |-> NoProc]
    /\ using = [p \in Proc |-> 0]
    /\ todo = [p \in Proc |-> <<>>] /\ got = [p \in Proc |-> <<>>]

\* s with the bytes t from offset o on.
Overwrite(s, o, t) ==
    [j \in 1 .. (IF o + Len(t) > Len(s) THEN o + Len(t) ELSE Len(s)) |->
        IF j \in o + 1 .. o + Len(t) THEN t[j - o] ELSE s[j]]

InUse(f) == \E p \in Proc : using[p] = f

\* An open file comes, or goes.
Assign(f, i) ==
    /\ ~InUse(f)
    /\ open' = [open EXCEPT ![f] = i] /\ off' = [off EXCEPT ![f] = 0]
    /\ UNCHANGED <<has, using, todo, got, content>>

\* A call starts with the lock, and may let it go and take it again.
Call(p, f, s) ==
    /\ using[p] = 0 /\ open[f] # 0 /\ has[open[f]] = NoProc
    /\ using' = [using EXCEPT ![p] = f]
    /\ todo' = [todo EXCEPT ![p] = s]
    /\ has' = [has EXCEPT ![open[f]] = p]
    /\ UNCHANGED <<open, off, got, content>>

Take(p) ==
    /\ using[p] # 0 /\ has[open[using[p]]] = NoProc
    /\ has' = [has EXCEPT ![open[using[p]]] = p]
    /\ UNCHANGED <<open, off, using, todo, got, content>>

Write(p, k) ==
    LET f == using[p]
        i == open[f]
    IN  /\ f # 0 /\ has[i] = p
        /\ off' = [off EXCEPT ![f] = @ + k]
        /\ todo' = [todo EXCEPT ![p] = SubSeq(@, k + 1, Len(@))]
        /\ UNCHANGED <<open, has, using, got>>
        /\ content' = [content EXCEPT ![i] =
                          Overwrite(@, off[f], SubSeq(todo[p], 1, k))]

Read(p, k) ==
    LET f == using[p]
        i == open[f]
    IN  /\ f # 0 /\ has[i] = p /\ off[f] + k <= Len(content[i])
        /\ off' = [off EXCEPT ![f] = @ + k]
        /\ got' = [got EXCEPT ![p] = @ \o SubSeq(content[i], off[f] + 1, off[f] + k)]
        /\ UNCHANGED <<open, has, using, todo, content>>

\* The lock is released, the call may be over.
Drop(p) ==
    /\ using[p] # 0
    /\ has[open[using[p]]] \in {p, NoProc}
    /\ has' = [has EXCEPT ![open[using[p]]] = NoProc]
    /\ \/ UNCHANGED <<using, todo, got>>
       \/ /\ using' = [using EXCEPT ![p] = 0]
          /\ todo' = [todo EXCEPT ![p] = <<>>]
          /\ got' = [got EXCEPT ![p] = <<>>]
    /\ UNCHANGED <<open, off, content>>

\* A file that nobody has open is removed, by one who locks it.
Remove(p, i) ==
    /\ has[i] = NoProc /\ has' = [has EXCEPT ![i] = p]
    /\ \A f \in File : open[f] # i
    /\ UNCHANGED <<open, off, using, todo, got>>
    /\ content' = [content EXCEPT ![i] = <<>>]

Removed(p, i) ==
    /\ has[i] = p /\ content[i] = <<>>
    /\ has' = [has EXCEPT ![i] = NoProc]
    /\ UNCHANGED <<open, off, using, todo, got, content>>

StoreNext ==
    \/ \E f \in File : open'[f] \in Inum \cup {0} /\ Assign(f, open'[f])
    \/ \E p \in Proc :
          \/ \E f \in File : Call(p, f, todo'[p])
          \/ Take(p) \/ Drop(p)
          \/ \E k \in 1 .. Len(todo[p]) : Write(p, k)
          \/ /\ using[p] # 0
             /\ \E k \in 1 .. Len(content[open[using[p]]]) : Read(p, k)
          \/ \E i \in Inum : Remove(p, i) \/ Removed(p, i)

StoreSpec == StoreInit /\ [][StoreNext]_storeVars
=============================================================================
