----------------------------- MODULE LineQueue -----------------------------
(***************************************************************************)
(* What the console promises to its readers: a line can be edited until it *)
(* is complete, and then its characters are handed out once, in the order  *)
(* in which they were typed.                                               *)
(***************************************************************************)
EXTENDS Integers, Sequences, SequencesExt

CONSTANTS Char, NL, EOT, Size

VARIABLES
    ready,   \* characters of complete lines
    line     \* the line being typed

lineVars == <<ready, line>>

LineInit == ready = <<>> /\ line = <<>>

\* A character, unless there is no room; the end of a line makes it ready,
\* and so does a line that takes the last room there is.
Type(c) ==
    /\ Len(ready) + Len(line) < Size
    /\ IF c \in {NL, EOT} \/ Len(ready) + Len(line) + 1 = Size
       THEN ready' = ready \o Append(line, c) /\ line' = <<>>
       ELSE ready' = ready /\ line' = Append(line, c)

Erase == line # <<>> /\ line' = Front(line) /\ ready' = ready

KillLine == line' = <<>> /\ ready' = ready

Take == ready # <<>> /\ ready' = Tail(ready) /\ line' = line

LineNext == Erase \/ KillLine \/ Take \/ \E c \in Char : Type(c)

LineSpec == LineInit /\ [][LineNext]_lineVars
=============================================================================
