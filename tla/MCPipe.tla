------------------------------ MODULE MCPipe ------------------------------
(***************************************************************************)
(* Instances of Pipe for TLC: a pipe of one or two bytes, whose counters   *)
(* wrap after two rounds, and reads and writes that do not fit in it.      *)
(***************************************************************************)
EXTENDS Pipe, TLC

ProcPerms == Permutations(Proc)
=============================================================================
