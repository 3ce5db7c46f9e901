---------------------------- MODULE MCProcTable ----------------------------
(***************************************************************************)
(* Instances of ProcTable for TLC: init and two more slots on two CPUs.    *)
(***************************************************************************)
EXTENDS ProcTable

\* Any pid but init's and the 0 of a slot that is not in use.
ForkedPids == 2 .. MaxPid
=============================================================================
