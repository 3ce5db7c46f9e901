---------------------------- MODULE MCPrimeIPC ----------------------------
(***************************************************************************)
(* Bounds for TLC: primes up to 7 and an array that is one too short, so   *)
(* that primecalc also runs off its end.                                   *)
(***************************************************************************)
EXTENDS PrimeIPC

MaxIValue == 7
NIZValue == 4
=============================================================================
