------------------------------- MODULE MCPipe -------------------------------
(***************************************************************************)
(* Pipe for TLC: a ring smaller than the largest write(), counters that    *)
(* wrap around, and interchangeable processes and bytes.                   *)
(***************************************************************************)
EXTENDS Pipe, TLC

Symmetry == Permutations(Procs) \cup Permutations(Bytes)
=============================================================================
