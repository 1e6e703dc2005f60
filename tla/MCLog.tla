------------------------------- MODULE MCLog -------------------------------
(***************************************************************************)
(* Log for TLC.  Processes, blocks and contents are interchangeable.       *)
(***************************************************************************)
EXTENDS Log, TLC

Symmetry ==
  Permutations(Procs) \cup Permutations(Blocks) \cup Permutations(Values)
=============================================================================
