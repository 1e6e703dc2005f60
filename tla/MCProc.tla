------------------------------- MODULE MCProc -------------------------------
(***************************************************************************)
(* Proc for TLC.  The processes other than the first are interchangeable,  *)
(* and so are the CPUs.                                                    *)
(***************************************************************************)
EXTENDS Proc, TLC

Symmetry == Permutations(Procs \ {initproc}) \cup Permutations(CPUs)
=============================================================================
