--------------------------- MODULE MCInstancePool ---------------------------
(***************************************************************************)
(* Small instances of InstancePool for TLC.                                *)
(***************************************************************************)
EXTENDS InstancePool, TLC

Symmetry == Permutations(Threads)
=============================================================================
