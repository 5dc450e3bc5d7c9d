-------------------------- MODULE MCPoolRefinement --------------------------
(***************************************************************************)
(* A small instance of PoolRefinement for TLC.                             *)
(***************************************************************************)
EXTENDS PoolRefinement, TLC

\* Every build is paid for by one borrow(), so this bound never bites.
ASSUME BuildsSuffice == MaxBuilds >= MaxCalls

Symmetry == Permutations(Threads)
=============================================================================
