---------------------------- MODULE MCTargetScan ----------------------------
(***************************************************************************)
(* Instances of TargetScan for TLC.                                        *)
(***************************************************************************)
EXTENDS TargetScan, TLC

CONSTANTS p1, p2, n1

Symmetry == Permutations(Procs)
=============================================================================
