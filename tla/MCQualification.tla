-------------------------- MODULE MCQualification --------------------------
(***************************************************************************)
(* Instances of Qualification for TLC.                                     *)
(***************************************************************************)
EXTENDS Qualification, TLC

Symmetry == Permutations(Procs) \cup Permutations(Sets)
            \cup Permutations(Cohorts) \cup Permutations(Caps)
=============================================================================
