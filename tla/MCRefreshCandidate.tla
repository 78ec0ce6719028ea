------------------------- MODULE MCRefreshCandidate -------------------------
(***************************************************************************)
(* Instances of RefreshCandidate for TLC: one server is masked by one      *)
(* state of the inputs and blocked by the other.                           *)
(***************************************************************************)
EXTENDS RefreshCandidate, TLC

CONSTANTS p1, p2, n1, t1

MCTrees == {[inputs |-> 1, code |-> 1], [inputs |-> 2, code |-> 1]}
MCMaskedBy == <<{2}, {}>>
MCBlockedBy == <<{}, {2}>>

MCCodeTrees == {[inputs |-> 1, code |-> 1], [inputs |-> 1, code |-> 2]}
MCNobody == <<{}>>

\* The second server is masked or blocked: when an ordinary scan of it was
\* made is of no consequence, only whether there is one.
SecondRests == registry[2] \in {NoScan, 0}

\* No ordinary scan of the registry; RefreshOne has them.
RegistryRests == \A s \in Servers : registry[s] = NoScan

Symmetry == Permutations(Procs)
=============================================================================
