-------------------------- MODULE MCSitePublication --------------------------
(***************************************************************************)
(* Instances of SitePublication, with GradeReview, for TLC.                *)
(***************************************************************************)
EXTENDS SitePublication, TLC

\* A tree; one in which only the dependencies have changed; and one in which
\* everything has changed and was qualified anew.
Version(v, policy) ==
    [policy |-> policy, catalog |-> v, lock |-> v, sources |-> v, inputs |-> v,
     artifacts |-> v, corrections |-> v,
     receipts |-> [sources |-> v, inputs |-> v, artifacts |-> v]]

MCFiles ==
    <<Version(1, "source"), [Version(1, "source") EXCEPT !.inputs = 2, !.artifacts = 2],
      Version(2, "boundary")>>

\* No definition tells two admitted results from each other.
ResultSymmetry == Permutations(Results)

\* Operator packages and sites are built from the same receipts, and neither is
\* an input of the other: a behaviour makes one or the other.
OneProduct == package = Nothing \/ site = Nothing

\* An acceptance is written once, and what is made of a site reads no other
\* receipt: once there is a site, the review commands rest.
ReviewRests == site # Nothing /\ job # Nothing => job.op \in {"publish", "deploy"}
=============================================================================
