----------------------------- MODULE GradeReview -----------------------------
(***************************************************************************)
(* The evidence pipeline of a grade refresh: src/mcp_trust/                *)
(* grade_refresh.py, with the commands of scripts/grade_refresh.py, and    *)
(* the operator package of src/mcp_trust/operator_package.py.  A preflight *)
(* receipt admits two candidates; triage compares them; the review turns   *)
(* triage into a proposal, an acceptance binds the proposal, a package     *)
(* binds preflight and triage.  Every command recomputes what the earlier  *)
(* ones wrote, one file after another, while the tracked files are edited, *)
(* candidate directories are replaced and the host capacity receipt of the *)
(* preflight runs out.                                                     *)
(*                                                                         *)
(* A tree is a state of all tracked files; Files names those that a        *)
(* command reads on its own.  An edit may return to an earlier tree.       *)
(* Receipts are created with O_EXCL, so a receipt is a value and its path  *)
(* is left out.                                                            *)
(***************************************************************************)
EXTENDS Naturals, FiniteSets

CONSTANTS
    Trees,          \* states of the tracked files
    Files,          \* Files[t]: the files of tree t that are read one by one
    Boundary,       \* the disposition policies that are boundary policies
    Results,        \* what a pair of candidates may have found
    Regular,        \* results with exactly the admitted findings
    CapacityAge,    \* HOST_CAPACITY_MAX_AGE_SECONDS
    MaxTime,        \* bound on the clock
    MaxEdits,       \* bound on the edits of the tracked files
    MaxSwaps,       \* bound on the replacements of a candidate directory
    MaxPreflights,  \* bound on the preflight receipts
    MaxTriages,     \* bound on the triage receipts
    Nothing         \* no file, no command

ASSUME GradeReviewConstants ==
    /\ Regular \subseteq Results /\ Trees \subseteq DOMAIN Files
    /\ {CapacityAge, MaxTime, MaxEdits, MaxSwaps, MaxPreflights, MaxTriages} \subseteq Nat

VARIABLES
    now,        \* the clock
    tree,       \* the tracked files as they are
    edits,      \* the number of edits
    swaps,      \* the number of replaced candidates
    preflights, \* the preflight receipts
    candidates, \* candidates[s]: the directory in slot s, or Nothing
    triages,    \* the triage receipts
    proposals,  \* the publication review decisions
    acceptance, \* the acceptance artifact and its policy, or Nothing
    package,    \* the operator package, or Nothing
    job         \* the command the operator runs, or Nothing

reviewVars == <<now, tree, edits, swaps, preflights, candidates, triages,
                proposals, acceptance, package>>

Slots == {"first", "repeat"}

Idle ==
    [op |-> "none", stage |-> "none", pass |-> 1, tree |-> Nothing,
     preflight |-> Nothing, triage |-> Nothing, proposal |-> Nothing,
     read |-> Nothing, repeat |-> Nothing, admitted |-> FALSE]

Doing(op, stage) == job # Nothing /\ job.op = op /\ job.stage = stage

Starts(j) == job = Nothing /\ job' = j

Goes(stage) == job' = [job EXCEPT !.stage = stage]

-----------------------------------------------------------------------------
(* Conditions.                                                             *)

\* source_binding: revision and digests of every tracked file.  Whether the
\* worktree is clean is a choice of ReadGates.
SourceBinding == tree

\* Seed, masking file and execution policy, which must agree.
CatalogInputs == Files[tree].catalog

DispositionPolicy == Files[tree].policy

\* The lock file of the scan engine.
EngineLock == Files[tree].lock

\* build_engine_materialization_receipt; the environment is left out.
EngineReceipt == [source |-> SourceBinding, lock |-> EngineLock]

\* A committed receipt of scripts/qualify_refresh_images.py names the build
\* source, the dependency manifests with their locks, and the descriptors of
\* the dependency artifacts from which the image was built.
QualificationReceipts == Files[tree].receipts
BuildSources == Files[tree].sources
DependencyInputs == Files[tree].inputs
DependencyArtifacts == Files[tree].artifacts

\* The qualification of the images, if the files are those their receipts name.
ImageQualification ==
    LET built == [sources |-> BuildSources, inputs |-> DependencyInputs,
                  artifacts |-> DependencyArtifacts]
    IN  IF QualificationReceipts = built THEN built ELSE Nothing

\* Receipt, dependency inputs and artifacts of a qualification are files of the
\* source t.
BoundTo(qualification, t) ==
    /\ qualification # Nothing
    /\ Files[t].receipts = qualification
    /\ Files[t].inputs = qualification.inputs /\ Files[t].artifacts = qualification.artifacts

\* require_current_host_capacity, at the real time whatever `now` the caller
\* passes.
CapacityCurrent(pf) == now <= pf.capacity + CapacityAge

\* The inventory of a READY preflight, read with its source, is the current one.
ReadyCatalog(pf) == Files[pf.source].catalog = CatalogInputs

\* The receipt contract of a READY preflight: its engine and its images, the
\* build source included, are of its source.
ReadyContract(pf) ==
    /\ pf.ready
    /\ pf.engine.source = pf.source
    /\ ReadyCatalog(pf)
    /\ BoundTo(pf.images, pf.source) /\ Files[pf.source].sources = pf.images.sources

\* The engine receipt of a preflight is built again and must come out the same.
EngineVerifies(pf) == pf.engine = EngineReceipt

\* So is the qualification of every image.
ImagesVerify(pf) == pf.images = ImageQualification

CatalogCurrent(pf) == pf.catalog = CatalogInputs

\* Mutant: a READY receipt is trusted.
ReceiptTrusted(pf) == pf.ready

\* revalidate_ready_preflight_qualifications.
Revalidates(pf) ==
    /\ ReadyContract(pf)
    /\ CapacityCurrent(pf)
    /\ EngineVerifies(pf)
    /\ ImagesVerify(pf)

\* verify_refresh_candidate reports publication_ready for the directory c.
CandidateVerifies(c) ==
    /\ c # Nothing
    /\ c.tree = tree
    /\ CatalogCurrent(c.preflight)
    /\ Revalidates(c.preflight)

\* The findings of triage: the exact admitted ones, or others.
FindingsOf(results) == IF results \in Regular THEN "admitted" ELSE "other"

-----------------------------------------------------------------------------
(* build_preflight_receipt.  The inventory, the policy and the source are  *)
(* read first, the digests of the catalog files last.                      *)

StartPreflight ==
    /\ Cardinality(preflights) < MaxPreflights
    /\ Starts([Idle EXCEPT !.op = "preflight", !.stage = "gates", !.tree = SourceBinding])
    /\ UNCHANGED reviewVars

\* A clean source, a current capacity receipt, and an engine receipt that can be
\* reproduced and names the source read before.
ReadGates ==
    /\ Doing("preflight", "gates")
    /\ \E clean \in BOOLEAN, capacity \in 0..now :
          job' = [job EXCEPT !.stage = "images",
                    !.read = [capacity |-> capacity, engine |-> EngineReceipt,
                              ready |-> /\ clean /\ EngineReceipt.source = job.tree
                                        /\ now <= capacity + CapacityAge]]
    /\ UNCHANGED reviewVars

\* Docker, its images, and their qualification receipts, whose tracked inputs
\* must be files of the source read before.
ReadImages ==
    /\ Doing("preflight", "images")
    /\ \E bound \in BOOLEAN :
          job' = [job EXCEPT !.stage = "catalog",
                    !.read = [capacity |-> @.capacity, engine |-> @.engine,
                              images |-> ImageQualification,
                              ready |-> /\ @.ready /\ bound
                                        /\ BoundTo(ImageQualification, job.tree)]]
    /\ UNCHANGED reviewVars

WritePreflight ==
    /\ Doing("preflight", "catalog")
    /\ preflights' = preflights \cup
          {[source |-> job.tree, engine |-> job.read.engine,
            images |-> job.read.images, catalog |-> CatalogInputs,
            capacity |-> job.read.capacity, ready |-> job.read.ready]}
    /\ job' = Nothing
    /\ UNCHANGED <<now, tree, edits, swaps, candidates, triages, proposals, acceptance, package>>

-----------------------------------------------------------------------------
(* triage_candidate, which the review, the acceptance and the package run  *)
(* again on the candidates as they are then.                               *)

StartTriage(pf) ==
    /\ Cardinality(triages) < MaxTriages
    /\ Starts([Idle EXCEPT !.op = "triage", !.stage = "results", !.preflight = pf])
    /\ UNCHANGED reviewVars

\* scan_results.json and MANIFEST.json, before the directory is verified.
ReadResults ==
    /\ job # Nothing /\ job.stage = "results"
    /\ candidates["first"] # Nothing
    /\ job' = [job EXCEPT !.stage = "first", !.read = candidates["first"]]
    /\ UNCHANGED reviewVars

VerifyFirst ==
    /\ job # Nothing /\ job.stage = "first"
    /\ job' = [job EXCEPT !.stage = "repeat",
                 !.admitted = /\ CandidateVerifies(candidates["first"])
                              /\ job.preflight.ready
                              /\ CatalogCurrent(job.preflight)
                              /\ job.read.preflight = job.preflight]
    /\ UNCHANGED reviewVars

VerifyRepeat ==
    /\ job # Nothing /\ job.stage = "repeat"
    /\ candidates["repeat"] # Nothing
    /\ LET second == candidates["repeat"]
       IN  job' = [job EXCEPT !.stage = "projections", !.repeat = second,
                     !.admitted = /\ @
                                  /\ CandidateVerifies(second)
                                  /\ second.tree = job.read.tree
                                  /\ second.preflight = job.read.preflight]
    /\ UNCHANGED reviewVars

Projection(slot) == candidates[slot].results

CompareProjections ==
    /\ job # Nothing /\ job.stage = "projections"
    /\ job' = [job EXCEPT !.stage = "digest",
                 !.admitted = @ /\ Projection("first") = Projection("repeat")]
    /\ UNCHANGED reviewVars

\* The digest of the first candidate is taken last.
TriageReceipt ==
    [candidate |-> candidates["first"], repeat |-> job.repeat,
     preflight |-> job.preflight,
     findings |-> IF job.admitted THEN FindingsOf(job.read.results) ELSE "other"]

WriteTriage ==
    /\ Doing("triage", "digest")
    /\ triages' = triages \cup {TriageReceipt}
    /\ job' = Nothing
    /\ UNCHANGED <<now, tree, edits, swaps, preflights, candidates, proposals, acceptance, package>>

\* A review, an acceptance or a package goes on with the receipt it was given
\* only if triage finds the same again.
Recomputed(next) ==
    /\ job # Nothing /\ job.stage = "digest"
    /\ job.triage = TriageReceipt
    /\ job' = [job EXCEPT !.stage = next, !.read = Nothing, !.repeat = Nothing]
    /\ UNCHANGED reviewVars

-----------------------------------------------------------------------------
(* build_publication_review_decision and build_v132_boundary_acceptance.   *)

\* The inventory and the disposition policy are read first.
StartReview(triage) ==
    /\ Starts([Idle EXCEPT !.op = "review", !.stage = "results", !.tree = DispositionPolicy,
                 !.preflight = triage.preflight, !.triage = triage])
    /\ UNCHANGED reviewVars

\* Mutant: the proposal is accepted as it is.
StartAcceptAsProposed(proposal) ==
    /\ acceptance = Nothing
    /\ DispositionPolicy \in Boundary
    /\ Starts([Idle EXCEPT !.op = "accept", !.stage = "artifact",
                 !.triage = proposal.triage, !.proposal = proposal])
    /\ UNCHANGED reviewVars

StartAccept(proposal) ==
    /\ acceptance = Nothing
    /\ DispositionPolicy \in Boundary
    /\ Starts([Idle EXCEPT !.op = "accept", !.stage = "results", !.tree = DispositionPolicy,
                 !.preflight = proposal.triage.preflight,
                 !.triage = proposal.triage, !.proposal = proposal])
    /\ UNCHANGED reviewVars

RecomputeTriage ==
    /\ job # Nothing /\ job.op \in {"review", "accept", "confirm"}
    /\ job.triage.findings = "admitted"
    /\ Recomputed("evidence")

\* The evidence of the dispositions is projected from the directories once
\* more, and both must agree.
ReadEvidence ==
    /\ job # Nothing /\ job.stage = "evidence"
    /\ candidates["repeat"] # Nothing
    /\ Projection("first") = Projection("repeat")
    /\ job' = [job EXCEPT !.stage = "decision", !.read = Projection("first")]
    /\ UNCHANGED reviewVars

\* The disposition policy was read at the start; its digest is taken now.
Decision ==
    [policy |-> job.tree, digest |-> DispositionPolicy, triage |-> job.triage,
     evidence |-> job.read]

DecisionBuilds == job.preflight.ready /\ CatalogCurrent(job.preflight)

WriteProposal ==
    /\ Doing("review", "decision")
    /\ DecisionBuilds
    /\ proposals' = proposals \cup {Decision}
    /\ job' = Nothing
    /\ UNCHANGED <<now, tree, edits, swaps, preflights, candidates, triages, acceptance, package>>

\* The decision recomputed under the proposed policy is the proposal.
ReproduceProposal ==
    /\ Doing("accept", "decision")
    /\ DecisionBuilds
    /\ Decision = job.proposal
    /\ job' = [job EXCEPT !.stage = "artifact", !.read = Nothing]
    /\ UNCHANGED reviewVars

\* The artifact is written before the policy that names it.
WriteArtifact ==
    /\ Doing("accept", "artifact")
    /\ acceptance = Nothing
    /\ acceptance' = [kind |-> "boundary", proposal |-> job.proposal, policy |-> FALSE]
    /\ Goes("policy")
    /\ UNCHANGED <<now, tree, edits, swaps, preflights, candidates, triages, proposals, package>>

WriteAcceptedPolicy ==
    /\ Doing("accept", "policy")
    /\ acceptance' = [acceptance EXCEPT !.policy = TRUE]
    /\ job' = Nothing
    /\ UNCHANGED <<now, tree, edits, swaps, preflights, candidates, triages, proposals, package>>

\* The acceptance of a review under the older policy is written by hand.  It
\* names the digest of the proposal and recomputes nothing.
AcceptSource(proposal) ==
    /\ job = Nothing
    /\ acceptance = Nothing
    /\ proposal.policy \notin Boundary
    /\ acceptance' = [kind |-> "source", proposal |-> proposal, policy |-> TRUE]
    /\ UNCHANGED <<now, tree, edits, swaps, preflights, candidates, triages, proposals, package, job>>

\* The review runs again under the accepted policy, which names the accepted
\* review: what artifact and policy say of it must agree.
AcceptedReview == acceptance.proposal

StartConfirm(triage) ==
    /\ acceptance # Nothing /\ acceptance.policy
    /\ Starts([Idle EXCEPT !.op = "confirm", !.stage = "results",
                 !.preflight = triage.preflight, !.triage = triage,
                 !.proposal = AcceptedReview])
    /\ UNCHANGED reviewVars

\* Its dispositions and its forward baseline must be those of the accepted review.
Confirms ==
    /\ Doing("confirm", "decision")
    /\ DecisionBuilds
    /\ job.read = job.proposal.evidence
    /\ job.triage = job.proposal.triage

\* Nothing modelled here reads the confirmation.
WriteConfirmation == Confirms /\ job' = Nothing /\ UNCHANGED reviewVars

-----------------------------------------------------------------------------
(* build_operator_review_package reads its inputs three times: to generate *)
(* the content, to verify it under a temporary name, and to verify it      *)
(* under its own name.                                                     *)

PackageOf(j) == [preflight |-> j.preflight, triage |-> j.triage]

\* verify_operator_review_package: the directory holds the content the inputs
\* generate.
PackageHolds(j) == package = PackageOf(j)

StartPackage(pf, triage) ==
    /\ package = Nothing
    /\ triage # Nothing => triage.preflight = pf
    /\ Starts([Idle EXCEPT !.op = "package", !.preflight = pf, !.triage = triage,
                 !.stage = IF triage = Nothing THEN "inputs" ELSE "results"])
    /\ UNCHANGED reviewVars

RecomputePackagedTriage ==
    /\ job # Nothing /\ job.op = "package"
    /\ Recomputed("inputs")

\* Catalog inputs and source are current; a READY preflight is built again and
\* must come out the same, its capacity included.
CurrentEvidence(pf) ==
    /\ pf.source = SourceBinding
    /\ CatalogCurrent(pf)
    /\ pf.ready => Revalidates(pf)

\* Mutant: the last verification comes before the rename.
PackageInputsUnnamed ==
    /\ Doing("package", "inputs")
    /\ CurrentEvidence(job.preflight)
    /\ job' = IF job.pass = 3 THEN Nothing ELSE [job EXCEPT !.pass = @ + 1]
    /\ UNCHANGED reviewVars

PackageInputs ==
    /\ Doing("package", "inputs")
    /\ CurrentEvidence(job.preflight)
    /\ IF job.pass = 2 THEN Goes("rename")
       ELSE IF job.pass = 3 THEN PackageHolds(job) /\ job' = Nothing
       ELSE job' = [job EXCEPT !.pass = 2,
                      !.stage = IF job.triage = Nothing THEN "inputs" ELSE "results"]
    /\ UNCHANGED reviewVars

RenamePackage ==
    /\ Doing("package", "rename")
    /\ package = Nothing
    /\ package' = PackageOf(job)
    /\ job' = [job EXCEPT !.pass = 3,
                 !.stage = IF job.triage = Nothing THEN "inputs" ELSE "results"]
    /\ UNCHANGED <<now, tree, edits, swaps, preflights, candidates, triages, proposals, acceptance>>

\* A final readback that fails removes the directory this build renamed.
RemovePackage ==
    /\ job # Nothing /\ job.op = "package" /\ job.pass = 3
    /\ package' = Nothing
    /\ job' = Nothing
    /\ UNCHANGED <<now, tree, edits, swaps, preflights, candidates, triages, proposals, acceptance>>

-----------------------------------------------------------------------------
(* The environment.                                                        *)

\* create_refresh_candidate succeeds; RefreshCandidate has its steps.
MakeCandidate(slot, pf, results) ==
    /\ job = Nothing
    /\ candidates[slot] = Nothing
    /\ CatalogCurrent(pf) /\ Revalidates(pf)
    /\ candidates' = [candidates EXCEPT ![slot] =
                        [tree |-> tree, preflight |-> pf, results |-> results]]
    /\ UNCHANGED <<now, tree, edits, swaps, preflights, triages, proposals, acceptance, package, job>>

\* The owner of a candidate directory puts another candidate in its place.
Swap(slot, results) ==
    /\ swaps < MaxSwaps
    /\ candidates[slot] # Nothing
    /\ candidates[slot].results # results
    /\ candidates' = [candidates EXCEPT ![slot].results = results]
    /\ swaps' = swaps + 1
    /\ UNCHANGED <<now, tree, edits, preflights, triages, proposals, acceptance, package, job>>

Edit(t) ==
    /\ edits < MaxEdits
    /\ t # tree
    /\ tree' = t
    /\ edits' = edits + 1
    /\ UNCHANGED <<now, swaps, preflights, candidates, triages, proposals, acceptance, package, job>>

Tick ==
    /\ now < MaxTime
    /\ now' = now + 1
    /\ UNCHANGED <<tree, edits, swaps, preflights, candidates, triages, proposals, acceptance, package, job>>

\* A refused check, an error or a kill.
Stop ==
    /\ job # Nothing
    /\ job' = Nothing
    /\ UNCHANGED reviewVars

ReviewInit ==
    /\ now = 0
    /\ tree \in Trees
    /\ edits = 0 /\ swaps = 0
    /\ preflights = {} /\ triages = {} /\ proposals = {}
    /\ candidates = [s \in Slots |-> Nothing]
    /\ acceptance = Nothing /\ package = Nothing
    /\ job = Nothing

Preflighting == StartPreflight \/ ReadGates \/ ReadImages \/ WritePreflight

Triaging ==
    \/ \E pf \in preflights : StartTriage(pf)
    \/ ReadResults \/ VerifyFirst \/ VerifyRepeat \/ CompareProjections \/ WriteTriage

Reviewing ==
    \/ \E t \in triages : StartReview(t) \/ StartConfirm(t)
    \/ \E p \in proposals : StartAccept(p) \/ AcceptSource(p)
    \/ RecomputeTriage \/ ReadEvidence \/ WriteProposal
    \/ ReproduceProposal \/ WriteArtifact \/ WriteAcceptedPolicy \/ WriteConfirmation

Packaging ==
    \/ \E pf \in preflights, t \in triages \cup {Nothing} : StartPackage(pf, t)
    \/ RecomputePackagedTriage \/ PackageInputs \/ RenamePackage \/ RemovePackage

Environment ==
    \/ \E s \in Slots, pf \in preflights, r \in Results : MakeCandidate(s, pf, r)
    \/ \E s \in Slots, r \in Results : Swap(s, r)
    \/ \E t \in Trees : Edit(t)
    \/ Tick \/ Stop

ReviewNext == Preflighting \/ Triaging \/ Reviewing \/ Packaging \/ Environment

ReviewSpec == ReviewInit /\ [][ReviewNext]_<<reviewVars, job>>

-----------------------------------------------------------------------------
(* Properties.                                                             *)

\* What the receipts are made of.
Policies == {Files[t].policy : t \in Trees}
Engines == [source : Trees, lock : {Files[t].lock : t \in Trees}]
Qualifications == {Files[t].receipts : t \in Trees} \cup {Nothing}
Preflights == [source : Trees, engine : Engines, images : Qualifications,
               catalog : {Files[t].catalog : t \in Trees}, capacity : Nat,
               ready : BOOLEAN]
Candidates == [tree : Trees, preflight : Preflights, results : Results]

ASSUME NothingIsNoCandidate == Nothing \notin Candidates

Triages == [candidate : Candidates, repeat : Candidates, preflight : Preflights,
            findings : {"admitted", "other"}]
Decisions == [policy : Policies, digest : Policies, triage : Triages,
              evidence : Results]
Acceptances == [kind : {"boundary", "source"}, proposal : Decisions,
                policy : BOOLEAN]
Packages == [preflight : Preflights, triage : Triages \cup {Nothing}]

\* Every receipt was made from receipts there are, the counters are within
\* their bounds, and a package that is read back is there.
ReviewTypeOK ==
    /\ now \in 0..MaxTime /\ tree \in Trees
    /\ edits \in 0..MaxEdits /\ swaps \in 0..MaxSwaps
    /\ preflights \subseteq Preflights /\ triages \subseteq Triages
    /\ proposals \subseteq Decisions
    /\ candidates \in [Slots -> Candidates \cup {Nothing}]
    /\ acceptance \in Acceptances \cup {Nothing}
    /\ package \in Packages \cup {Nothing}
    /\ \A pf \in preflights :
          /\ pf.capacity \in 0..now
          /\ pf.ready => \E t \in Trees : pf.images = Files[t].receipts
    /\ \A s \in Slots : candidates[s] # Nothing => candidates[s].preflight \in preflights
    /\ \A t \in triages : t.preflight \in preflights
    /\ \A p \in proposals : p.triage \in triages
    /\ acceptance # Nothing => acceptance.proposal \in proposals
    /\ package # Nothing => package.preflight \in preflights
    /\ job # Nothing /\ job.pass = 3 => package = PackageOf(job)

\* Everything in a decision is about the same two candidates.
DescribesOne(d) ==
    /\ d.evidence = d.triage.candidate.results
    /\ d.evidence = d.triage.repeat.results
    /\ d.triage.findings = FindingsOf(d.evidence)
    /\ d.triage.candidate.preflight = d.triage.preflight
    /\ d.triage.repeat.preflight = d.triage.preflight

\* The results, the digests and the evidence of a decision are read at
\* different times.  What the acceptance command accepts is nevertheless one
\* pair of candidates, while directories are replaced no more than three times.
\* What was accepted by hand is one pair once a review has confirmed it.
AcceptedDescribesOne ==
    swaps <= 3 =>
        /\ acceptance # Nothing /\ acceptance.kind = "boundary"
              => DescribesOne(acceptance.proposal)
        /\ Confirms => DescribesOne([triage |-> job.triage, evidence |-> job.read])

\* The source, the engine, the images and the catalog of a preflight agree with
\* the tree of a candidate made from it.
MadeFrom(pf, of) ==
    /\ {pf.source, pf.engine.source} = {of}
    /\ pf.engine.lock = Files[of].lock /\ pf.images = Files[of].receipts
    /\ pf.catalog = Files[of].catalog

\* The source, the images and the catalog of a preflight and the candidates are
\* read at different times by different commands.  What an acceptance or a
\* package binds is nevertheless of one tree.
EvidenceFromOneTree ==
    /\ acceptance # Nothing =>
          LET triage == acceptance.proposal.triage
          IN  /\ MadeFrom(triage.preflight, triage.candidate.tree)
              /\ triage.repeat.tree = triage.candidate.tree
    /\ package # Nothing => Files[package.preflight.source].catalog = package.preflight.catalog

\* The disposition policy is read first and its digest is taken last.  While
\* the files are edited no more than twice, both are nevertheless of the tree
\* of the candidates.  Only the hand-written acceptance trusts the policy of
\* its proposal.
PolicyFromOneTree ==
    edits <= 2 /\ acceptance # Nothing /\ acceptance.kind = "boundary" =>
        LET d == acceptance.proposal
        IN  {d.policy, d.digest} = {Files[d.triage.candidate.tree].policy}

-----------------------------------------------------------------------------
(* The inductive invariant behind EvidenceFromOneTree, by parts.           *)

TriageStages == {"results", "first", "repeat", "projections", "digest"}
ReviewCommands == {"review", "accept", "confirm"}

\* What is on disk: an admitted triage receipt binds the evidence of one tree,
\* and only admitted receipts are proposed.
EvidenceBound ==
    /\ \A t \in triages : t.findings = "admitted" =>
          /\ MadeFrom(t.preflight, t.candidate.tree)
          /\ t.repeat.tree = t.candidate.tree
    /\ \A p \in proposals : p.triage.findings = "admitted"
    /\ package # Nothing => Files[package.preflight.source].catalog = package.preflight.catalog

IsCommand(j) == j = [f \in DOMAIN Idle |-> j[f]]

\* Which inputs a command was given, and how far it may be.
CommandInputs ==
    /\ job.pass # 1 => job.op = "package"
    /\ job.stage \in TriageStages => job.op \in {"triage", "package"} \cup ReviewCommands
    /\ job.stage = "evidence" => job.op \in ReviewCommands
    /\ job.op = "preflight" =>
          job.stage \in {"gates", "images", "catalog"} /\ job.tree \in Trees
    /\ job.op \in {"triage", "package"} => job.preflight \in preflights
    /\ job.op \in ReviewCommands =>
          /\ job.triage \in triages /\ job.preflight = job.triage.preflight
          /\ job.stage \in {"evidence", "decision"} => job.triage.findings = "admitted"
    /\ job.op \in {"review", "accept"} => job.tree \in Policies
    /\ job.op = "accept" => job.proposal \in proposals
    /\ job.op = "accept" /\ job.stage = "policy" =>
          /\ acceptance \in Acceptances /\ acceptance.kind = "boundary"
          /\ acceptance.proposal = job.proposal
    /\ job.op = "package" =>
          /\ job.triage \in triages \cup {Nothing}
          /\ job.stage = "rename" =>
                Files[job.preflight.source].catalog = job.preflight.catalog

\* What a command has read, while the directories are replaced: another
\* candidate in a slot has the tree and the preflight of the one before.
CommandReads ==
    /\ job.op = "preflight" /\ job.stage \in {"images", "catalog"} =>
          /\ job.read.capacity \in 0..now /\ job.read.engine \in Engines
          /\ job.read.ready \in BOOLEAN
    /\ job.op = "preflight" /\ job.stage = "catalog" =>
          /\ job.read.images \in Qualifications
          /\ job.read.ready => job.read.images = Files[job.tree].receipts
    /\ job.stage \in (TriageStages \ {"results"}) \cup {"evidence"} =>
          candidates["first"] \in Candidates
    /\ job.stage \in TriageStages \ {"results"} =>
          /\ job.read \in Candidates
          /\ job.read.tree = candidates["first"].tree
          /\ job.read.preflight = candidates["first"].preflight
    /\ job.stage \in {"repeat", "projections", "digest"} /\ job.admitted =>
          MadeFrom(job.preflight, job.read.tree)
    /\ job.stage \in {"projections", "digest"} =>
          job.repeat \in Candidates /\ (job.admitted => job.repeat.tree = job.read.tree)
    /\ job.op \in ReviewCommands /\ job.stage = "decision" => job.read \in Results

ReviewInv ==
    /\ ReviewTypeOK
    /\ EvidenceBound
    /\ job # Nothing => IsCommand(job) /\ CommandInputs /\ CommandReads

-----------------------------------------------------------------------------
(* The inductive invariant behind AcceptedDescribesOne: one replacement of *)
(* a directory leaves the two without agreement, two may deceive a review, *)
(* and two more an acceptance or a confirmation of it.                     *)

ReadingStages == {"first", "repeat", "projections", "digest"}

Agree == Projection("first") = Projection("repeat")

\* After n replacements the directories agree, or there was one more.
AgreeAfter(n) == (swaps >= n /\ Agree) \/ swaps >= n + 1

\* No directory was replaced since the command began: what it has read is there.
Steady ==
    /\ job.stage \in ReadingStages => job.read = candidates["first"]
    /\ job.stage \in {"projections", "digest"} => job.repeat = candidates["repeat"]
    /\ job.stage = "digest" /\ job.admitted => Agree
    /\ job.stage \in {"evidence", "decision"} =>
          DescribesOne([triage |-> job.triage, evidence |-> Projection("first")])
    /\ job.stage = "decision" => job.read = Projection("first")

DecisionDescribesOne == DescribesOne([triage |-> job.triage, evidence |-> job.read])

\* There were n replacements when the command began: there was none since; or
\* one, and the evidence was read before it or cannot be read any more; or two.
SteadyAfter(n) ==
    \/ Steady
    \/ swaps >= n + 1 /\ IF job.stage = "decision" THEN DecisionDescribesOne ELSE ~Agree
    \/ swaps >= n + 2

TriagesAgree ==
    \A t \in triages : t.findings = "admitted" =>
        /\ t.candidate.preflight = t.preflight /\ t.repeat.preflight = t.preflight
        /\ \A s \in Slots : candidates[s] \in Candidates
        /\ AgreeAfter(0)

DecisionsAgree ==
    /\ \A p \in proposals : DescribesOne(p) \/ AgreeAfter(2)
    /\ acceptance # Nothing /\ acceptance.kind = "boundary" =>
          DescribesOne(acceptance.proposal) \/ swaps >= 4

CommandAgrees ==
    /\ job.stage \in {"repeat", "projections", "digest"} /\ job.admitted =>
          /\ job.read.preflight = job.preflight
          /\ job.stage # "repeat" => /\ candidates["repeat"] \in Candidates
                                     /\ job.repeat.preflight = job.preflight
    /\ job.op = "triage" => job.stage # "decision" /\ (Steady \/ swaps >= 1)
    /\ job.op = "review" /\ job.triage.findings = "admitted" =>
          /\ SteadyAfter(0)
          /\ job.stage = "decision" => DecisionDescribesOne \/ AgreeAfter(2)
    /\ job.op \in {"accept", "confirm"} =>
          /\ job.proposal \in proposals
          /\ DescribesOne(job.proposal) \/ SteadyAfter(2)
    /\ job.op = "accept" /\ job.stage \in {"artifact", "policy"} =>
          DescribesOne(job.proposal) \/ swaps >= 4

AgreementInv ==
    /\ ReviewInv
    /\ TriagesAgree /\ DecisionsAgree
    /\ job # Nothing => CommandAgrees

-----------------------------------------------------------------------------
(* The inductive invariant behind PolicyFromOneTree: the policy of a       *)
(* review was read before the candidate was verified, its digest after it. *)

\* The candidate that the receipt of the command names was verified, and was of
\* the tree there was.
Verified ==
    \/ /\ job.stage \in {"repeat", "projections", "digest"} /\ job.admitted
       /\ candidates["first"].tree = job.triage.candidate.tree
    \/ job.stage \in {"evidence", "decision"}

ReviewedPolicy(d) == Files[d.triage.candidate.tree].policy

PolicyOfProposal(p) ==
    /\ p.policy = ReviewedPolicy(p) \/ edits >= 2
    /\ \/ p.digest = ReviewedPolicy(p)
       \/ edits >= 1 /\ tree # p.triage.candidate.tree
       \/ edits >= 2

PolicyAccepted(p) == {p.policy, p.digest} = {ReviewedPolicy(p)} \/ edits >= 3

PoliciesOnDisk ==
    /\ \A t \in triages : t.findings = "admitted" => tree = t.candidate.tree \/ edits >= 1
    /\ \A p \in proposals : PolicyOfProposal(p)
    /\ acceptance # Nothing /\ acceptance.kind = "boundary" =>
          PolicyAccepted(acceptance.proposal)

PolicyOfCommand ==
    LET of == job.triage.candidate.tree
        given == job.proposal
    IN  /\ job.op = "triage" /\ job.stage \in {"repeat", "projections", "digest"}
              /\ job.admitted => tree = candidates["first"].tree \/ edits >= 1
        /\ job.op = "review" /\ job.triage.findings = "admitted" =>
              /\ job.stage \in {"results", "first"} =>
                    \/ job.tree = Files[of].policy
                    \/ edits >= 1 /\ tree # of
                    \/ edits >= 2
              /\ Verified => job.tree = Files[of].policy \/ edits >= 2
        /\ job.op = "accept" =>
              /\ job.triage = given.triage
              /\ job.stage \in {"results", "first"} =>
                    \/ Files[of].policy \in {job.tree, given.policy}
                    \/ edits >= 2 /\ tree # of
                    \/ edits >= 3
              /\ Verified =>
                    /\ Files[of].policy \in {job.tree, given.policy} \/ edits >= 3
                    /\ given.digest = Files[of].policy \/ (edits >= 2 /\ tree = of) \/ edits >= 3
              /\ job.stage \in {"artifact", "policy"} => PolicyAccepted(given)

PolicyInv ==
    /\ ReviewInv
    /\ PoliciesOnDisk
    /\ job # Nothing => PolicyOfCommand
=============================================================================
