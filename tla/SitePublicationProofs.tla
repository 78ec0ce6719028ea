------------------------ MODULE SitePublicationProofs ------------------------
(***************************************************************************)
(* Proofs about SitePublication: PublicationInv is inductive, for any      *)
(* trees, any bounds and any review commands between the steps of a site   *)
(* build, a publication and a deployment, and so are the invariants of the *)
(* pipeline.                                                               *)
(***************************************************************************)
EXTENDS SitePublication, GradeReviewProofs

SiteCommands == {"site", "publish", "deploy"}

\* What a step leaves as it is, or changes in one direction only.
Onward ==
    /\ proposals \subseteq proposals'
    /\ now' \in Nat /\ now <= now'
    /\ swaps' \in Nat /\ swaps <= swaps'
    /\ \A p : Accepted(p) => Accepted(p)'
    /\ UNCHANGED <<tree, edits>> \/ (edits' = edits + 1 /\ tree' # tree)

-----------------------------------------------------------------------------
(* The pipeline under the publication.                                     *)

\* The command that runs next is another one, or goes on while a directory is
\* replaced or the files are edited.
CommandKept ==
    \/ job' = Nothing
    \/ job'.op \notin SiteCommands
    \/ /\ job' = job
       /\ \/ UNCHANGED <<candidates, swaps>>
          \/ /\ swaps' = swaps + 1
             /\ candidates["first"] \in Candidates => candidates'["first"] \in Candidates

\* A step that changes the command alone.
LEMMA JobOnlyOnward ==
    ASSUME ReviewInv, JobOnly
    PROVE  Onward
BY Counters DEF Onward, JobOnly, reviewVars, Accepted

\* The commands of the pipeline are not those of the publication.
LEMMA PreflightKeeps ==
    ASSUME ReviewInv, Preflighting
    PROVE  Onward /\ CommandKept
<1>1. CASE StartPreflight
  <2>1. JobOnly /\ job'.op = "preflight"
    BY <1>1 DEF StartPreflight, Starts, JobOnly, Idle
  <2> QED
    BY <2>1, JobOnlyOnward DEF CommandKept, SiteCommands
<1>2. CASE ReadGates \/ ReadImages
  <2>1. JobOnly /\ IsCommand(job) /\ job.op = "preflight"
    BY <1>2 DEF ReadGates, ReadImages, Doing, JobOnly, ReviewInv
  <2>2. PICK r : \/ job' = [job EXCEPT !.stage = "images", !.read = r]
                 \/ job' = [job EXCEPT !.stage = "catalog", !.read = r]
    BY <1>2, Zenon DEF ReadGates, ReadImages
  <2>3. job'.op = "preflight"
    BY <2>1, <2>2 DEF IsCommand, Idle
  <2> QED
    BY <2>1, <2>3, JobOnlyOnward DEF CommandKept, SiteCommands
<1>3. CASE WritePreflight
  BY <1>3, Counters DEF WritePreflight, Onward, CommandKept, Accepted
<1> QED
  BY <1>1, <1>2, <1>3 DEF Preflighting

\* Nor is a triage.
LEMMA TriageKeeps ==
    ASSUME ReviewInv, Triaging
    PROVE  Onward /\ CommandKept
<1>1. CASE \E pf \in preflights : StartTriage(pf)
  <2>1. JobOnly /\ job'.op = "triage"
    BY <1>1 DEF StartTriage, Starts, JobOnly, Idle
  <2> QED
    BY <2>1, JobOnlyOnward DEF CommandKept, SiteCommands
<1>2. CASE ReadResults \/ VerifyFirst \/ VerifyRepeat \/ CompareProjections
  <2>1. /\ JobOnly /\ IsCommand(job) /\ CommandInputs /\ job.stage \in TriageStages
    BY <1>2 DEF ReadResults, VerifyFirst, VerifyRepeat, CompareProjections, JobOnly,
                ReviewInv, TriageStages
  <2>2. job.op \notin SiteCommands
    BY <2>1 DEF CommandInputs, ReviewCommands, SiteCommands
  <2>3. ReadResults \/ VerifyRepeat => job'.op = job.op
    BY <2>1 DEF ReadResults, VerifyRepeat, IsCommand, Idle
  <2>4. VerifyFirst \/ CompareProjections => job'.op = job.op
    BY <2>1 DEF VerifyFirst, CompareProjections, IsCommand, Idle
  <2> QED
    BY <1>2, <2>1, <2>2, <2>3, <2>4, JobOnlyOnward DEF CommandKept
<1>3. CASE WriteTriage
  BY <1>3, Counters DEF WriteTriage, Onward, CommandKept, Accepted
<1> QED
  BY <1>1, <1>2, <1>3 DEF Triaging

\* Nor are a review, an acceptance and a confirmation.
LEMMA ReviewKeeps ==
    ASSUME ReviewInv, Reviewing
    PROVE  Onward /\ CommandKept
<1>1. ASSUME JobOnly, job' = Nothing \/ job'.op \in ReviewCommands
      PROVE  Onward /\ CommandKept
  BY <1>1, JobOnlyOnward DEF CommandKept, ReviewCommands, SiteCommands
<1>2. CASE \E t \in triages : StartReview(t) \/ StartConfirm(t)
  <2>1. JobOnly /\ job'.op \in ReviewCommands
    BY <1>2 DEF StartReview, StartConfirm, Starts, JobOnly, Idle, ReviewCommands
  <2> QED
    BY <1>1, <2>1
<1>3. CASE \E p \in proposals : StartAccept(p)
  <2>1. JobOnly /\ job'.op \in ReviewCommands
    BY <1>3 DEF StartAccept, Starts, JobOnly, Idle, ReviewCommands
  <2> QED
    BY <1>1, <2>1
<1>4. CASE RecomputeTriage \/ ReadEvidence \/ ReproduceProposal \/ WriteConfirmation
  <2>1. RecomputeTriage => JobOnly /\ job'.op \in ReviewCommands
    BY DEF RecomputeTriage, Recomputed, JobOnly, ReviewCommands, ReviewInv, IsCommand, Idle
  <2>2. ReadEvidence => JobOnly /\ job'.op \in ReviewCommands
    BY DEF ReadEvidence, JobOnly, ReviewCommands, ReviewInv, IsCommand, Idle, CommandInputs
  <2>3. ReproduceProposal => JobOnly /\ job'.op \in ReviewCommands
    BY DEF ReproduceProposal, Doing, JobOnly, ReviewCommands, ReviewInv, IsCommand, Idle
  <2>4. WriteConfirmation => JobOnly /\ job' = Nothing
    BY DEF WriteConfirmation, JobOnly
  <2> QED
    BY <1>1, <1>4, <2>1, <2>2, <2>3, <2>4
<1>5. CASE WriteProposal
  BY <1>5, Counters DEF WriteProposal, Onward, CommandKept, Accepted
<1>6. CASE WriteArtifact
  <2>1. /\ job # Nothing /\ IsCommand(job) /\ job.op = "accept" /\ acceptance = Nothing
        /\ job' = [job EXCEPT !.stage = "policy"]
        /\ UNCHANGED <<now, tree, edits, swaps, preflights, candidates, triages,
                       proposals, package>>
    BY <1>6 DEF WriteArtifact, Doing, Goes, ReviewInv
  <2>2. job'.op = "accept"
    BY <2>1 DEF IsCommand, Idle
  <2> QED
    BY <2>1, <2>2, Counters DEF Onward, CommandKept, SiteCommands, Accepted
<1>7. CASE WriteAcceptedPolicy
  <2>1. /\ job # Nothing /\ CommandInputs /\ job.op = "accept" /\ job.stage = "policy"
        /\ job' = Nothing
        /\ UNCHANGED <<now, tree, edits, swaps, preflights, candidates, triages,
                       proposals, package>>
    BY <1>7 DEF WriteAcceptedPolicy, Doing, ReviewInv
  <2>2. acceptance.kind = "boundary"
    BY <2>1 DEF CommandInputs
  <2> QED
    BY <2>1, <2>2, Counters DEF Onward, CommandKept, Accepted
<1>8. CASE \E p \in proposals : AcceptSource(p)
  <2>1. /\ job' = Nothing /\ acceptance = Nothing
        /\ UNCHANGED <<now, tree, edits, swaps, preflights, candidates, triages,
                       proposals, package>>
    BY <1>8 DEF AcceptSource
  <2> QED
    BY <2>1, Counters DEF Onward, CommandKept, Accepted
<1> QED
  BY <1>2, <1>3, <1>4, <1>5, <1>6, <1>7, <1>8 DEF Reviewing

\* Nor is a package.
LEMMA PackageKeeps ==
    ASSUME ReviewInv, Packaging
    PROVE  Onward /\ CommandKept
<1>1. CASE \E pf \in preflights, t \in triages \cup {Nothing} : StartPackage(pf, t)
  <2>1. JobOnly /\ job'.op = "package"
    BY <1>1 DEF StartPackage, Starts, JobOnly, Idle
  <2> QED
    BY <2>1, JobOnlyOnward DEF CommandKept, SiteCommands
<1>2. CASE RecomputePackagedTriage \/ PackageInputs
  <2>1. JobOnly /\ IsCommand(job) /\ job.op = "package"
    BY <1>2 DEF RecomputePackagedTriage, Recomputed, PackageInputs, Doing, JobOnly, ReviewInv
  <2>2. job' = Nothing \/ job'.op = "package"
    BY <1>2, <2>1 DEF RecomputePackagedTriage, Recomputed, PackageInputs, Goes,
                      IsCommand, Idle
  <2> QED
    BY <2>1, <2>2, JobOnlyOnward DEF CommandKept, SiteCommands
<1>3. CASE RenamePackage
  <2>1. IsCommand(job) /\ job.op = "package"
    BY <1>3 DEF RenamePackage, Doing, ReviewInv
  <2>2. job'.op = "package"
    BY <1>3, <2>1 DEF RenamePackage, IsCommand, Idle
  <2> QED
    BY <1>3, <2>2, Counters
    DEF RenamePackage, Onward, CommandKept, SiteCommands, Accepted
<1>4. CASE RemovePackage
  BY <1>4, Counters DEF RemovePackage, Onward, CommandKept, Accepted
<1> QED
  BY <1>1, <1>2, <1>3, <1>4 DEF Packaging

\* The environment replaces candidates by candidates.
LEMMA EnvironmentKeeps ==
    ASSUME ReviewInv, Environment
    PROVE  Onward /\ CommandKept
<1>1. CASE \E s \in Slots, pf \in preflights, r \in Results : MakeCandidate(s, pf, r)
  <2>1. /\ job' = Nothing
        /\ UNCHANGED <<now, tree, edits, swaps, proposals, acceptance>>
    BY <1>1 DEF MakeCandidate
  <2> QED
    BY <2>1, Counters DEF Onward, CommandKept, Accepted
<1>2. CASE \E s \in Slots, r \in Results : Swap(s, r)
  <2>1. PICK s \in Slots, r \in Results : Swap(s, r)
    BY <1>2
  <2>2. /\ candidates' = [candidates EXCEPT ![s] = [candidates[s] EXCEPT !.results = r]]
        /\ swaps' = swaps + 1 /\ candidates[s] # Nothing
        /\ UNCHANGED <<now, tree, edits, proposals, acceptance, job>>
    BY <2>1 DEF Swap
  <2>3. candidates \in [Slots -> Candidates \cup {Nothing}]
    BY DEF ReviewInv, ReviewTypeOK
  <2>4. [candidates[s] EXCEPT !.results = r] \in Candidates
    BY <2>2, <2>3 DEF Candidates
  <2>5. candidates["first"] \in Candidates => candidates'["first"] \in Candidates
    BY <2>2, <2>3, <2>4
  <2> QED
    BY <2>2, <2>5, Counters DEF Onward, CommandKept, Accepted
<1>3. CASE \E t \in Trees : Edit(t)
  BY <1>3, Counters DEF Edit, Onward, CommandKept, Accepted
<1>4. CASE Tick
  BY <1>4, Counters DEF Tick, Onward, CommandKept, Accepted
<1>5. CASE Stop
  <2>1. JobOnly /\ job' = Nothing
    BY <1>5 DEF Stop, JobOnly
  <2> QED
    BY <2>1, JobOnlyOnward DEF CommandKept
<1> QED
  BY <1>1, <1>2, <1>3, <1>4, <1>5 DEF Environment

\* What the pipeline does that concerns the publication.
LEMMA ReviewKept ==
    ASSUME ReviewInv, ReviewNext
    PROVE  Onward /\ CommandKept
BY PreflightKeeps, TriageKeeps, ReviewKeeps, PackageKeeps, EnvironmentKeeps DEF ReviewNext

\* Whether a tree was kept is seen again after every step.
LEMMA KeepsTree ==
    ASSUME NEW t, NEW e, TreeKept(t, e), Onward, edits \in Nat
    PROVE  /\ e \in Nat /\ e <= edits'
           /\ edits' = e => tree' = t /\ edits = e
           /\ edits' = e + 1 => tree' # t
           /\ edits' \in Nat /\ edits <= edits'
BY DEF TreeKept, Onward

\* A step that leaves the files of the publication alone.
LEMMA PublicationRests ==
    ASSUME PublicationInv, ReviewInv', Onward, UNCHANGED siteVars,
           job' # Nothing => PublicationCommands'
    PROVE  PublicationInv'
<1>1. /\ ReviewInv /\ TypeOK /\ SiteBound /\ PackageBound /\ AttemptsBound
      /\ now \in Nat /\ edits \in Nat /\ swaps \in Nat
  BY Counters DEF PublicationInv
<1>2. UNCHANGED <<site, approval, publication, authorization, output, live, shown,
                  receipt, attempts>>
  BY DEF siteVars
<1>3. TypeOK'
  <2>1. ReviewTypeOK' /\ 0..now \subseteq 0..now' /\ proposals \subseteq proposals'
    BY <1>1 DEF ReviewInv, Onward
  <2> QED
    BY <1>1, <1>2, <2>1 DEF TypeOK
<1>4. SiteBound'
  <2> SUFFICES ASSUME site # Nothing PROVE SiteBound'
    BY <1>2 DEF SiteBound
  <2>1. /\ TreeKept(site.implementation, site.edits) /\ (edits = site.edits => FromTree(site))
        /\ ShowsCandidate(site) \/ swaps >= site.swaps + 2
        /\ site.candidate = site.proposal.triage.candidate
        /\ site.accepted => Accepted(site.proposal)
        /\ site.swaps \in Nat
    BY <1>1 DEF SiteBound, TypeOK, Sites
  <2>2. TreeKept(site.implementation, site.edits)'
    BY <1>1, <1>2, <2>1, KeepsTree DEF TreeKept
  <2>3. edits' = site.edits => FromTree(site)'
    BY <1>1, <1>2, <2>1, KeepsTree DEF FromTree
  <2>4. ShowsCandidate(site)' \/ swaps' >= site.swaps + 2
    BY <1>1, <1>2, <2>1 DEF ShowsCandidate, Onward
  <2>5. site.accepted => Accepted(site.proposal)'
    BY <1>2, <2>1 DEF Onward, Accepted
  <2> QED
    BY <1>2, <2>1, <2>2, <2>3, <2>4, <2>5 DEF SiteBound
<1>5. PackageBound'
  BY <1>1, <1>2 DEF PackageBound, ApprovalHolds, ApprovesSite, SiteVerifies, ProviderFresh,
                    RollbackBound, RollbackFresh
<1>6. AttemptsBound'
  BY <1>1, <1>2 DEF AttemptsBound, MayDeploy, FromTree, ShowsCandidate, PackageVerifies,
                    ApprovalVerifies, ApprovalCurrent, ApprovesSite, SiteVerifies,
                    ProviderFresh, RollbackBound, RollbackFresh
<1> QED
  BY <1>3, <1>4, <1>5, <1>6 DEF PublicationInv

\* A command of the publication goes on while a directory is replaced or the
\* files are edited.
LEMMA CommandsKeep ==
    ASSUME PublicationInv, Onward, CommandKept, UNCHANGED siteVars, job' # Nothing
    PROVE  PublicationCommands'
<1>1. CASE job'.op \notin SiteCommands
  BY <1>1 DEF PublicationCommands, SiteCommands
<1>2. CASE job'.op \in SiteCommands
  <2>1. /\ job' = job /\ job # Nothing /\ PublicationCommands
        /\ \/ UNCHANGED <<candidates, swaps>>
           \/ /\ swaps' = swaps + 1
              /\ candidates["first"] \in Candidates => candidates'["first"] \in Candidates
        /\ UNCHANGED <<site, approval, publication, authorization, attempts>>
        /\ edits \in Nat /\ swaps \in Nat
    BY <1>2, Counters DEF CommandKept, PublicationInv, siteVars
  <2>2. job.op = "site" => SiteInputs'
    <3> SUFFICES ASSUME job.op = "site" PROVE SiteInputs'
      OBVIOUS
    <3>1. SiteInputs
      BY <2>1 DEF PublicationCommands
    <3>2. TreeKept(job.tree, job.read.edits)'
      BY <2>1, <3>1, KeepsTree DEF SiteInputs, TreeKept
    <3> QED
      BY <2>1, <3>1, <3>2 DEF SiteInputs, Onward
  <2>3. job.op = "site" => SiteReads'
    <3> SUFFICES ASSUME job.op = "site" PROVE SiteReads'
      OBVIOUS
    <3>1. SiteInputs /\ SiteReads
      BY <2>1 DEF PublicationCommands
    <3>2. TreeKept(job.tree, job.read.edits) /\ job.read.swaps \in Nat
          /\ job.read.swaps <= swaps
      BY <3>1 DEF SiteInputs
    <3>3. edits' = job.read.edits => edits = job.read.edits
      BY <2>1, <3>2, KeepsTree
    <3> DEFINE c == job.read.binding.candidate
    <3>4. c' = c
      BY <2>1
    <3>5. ASSUME NEW same \in BOOLEAN, OrSwapped(same)
          PROVE  \/ same
                 \/ swaps' >= job.read.swaps + 2
                 \/ swaps' >= job.read.swaps + 1 /\ candidates'["first"] # c
      BY <2>1, <3>2, <3>5 DEF OrSwapped
    <3>6. job.stage # "bind" =>
              /\ c \in Candidates /\ candidates'["first"] \in Candidates
              /\ job.read.binding.accepted \in BOOLEAN
              /\ job.read.binding.accepted => Accepted(job.proposal)'
              /\ c = job.proposal.triage.candidate
              /\ edits' = job.read.edits =>
                    c.tree = job.tree /\ c.preflight.source = job.tree
              /\ candidates'["first"] = c \/ swaps' >= job.read.swaps + 1
      <4>1. job.read.binding.accepted /\ Accepted(job.proposal) =>
              Accepted(job.proposal)'
        BY <2>1 DEF Onward, Accepted
      <4> QED
        BY <2>1, <3>1, <3>2, <3>3, <4>1 DEF SiteReads
    <3>7. job.stage \in {"render", "rebind", "seal"} =>
              /\ job.read.manifest \in Candidates
              /\ job.read.corrections \in {Files[t].corrections : t \in Trees}
              /\ job.read.rollback \in [target : Nat, observed : Nat] \cup {Nothing}
              /\ edits' = job.read.edits =>
                    job.read.corrections = Files[job.tree].corrections
              /\ OrSwapped(job.read.manifest = c)'
      BY <2>1, <3>1, <3>3, <3>5 DEF SiteReads, OrSwapped
    <3>8. job.stage \in {"rebind", "seal"} =>
              job.repeat \in Results /\ OrSwapped(job.repeat = c.results)'
      BY <2>1, <3>1, <3>5 DEF SiteReads, OrSwapped
    <3>9. job.stage = "seal" =>
              \/ job.read.manifest = c /\ job.repeat = c.results
              \/ swaps' >= job.read.swaps + 2
      BY <2>1, <3>1, <3>2 DEF SiteReads
    <3> HIDE DEF c
    <3> QED
      BY <2>1, <3>4, <3>6, <3>7, <3>8, <3>9 DEF SiteReads, c
  <2>4. job.op = "deploy" => MayDeploy(edits)'
    <3> SUFFICES ASSUME job.op = "deploy" PROVE MayDeploy(edits)'
      OBVIOUS
    <3>1. MayDeploy(edits) /\ authorization # Nothing
      BY <2>1 DEF PublicationCommands, MayDeploy
    <3>2. site # Nothing
      BY <3>1 DEF PublicationInv, PackageBound
    <3>3. site.edits \in Nat /\ edits' \in Nat /\ edits <= edits'
      BY <2>1, <3>2 DEF PublicationInv, TypeOK, Sites, Onward
    <3>4. FromTree(site) \/ edits >= site.edits + 2
      BY <3>1 DEF MayDeploy
    <3>5. FromTree(site)' \/ edits' >= site.edits + 2
      BY <2>1, <3>3, <3>4 DEF FromTree
    <3> QED
      BY <2>1, <3>1, <3>5
      DEF MayDeploy, PackageVerifies, ApprovalVerifies, ApprovalCurrent, ApprovesSite,
          SiteVerifies, ProviderFresh, RollbackBound, RollbackFresh
  <2> QED
    BY <2>1, <2>2, <2>3, <2>4 DEF PublicationCommands
<1> QED
  BY <1>1, <1>2

\* Every step of the pipeline preserves the invariant of the publication.
LEMMA PipelineStep ==
    ASSUME PublicationInv, ReviewNext, UNCHANGED siteVars
    PROVE  PublicationInv'
<1>1. ReviewInv /\ ReviewInv'
  BY ReviewStep DEF PublicationInv
<1>2. Onward /\ CommandKept
  BY <1>1, ReviewKept
<1> QED
  BY <1>1, <1>2, CommandsKeep, PublicationRests

-----------------------------------------------------------------------------
(* The commands of the publication.                                        *)

\* A command of the publication does not disturb the pipeline.
LEMMA PipelineRests ==
    ASSUME ReviewInv, JobOnly,
           job' # Nothing =>
              /\ IsCommand(job') /\ job'.op \in SiteCommands /\ job'.pass = 1
              /\ job'.stage \notin TriageStages \cup {"evidence"}
    PROVE  ReviewInv'
<1>1. job' # Nothing => CommandInputs' /\ CommandReads'
  BY DEF CommandInputs, CommandReads, SiteCommands, ReviewCommands, TriageStages
<1> QED
  BY <1>1, CommandStep

\* A step that changes the command alone.
LEMMA CommandGoesOn ==
    ASSUME PublicationInv, JobOnly, UNCHANGED siteVars,
           job' # Nothing =>
              /\ IsCommand(job') /\ job'.op \in SiteCommands /\ job'.pass = 1
              /\ job'.stage \notin TriageStages \cup {"evidence"}
              /\ PublicationCommands'
    PROVE  PublicationInv'
<1>1. ReviewInv
  BY DEF PublicationInv
<1> QED
  BY <1>1, PipelineRests, JobOnlyOnward, PublicationRests

\* The site build reads its inputs.
LEMMA SiteReadStep ==
    ASSUME PublicationInv,
           \/ \E p \in proposals : StartSite(p)
           \/ BindReview \/ ReadSiteInputs \/ RenderSite \/ RebindReview
    PROVE  PublicationInv'
<1>1. /\ ReviewInv /\ ReviewTypeOK /\ TypeOK /\ tree \in Trees
      /\ now \in Nat /\ edits \in Nat /\ swaps \in Nat
      /\ candidates["first"] # Nothing => candidates["first"] \in Candidates
  BY Counters DEF PublicationInv, ReviewInv, ReviewTypeOK, Slots
<1>2. CASE \E p \in proposals : StartSite(p)
  <2>1. PICK p \in proposals : StartSite(p)
    BY <1>2
  <2>2. /\ job' = [Idle EXCEPT !.op = "site", !.stage = "bind", !.tree = tree,
                     !.proposal = p, !.read = [edits |-> edits, swaps |-> swaps]]
        /\ site = Nothing /\ JobOnly /\ UNCHANGED siteVars
    BY <2>1 DEF StartSite, Starts, JobOnly
  <2>3. /\ IsCommand(job') /\ job'.op = "site" /\ job'.stage = "bind" /\ job'.tree = tree
        /\ job'.proposal = p /\ job'.pass = 1
        /\ job'.read.edits = edits /\ job'.read.swaps = swaps
    BY <2>2 DEF Idle, IsCommand
  <2>4. UNCHANGED <<tree, edits, swaps, proposals, site>>
    BY <2>2 DEF JobOnly, reviewVars, siteVars
  <2>5. TreeKept(job.tree, job.read.edits)'
    BY <1>1, <2>3, <2>4 DEF TreeKept
  <2>6. SiteInputs' /\ SiteReads'
    BY <1>1, <2>2, <2>3, <2>4, <2>5 DEF SiteInputs, SiteReads
  <2>7. PublicationCommands'
    BY <2>3, <2>6 DEF PublicationCommands
  <2> QED
    BY <2>2, <2>3, <2>7, CommandGoesOn DEF SiteCommands, TriageStages
<1>3. ASSUME job # Nothing, job.op = "site", JobOnly, UNCHANGED siteVars, IsCommand(job'),
             job'.stage \in {"inputs", "render", "rebind", "seal"},
             Same(job', job, {"stage", "read", "repeat"}),
             job'.read.edits = job.read.edits, job'.read.swaps = job.read.swaps,
             SiteReads'
      PROVE  PublicationInv'
  <2>1. /\ job'.op = "site" /\ job'.pass = job.pass /\ job'.tree = job.tree
        /\ job'.proposal = job.proposal
    BY <1>3 DEF Same
  <2>2. SiteInputs /\ job.pass = 1
    BY <1>3 DEF PublicationInv, PublicationCommands, ReviewInv, CommandInputs
  <2>3. UNCHANGED <<tree, edits, swaps, proposals, site>>
    BY <1>3 DEF JobOnly, reviewVars, siteVars
  <2>4. TreeKept(job.tree, job.read.edits)'
    BY <1>3, <2>1, <2>2, <2>3 DEF SiteInputs, TreeKept
  <2>5. SiteInputs'
    BY <1>3, <2>1, <2>2, <2>3, <2>4 DEF SiteInputs
  <2>6. PublicationCommands'
    BY <1>3, <2>1, <2>5 DEF PublicationCommands
  <2> QED
    BY <1>3, <2>1, <2>2, <2>6, CommandGoesOn DEF SiteCommands, TriageStages
<1>4. CASE BindReview
  <2> DEFINE c == candidates["first"]
             acc == Accepted(job.proposal)
             b == [candidate |-> c, proposal |-> job.proposal, accepted |-> acc]
             r == [edits |-> job.read.edits, swaps |-> job.read.swaps, binding |-> b]
  <2>1. /\ job # Nothing /\ job.op = "site" /\ job.stage = "bind" /\ IsCommand(job)
        /\ JobOnly /\ UNCHANGED siteVars /\ ReviewAdmits(job.proposal)
        /\ SiteInputs
    BY <1>4 DEF BindReview, Doing, JobOnly, PublicationInv, ReviewInv, PublicationCommands
  <2>2. job' = [job EXCEPT !.stage = "inputs", !.read = r]
    BY <1>4, Zenon DEF BindReview, Binding
  <2>3. acc \in BOOLEAN
    BY DEF Accepted
  <2>4. /\ c \in Candidates /\ c.tree = tree /\ c.preflight.source = tree
        /\ c = job.proposal.triage.candidate
    BY <1>1, <2>1, VerifiedMadeFrom
    DEF ReviewAdmits, ForwardBaselineHolds, CandidateVerifies, MadeFrom
  <2>5. /\ r.edits = job.read.edits /\ r.swaps = job.read.swaps
        /\ r.binding.candidate = c /\ r.binding.accepted = acc
    OBVIOUS
  <2>6. acc => Accepted(job.proposal)
    OBVIOUS
  <2> HIDE DEF r, acc, c
  <2>7. /\ IsCommand(job') /\ job'.stage = "inputs" /\ job'.read = r
        /\ job'.proposal = job.proposal /\ job'.tree = job.tree
        /\ Same(job', job, {"stage", "read", "repeat"})
    BY <2>1, <2>2 DEF IsCommand, Idle, Same
  <2>8. UNCHANGED <<tree, edits, swaps, candidates, acceptance>>
    BY <2>1 DEF JobOnly, reviewVars
  <2>9. edits = job.read.edits => tree = job.tree
    BY <2>1 DEF SiteInputs, TreeKept
  <2>10. /\ job'.read.edits = job.read.edits /\ job'.read.swaps = job.read.swaps
         /\ job'.read.binding.candidate = c /\ job'.read.binding.accepted = acc
    BY <2>5, <2>7
  <2>11. candidates'["first"] = c
    BY <2>8 DEF c
  <2>12. acc => Accepted(job.proposal)'
    BY <2>6, <2>7, <2>8 DEF Accepted
  <2>13. SiteReads'
    BY <2>3, <2>4, <2>7, <2>8, <2>9, <2>10, <2>11, <2>12 DEF SiteReads
  <2> QED
    BY <1>3, <2>1, <2>7, <2>10, <2>13
<1> DEFINE c == job.read.binding.candidate
<1>5. ASSUME job # Nothing, job.op = "site", JobOnly, UNCHANGED siteVars, job.stage # "bind",
             Same(job', job, {"stage", "read", "repeat"}),
             job'.read.edits = job.read.edits, job'.read.swaps = job.read.swaps,
             job'.read.binding = job.read.binding
      PROVE  /\ (/\ c \in Candidates /\ candidates["first"] \in Candidates
                 /\ job.read.binding.accepted \in BOOLEAN
                 /\ job.read.binding.accepted => Accepted(job.proposal)
                 /\ c = job.proposal.triage.candidate
                 /\ edits = job.read.edits =>
                       c.tree = job.tree /\ c.preflight.source = job.tree
                 /\ candidates["first"] = c \/ swaps >= job.read.swaps + 1)'
             /\ c' = c /\ job'.tree = job.tree /\ SiteReads
             /\ UNCHANGED <<tree, edits, swaps, candidates>>
             /\ \A same : OrSwapped(same)' <=>
                   \/ same
                   \/ swaps >= job.read.swaps + 2
                   \/ swaps >= job.read.swaps + 1 /\ candidates["first"] # c
             /\ edits = job.read.edits => tree = job.tree
             /\ job.read.swaps \in Nat
  <2>1. SiteReads /\ SiteInputs
    BY <1>5 DEF PublicationInv, PublicationCommands
  <2>2. UNCHANGED <<tree, edits, swaps, candidates, acceptance>>
    BY <1>5 DEF JobOnly, reviewVars
  <2>3. job'.proposal = job.proposal /\ job'.tree = job.tree
    BY <1>5 DEF Same
  <2>4. Accepted(job.proposal) => Accepted(job.proposal)'
    BY <2>2, <2>3 DEF Accepted
  <2>5. edits = job.read.edits => tree = job.tree
    BY <2>1 DEF SiteInputs, TreeKept
  <2>6. \A same : OrSwapped(same)' <=>
                   \/ same
                   \/ swaps >= job.read.swaps + 2
                   \/ swaps >= job.read.swaps + 1 /\ candidates["first"] # c
    BY <1>5, <2>2 DEF OrSwapped
  <2> QED
    BY <1>5, <2>1, <2>2, <2>3, <2>4, <2>5, <2>6 DEF SiteReads, SiteInputs
<1>6. CASE ReadSiteInputs
  <2>1. /\ job # Nothing /\ job.op = "site" /\ job.stage = "inputs" /\ IsCommand(job)
        /\ JobOnly /\ UNCHANGED siteVars /\ SiteReads /\ SiteInputs
    BY <1>6 DEF ReadSiteInputs, Doing, JobOnly, PublicationInv, ReviewInv,
                PublicationCommands
  <2>2. PICK rollback \in {ObserveProvider, Nothing} :
          job' = [job EXCEPT !.stage = "render",
                    !.read = [edits |-> @.edits, swaps |-> @.swaps, binding |-> @.binding,
                              manifest |-> candidates["first"],
                              corrections |-> Files[tree].corrections,
                              rollback |-> rollback]]
    BY <1>6 DEF ReadSiteInputs
  <2>3. /\ IsCommand(job') /\ job'.stage = "render"
        /\ Same(job', job, {"stage", "read", "repeat"})
        /\ job'.read = [edits |-> job.read.edits, swaps |-> job.read.swaps,
                        binding |-> job.read.binding, manifest |-> candidates["first"],
                        corrections |-> Files[tree].corrections, rollback |-> rollback]
    BY <2>1, <2>2 DEF IsCommand, Idle, Same
  <2>4. /\ job'.read.edits = job.read.edits /\ job'.read.swaps = job.read.swaps
        /\ job'.read.binding = job.read.binding
        /\ job'.read.manifest = candidates["first"]
        /\ job'.read.corrections = Files[tree].corrections /\ job'.read.rollback = rollback
    BY <2>3
  <2>5. rollback \in [target : Nat, observed : Nat] \cup {Nothing}
    BY <1>1, SitePublicationConstants DEF ObserveProvider, TypeOK
  <2>6. candidates["first"] = c \/ swaps >= job.read.swaps + 1
    BY <2>1 DEF SiteReads
  <2>7. candidates["first"] \in Candidates
    BY <2>1 DEF SiteReads
  <2>8. OrSwapped(job.read.manifest = c)'
    BY <1>5, <2>1, <2>3, <2>4, <2>6
  <2>9. SiteReads'
    BY <1>1, <1>5, <2>1, <2>3, <2>4, <2>5, <2>7, <2>8 DEF SiteReads
  <2> QED
    BY <1>3, <2>1, <2>3, <2>4, <2>9
<1>7. ASSUME job # Nothing, job.op = "site", JobOnly, UNCHANGED siteVars,
             job.stage \in {"render", "rebind"}, job'.read = job.read,
             Same(job', job, {"stage", "read", "repeat"})
      PROVE  /\ (/\ job.read.manifest \in Candidates
                 /\ job.read.corrections \in {Files[t].corrections : t \in Trees}
                 /\ job.read.rollback \in [target : Nat, observed : Nat] \cup {Nothing}
                 /\ edits = job.read.edits =>
                       job.read.corrections = Files[job.tree].corrections
                 /\ OrSwapped(job.read.manifest = c))'
  <2>1. SiteReads /\ job.stage # "bind"
    BY <1>7 DEF PublicationInv, PublicationCommands
  <2>2. /\ job.read.manifest \in Candidates
        /\ job.read.corrections \in {Files[t].corrections : t \in Trees}
        /\ job.read.rollback \in [target : Nat, observed : Nat] \cup {Nothing}
        /\ edits = job.read.edits => job.read.corrections = Files[job.tree].corrections
        /\ OrSwapped(job.read.manifest = c)
    BY <1>7, <2>1 DEF SiteReads
  <2>3. OrSwapped(job.read.manifest = c)'
    BY <1>5, <1>7, <2>1, <2>2 DEF OrSwapped
  <2> QED
    BY <1>5, <1>7, <2>1, <2>2, <2>3
<1>8. CASE RenderSite
  <2>1. /\ job # Nothing /\ job.op = "site" /\ job.stage = "render" /\ IsCommand(job)
        /\ JobOnly /\ UNCHANGED siteVars /\ SiteReads
        /\ job' = [job EXCEPT !.stage = "rebind", !.repeat = candidates["first"].results]
    BY <1>8 DEF RenderSite, Doing, JobOnly, PublicationInv, ReviewInv, PublicationCommands
  <2>2. /\ IsCommand(job') /\ job'.stage = "rebind" /\ job'.read = job.read
        /\ job'.repeat = candidates["first"].results
        /\ Same(job', job, {"stage", "read", "repeat"})
    BY <2>1 DEF IsCommand, Idle, Same
  <2>3. /\ candidates["first"] = c \/ swaps >= job.read.swaps + 1
        /\ candidates["first"] \in Candidates /\ candidates["first"].results \in Results
    BY <2>1 DEF SiteReads, Candidates
  <2>4. OrSwapped(job.repeat = c.results)'
    BY <1>5, <2>1, <2>2, <2>3
  <2>5. SiteReads'
    BY <1>5, <1>7, <2>1, <2>2, <2>3, <2>4 DEF SiteReads
  <2> QED
    BY <1>3, <2>1, <2>2, <2>5
<1>9. CASE RebindReview
  <2>1. /\ job # Nothing /\ job.op = "site" /\ job.stage = "rebind" /\ IsCommand(job)
        /\ JobOnly /\ UNCHANGED siteVars /\ SiteReads
        /\ job' = [job EXCEPT !.stage = "seal"]
        /\ job.read.binding = Binding(job.proposal)
    BY <1>9 DEF RebindReview, Doing, Goes, JobOnly, PublicationInv, ReviewInv,
                PublicationCommands
  <2>2. /\ IsCommand(job') /\ job'.stage = "seal" /\ job'.read = job.read
        /\ job'.repeat = job.repeat
        /\ Same(job', job, {"stage", "read", "repeat"})
    BY <2>1 DEF IsCommand, Idle, Same
  <2>3. candidates["first"] = c
    BY <2>1 DEF Binding
  <2>4. /\ OrSwapped(job.read.manifest = c) /\ OrSwapped(job.repeat = c.results)
        /\ job.repeat \in Results
    BY <2>1 DEF SiteReads
  <2>5. (job.read.manifest = c /\ job.repeat = c.results) \/ swaps >= job.read.swaps + 2
    BY <2>3, <2>4 DEF OrSwapped
  <2>6. OrSwapped(job.repeat = c.results)'
    BY <1>5, <2>1, <2>2, <2>4 DEF OrSwapped
  <2>7. SiteReads'
    BY <1>5, <1>7, <2>1, <2>2, <2>4, <2>5, <2>6 DEF SiteReads
  <2> QED
    BY <1>3, <2>1, <2>2, <2>7
<1> QED
  BY <1>2, <1>4, <1>6, <1>8, <1>9

\* A step of the publication that changes no file of the pipeline and may change
\* its own: it remains to show what these say.
LEMMA PublicationMoves ==
    ASSUME PublicationInv, UNCHANGED reviewVars,
           job' # Nothing =>
              \/ job' = job /\ job # Nothing
              \/ /\ IsCommand(job') /\ job'.op \in SiteCommands /\ job'.pass = 1
                 /\ job'.stage \notin TriageStages \cup {"evidence"},
           TypeOK', SiteBound', PackageBound', AttemptsBound',
           job' # Nothing => PublicationCommands'
    PROVE  PublicationInv'
<1>1. CASE job' = job
  BY <1>1, ReviewStutters DEF PublicationInv
<1>2. CASE job' # job
  BY <1>2, PipelineRests DEF PublicationInv, JobOnly
<1> QED
  BY <1>1, <1>2

\* Without a site there is no approval, without an approval no package, without a
\* package no authorization and without an authorization no attempt.
LEMMA PublicationOrder ==
    ASSUME PublicationInv
    PROVE  /\ site = Nothing => approval = Nothing
           /\ approval = Nothing => publication = Nothing
           /\ publication = Nothing => authorization = Nothing
           /\ authorization = Nothing => attempts = {}
BY DEF PublicationInv, TypeOK, PackageBound, AttemptsBound, MayDeploy

\* The site that is sealed is of one tree, unless it was edited meanwhile.
LEMMA SealStep ==
    ASSUME PublicationInv, SealSite
    PROVE  PublicationInv'
<1> DEFINE new == [candidate |-> job.read.binding.candidate,
                   proposal |-> job.proposal, accepted |-> job.read.binding.accepted,
                   implementation |-> job.tree, manifest |-> job.read.manifest,
                   corrections |-> job.read.corrections,
                   digest |-> Files[tree].corrections, rendered |-> job.repeat,
                   rollback |-> job.read.rollback, intact |-> TRUE,
                   edits |-> job.read.edits, swaps |-> job.read.swaps]
<1>1. /\ job # Nothing /\ job.op = "site" /\ job.stage = "seal" /\ job' = Nothing
      /\ site' = new /\ UNCHANGED reviewVars
      /\ UNCHANGED <<approval, publication, authorization, output, live, shown, receipt,
                     attempts>>
      /\ SiteInputs /\ SiteReads /\ TypeOK /\ ReviewTypeOK /\ PackageBound
  BY DEF SealSite, Doing, PublicationInv, PublicationCommands, ReviewInv
<1>2. UNCHANGED <<now, tree, edits, swaps, proposals, acceptance>>
  BY <1>1 DEF reviewVars
<1>3. /\ new.candidate = job.read.binding.candidate /\ new.proposal = job.proposal
      /\ new.accepted = job.read.binding.accepted /\ new.implementation = job.tree
      /\ new.manifest = job.read.manifest /\ new.corrections = job.read.corrections
      /\ new.digest = Files[tree].corrections /\ new.rendered = job.repeat
      /\ new.edits = job.read.edits /\ new.swaps = job.read.swaps
  OBVIOUS
<1>4. /\ job.read.binding.candidate \in Candidates /\ job.read.manifest \in Candidates
      /\ job.read.binding.accepted \in BOOLEAN /\ job.proposal \in proposals
      /\ proposals \subseteq Decisions /\ job.tree \in Trees /\ tree \in Trees
      /\ job.read.corrections \in {Files[t].corrections : t \in Trees}
      /\ job.repeat \in Results
      /\ job.read.rollback \in [target : Nat, observed : Nat] \cup {Nothing}
      /\ job.read.edits \in Nat /\ job.read.swaps \in Nat
  BY <1>1 DEF SiteInputs, SiteReads, ReviewTypeOK, TreeKept
<1>5. new \in Sites
  BY <1>4 DEF Sites
<1> HIDE DEF new
<1>6. /\ approval = Nothing /\ publication = Nothing /\ authorization = Nothing
      /\ attempts = {}
  BY <1>1, PublicationOrder DEF SiteInputs
<1>7. TypeOK'
  <2>1. ReviewTypeOK'
    BY <1>1, Counters DEF ReviewTypeOK, reviewVars
  <2> QED
    BY <1>1, <1>2, <1>3, <1>4, <1>5, <1>6, <2>1 DEF TypeOK
<1>8. SiteBound'
  <2>1. /\ TreeKept(job.tree, job.read.edits)
        /\ new.candidate = new.proposal.triage.candidate
        /\ edits = job.read.edits =>
              /\ new.candidate.tree = job.tree /\ new.candidate.preflight.source = job.tree
              /\ new.corrections = Files[job.tree].corrections
        /\ ShowsCandidate(new) \/ swaps >= new.swaps + 2
        /\ new.accepted => Accepted(new.proposal)
    BY <1>1, <1>3 DEF SiteInputs, SiteReads, ShowsCandidate
  <2>2. edits = new.edits => FromTree(new)
    BY <1>3, <2>1 DEF TreeKept, FromTree
  <2>3. /\ TreeKept(site.implementation, site.edits)'
        /\ FromTree(site)' <=> FromTree(new)
        /\ ShowsCandidate(site)' <=> ShowsCandidate(new)
        /\ Accepted(site.proposal)' <=> Accepted(new.proposal)
    BY <1>1, <1>2, <1>3, <2>1 DEF FromTree, ShowsCandidate, Accepted, TreeKept
  <2> QED
    BY <1>1, <1>2, <2>1, <2>2, <2>3 DEF SiteBound
<1>9. PackageBound' /\ AttemptsBound'
  BY <1>1, <1>6 DEF PackageBound, AttemptsBound
<1> QED
  BY <1>1, <1>7, <1>8, <1>9, PublicationMoves

\* The approval and the publication package.
LEMMA PublishingStep ==
    ASSUME PublicationInv, Publishing
    PROVE  PublicationInv'
<1>1. /\ TypeOK /\ SiteBound /\ PackageBound /\ AttemptsBound /\ ReviewInv
      /\ now \in Nat
  BY Counters DEF PublicationInv
<1>2. UNCHANGED <<reviewVars, job>> => ReviewTypeOK'
  BY <1>1, ReviewStutters DEF ReviewInv
<1>3. CASE \E e \in 0..MaxTime : Approve(e)
  <2>1. PICK e \in 0..MaxTime : Approve(e)
    BY <1>3
  <2>2. /\ job = Nothing /\ job' = job /\ site # Nothing /\ approval = Nothing
        /\ approval' = [site |-> site, issued |-> now, expires |-> e,
                        provider |-> ObserveProvider]
        /\ UNCHANGED reviewVars
        /\ UNCHANGED <<site, publication, authorization, output, live, shown, receipt,
                       attempts>>
    BY <2>1 DEF Approve
  <2>3. approval'.issued = now /\ approval'.expires = e
    BY <2>2
  <2>4. publication = Nothing /\ authorization = Nothing /\ attempts = {}
    BY <2>2, PublicationOrder
  <2>5. UNCHANGED <<now, tree, edits, swaps, proposals, acceptance>>
    BY <2>2 DEF reviewVars
  <2>6. ReviewTypeOK'
    BY <1>2, <2>2
  <2>7. TypeOK'
    BY <1>1, <2>2, <2>3, <2>4, <2>5, <2>6 DEF TypeOK
  <2>8. SiteBound'
    BY <1>1, <2>2, <2>5 DEF SiteBound, TreeKept, FromTree, ShowsCandidate, Accepted
  <2>9. PackageBound' /\ AttemptsBound'
    BY <1>1, <2>2, <2>3, <2>4 DEF PackageBound, AttemptsBound
  <2> QED
    BY <2>2, <2>7, <2>8, <2>9, PublicationMoves
<1>4. CASE StartPublication
  <2>1. /\ publication = Nothing /\ site # Nothing /\ approval # Nothing
        /\ job' = [Idle EXCEPT !.op = "publish", !.stage = "copy"]
        /\ JobOnly /\ UNCHANGED siteVars
    BY <1>4 DEF StartPublication, Starts, JobOnly
  <2>2. /\ IsCommand(job') /\ job'.op = "publish" /\ job'.stage = "copy" /\ job'.pass = 1
    BY <2>1 DEF Idle, IsCommand
  <2>3. PublicationCommands'
    BY <2>1, <2>2 DEF PublicationCommands, siteVars
  <2> QED
    BY <2>1, <2>2, <2>3, CommandGoesOn DEF SiteCommands, TriageStages
<1>5. CASE SealPublicationPackage
  <2>1. /\ job # Nothing /\ job.op = "publish" /\ job.stage = "copy"
        /\ ApprovalVerifies(approval, site, now)
        /\ publication' = [site |-> site, approval |-> approval]
        /\ job' = [job EXCEPT !.stage = "readback"]
        /\ UNCHANGED reviewVars
        /\ UNCHANGED <<site, approval, authorization, output, live, shown, receipt, attempts>>
        /\ IsCommand(job) /\ CommandInputs
    BY <1>1, <1>5 DEF SealPublicationPackage, Doing, Goes, ReviewInv
  <2>2. /\ site # Nothing /\ approval # Nothing /\ publication = Nothing
    BY <2>1 DEF PublicationInv, PublicationCommands
  <2>3. authorization = Nothing /\ attempts = {}
    BY <2>2, PublicationOrder
  <2>4. /\ IsCommand(job') /\ job'.op = "publish" /\ job'.stage = "readback"
        /\ job'.pass = job.pass
    BY <2>1 DEF IsCommand, Idle
  <2>5. job.pass = 1
    BY <2>1 DEF CommandInputs
  <2>6. publication'.site = site /\ publication'.approval = approval
    BY <2>1
  <2>7. UNCHANGED <<now, tree, edits, swaps, proposals, acceptance, preflights, triages,
                    candidates, package>>
    BY <2>1 DEF reviewVars
  <2>8. ReviewTypeOK'
    BY <1>1, <2>4, <2>5, <2>7 DEF ReviewInv, ReviewTypeOK
  <2>9. TypeOK'
    BY <1>1, <2>1, <2>3, <2>6, <2>7, <2>8 DEF TypeOK
  <2>10. SiteBound'
    BY <1>1, <2>1, <2>7 DEF SiteBound, TreeKept, FromTree, ShowsCandidate, Accepted
  <2>11. ApprovalHolds(publication)'
    BY <2>1, <2>6
    DEF ApprovalVerifies, ApprovalHolds, ApprovesSite, SiteVerifies, ProviderFresh,
        RollbackBound, RollbackFresh
  <2>12. PackageBound' /\ AttemptsBound'
    BY <1>1, <2>1, <2>2, <2>3, <2>6, <2>11 DEF PackageBound, AttemptsBound
  <2>13. PublicationCommands'
    BY <2>1, <2>2, <2>4 DEF PublicationCommands
  <2> QED
    BY <2>1, <2>4, <2>5, <2>9, <2>10, <2>12, <2>13, PublicationMoves
    DEF SiteCommands, TriageStages
<1>6. CASE PublicationReadsBack
  <2>1. job' = Nothing /\ JobOnly /\ UNCHANGED siteVars
    BY <1>6 DEF PublicationReadsBack, JobOnly
  <2> QED
    BY <2>1, CommandGoesOn
<1> QED
  BY <1>3, <1>4, <1>5, <1>6 DEF Publishing

\* What the deploy script found stays true when only what is deployed changes.
LEMMA CommandsStutter ==
    ASSUME PublicationInv, job # Nothing,
           UNCHANGED <<reviewVars, job, site, approval, publication, authorization>>
    PROVE  PublicationCommands'
<1>1. PublicationCommands /\ UNCHANGED <<tree, edits, swaps, candidates, proposals, acceptance>>
  BY DEF PublicationInv, reviewVars
<1>2. job.op = "site" => SiteInputs'
  BY <1>1 DEF PublicationCommands, SiteInputs, TreeKept
<1>3. job.op = "site" => SiteReads'
  BY <1>1 DEF PublicationCommands, SiteReads, OrSwapped, Accepted
<1>4. job.op = "deploy" => MayDeploy(edits)'
  BY <1>1 DEF PublicationCommands, MayDeploy, FromTree, PackageVerifies, ApprovalVerifies,
              ApprovalCurrent, ApprovesSite, SiteVerifies, ProviderFresh, RollbackBound,
              RollbackFresh
<1> QED
  BY <1>1, <1>2, <1>3, <1>4 DEF PublicationCommands

\* The commands of the deploy script, and the attempt.
LEMMA DeployCommandStep ==
    ASSUME PublicationInv, StartDeploy \/ VerifyPackageAgain \/ ValidateAgain \/ Upload
    PROVE  PublicationInv'
<1>1. /\ TypeOK /\ SiteBound /\ PackageBound /\ AttemptsBound /\ ReviewInv
      /\ now \in Nat /\ edits \in Nat /\ swaps \in Nat
  BY Counters DEF PublicationInv
<1>2. CASE StartDeploy
  <2>1. /\ authorization # Nothing /\ tree = authorization.commit
        /\ PackageVerifies(publication, now) /\ Validates(authorization)
        /\ job' = [Idle EXCEPT !.op = "deploy", !.stage = "confirm"]
        /\ JobOnly /\ UNCHANGED siteVars
    BY <1>2 DEF StartDeploy, Starts, RepositoryAt, JobOnly
  <2>2. /\ IsCommand(job') /\ job'.op = "deploy" /\ job'.stage = "confirm" /\ job'.pass = 1
    BY <2>1 DEF Idle, IsCommand
  <2>3. /\ publication # Nothing /\ site # Nothing /\ approval # Nothing
        /\ publication.site = site /\ publication.approval = approval
        /\ approval.issued \in Nat /\ approval.expires \in Nat
        /\ authorization.issued \in Nat /\ approval.issued <= authorization.issued
        /\ site.edits \in Nat
    BY <1>1, <2>1 DEF PackageBound, TypeOK, Sites
  <2>4. /\ authorization.issued <= now /\ site.implementation = authorization.commit
    BY <2>1, <2>3 DEF Validates, NamesPackage
  <2>5. PackageVerifies(publication, authorization.issued)
    BY <1>1, <2>1, <2>3, <2>4 DEF PackageVerifies, ApprovalVerifies, ApprovalCurrent
  <2>6. FromTree(site) \/ edits >= site.edits + 2
    BY <1>1, <2>1, <2>3, <2>4 DEF SiteBound, TreeKept
  <2>7. MayDeploy(edits)
    BY <2>1, <2>4, <2>5, <2>6 DEF MayDeploy
  <2>8. UNCHANGED <<site, publication, authorization, edits>>
    BY <2>1 DEF JobOnly, reviewVars, siteVars
  <2>9. MayDeploy(edits)'
    BY <2>7, <2>8 DEF MayDeploy, FromTree, PackageVerifies, ApprovalVerifies,
              ApprovalCurrent, ApprovesSite, SiteVerifies, ProviderFresh, RollbackBound,
              RollbackFresh
  <2> QED
    BY <2>1, <2>2, <2>9, CommandGoesOn DEF PublicationCommands, SiteCommands, TriageStages
<1>3. CASE VerifyPackageAgain \/ ValidateAgain
  <2>1. /\ job # Nothing /\ job.op = "deploy" /\ IsCommand(job) /\ CommandInputs
        /\ JobOnly /\ UNCHANGED siteVars /\ MayDeploy(edits)
        /\ \/ job' = [job EXCEPT !.stage = "validate"]
           \/ job' = [job EXCEPT !.stage = "upload"]
    BY <1>3 DEF VerifyPackageAgain, ValidateAgain, Doing, Goes, JobOnly, PublicationInv,
                ReviewInv, PublicationCommands
  <2>2. /\ IsCommand(job') /\ job'.op = "deploy" /\ job'.stage \in {"validate", "upload"}
        /\ job'.pass = job.pass
    BY <2>1 DEF IsCommand, Idle
  <2>3. job.pass = 1
    BY <2>1 DEF CommandInputs
  <2>4. UNCHANGED <<site, publication, authorization, edits>>
    BY <2>1 DEF JobOnly, reviewVars, siteVars
  <2>5. MayDeploy(edits)'
    BY <2>1, <2>4 DEF MayDeploy, FromTree, PackageVerifies, ApprovalVerifies,
              ApprovalCurrent, ApprovesSite, SiteVerifies, ProviderFresh, RollbackBound,
              RollbackFresh
  <2> QED
    BY <2>1, <2>2, <2>3, <2>5, CommandGoesOn
    DEF PublicationCommands, SiteCommands, TriageStages
<1>4. CASE Upload
  <2> DEFINE new == [authorization |-> authorization, edits |-> edits, swaps |-> swaps]
  <2>1. /\ job # Nothing /\ MayDeploy(edits) /\ job' = Nothing
        /\ live < MaxDeployments /\ attempts' = attempts \cup {new}
        /\ (live' = live + 1) \/ UNCHANGED <<live, shown>>
        /\ UNCHANGED reviewVars
        /\ UNCHANGED <<site, approval, publication, authorization, output, receipt>>
    BY <1>4 DEF Upload, Doing, PublicationInv, PublicationCommands
  <2>2. new.authorization = authorization /\ new.edits = edits /\ new.swaps = swaps
    OBVIOUS
  <2> HIDE DEF new
  <2>3. UNCHANGED <<now, tree, edits, swaps, proposals, acceptance>>
    BY <2>1 DEF reviewVars
  <2>4. ReviewTypeOK'
    BY <1>1, <2>1, PipelineRests DEF JobOnly, ReviewInv
  <2>5. live' \in 0..MaxDeployments
    BY <1>1, <2>1, SitePublicationConstants DEF TypeOK
  <2>6. TypeOK'
    BY <1>1, <2>1, <2>2, <2>3, <2>4, <2>5 DEF TypeOK
  <2>7. SiteBound'
    BY <1>1, <2>1, <2>3 DEF SiteBound, TreeKept, FromTree, ShowsCandidate, Accepted
  <2>8. PackageBound'
    BY <1>1, <2>1 DEF PackageBound, ApprovalHolds, ApprovesSite, SiteVerifies,
                      ProviderFresh, RollbackBound, RollbackFresh
  <2>9. \A e : MayDeploy(e) => MayDeploy(e)'
    BY <2>1 DEF MayDeploy, FromTree, PackageVerifies, ApprovalVerifies, ApprovalCurrent,
              ApprovesSite, SiteVerifies, ProviderFresh, RollbackBound, RollbackFresh
  <2>10. site # Nothing
    BY <1>1, <2>1 DEF MayDeploy, PackageBound
  <2>11. ShowsCandidate(site) \/ swaps >= site.swaps + 2
    BY <1>1, <2>10 DEF SiteBound
  <2>12. \A a \in attempts' :
            /\ MayDeploy(a.edits) /\ a.edits \in Nat /\ a.swaps \in Nat
            /\ ShowsCandidate(site) \/ a.swaps >= site.swaps + 2
    BY <1>1, <2>1, <2>2, <2>11 DEF AttemptsBound
  <2>13. AttemptsBound'
    BY <2>1, <2>9, <2>12 DEF AttemptsBound, ShowsCandidate
  <2> QED
    BY <2>1, <2>6, <2>7, <2>8, <2>13, PublicationMoves
<1> QED
  BY <1>2, <1>3, <1>4

\* The authorization, the production receipt, and what others do to the output
\* directory, to the deployment and to a site that is not packaged.
LEMMA DeployFileStep ==
    ASSUME PublicationInv,
           \/ \E c \in Trees, i \in now..(now + 1) : Authorize(c, i)
           \/ ObserveProduction \/ StageOutput \/ DamageSite \/ RegenerateOutput
           \/ OtherDeployment
    PROVE  PublicationInv'
<1>1. /\ TypeOK /\ SiteBound /\ PackageBound /\ AttemptsBound /\ ReviewInv
      /\ now \in Nat /\ edits \in Nat /\ swaps \in Nat
  BY Counters DEF PublicationInv
<1>2. UNCHANGED <<reviewVars, job>> => ReviewTypeOK'
  BY <1>1, ReviewStutters DEF ReviewInv
<1>3. UNCHANGED reviewVars => UNCHANGED <<now, tree, edits, swaps, proposals, acceptance>>
  BY DEF reviewVars
<1>4. UNCHANGED <<reviewVars, site>> => SiteBound'
  BY <1>1, <1>3 DEF SiteBound, TreeKept, FromTree, ShowsCandidate, Accepted
<1>5. UNCHANGED <<site, publication, authorization, attempts>> => AttemptsBound'
  BY <1>1 DEF AttemptsBound, MayDeploy, FromTree, ShowsCandidate, PackageVerifies,
              ApprovalVerifies, ApprovalCurrent, ApprovesSite, SiteVerifies,
              ProviderFresh, RollbackBound, RollbackFresh
<1>6. ApprovalHolds(publication) /\ UNCHANGED publication => ApprovalHolds(publication)'
  BY DEF ApprovalHolds, ApprovesSite, SiteVerifies, ProviderFresh, RollbackBound,
         RollbackFresh
<1>7. CASE \E c \in Trees, i \in now..(now + 1) : Authorize(c, i)
  <2>1. PICK c \in Trees, i \in now..(now + 1) : Authorize(c, i)
    BY <1>7
  <2>2. /\ job = Nothing /\ job' = job /\ publication # Nothing /\ authorization = Nothing
        /\ authorization' = [publication |-> publication, commit |-> c,
                             issued |-> i, expires |-> i + AuthorizationAge]
        /\ UNCHANGED reviewVars
        /\ UNCHANGED <<site, approval, publication, output, live, shown, receipt, attempts>>
    BY <2>1 DEF Authorize
  <2>3. authorization'.publication = publication /\ authorization'.issued = i
    BY <2>2
  <2>4. /\ attempts = {} /\ approval # Nothing /\ site # Nothing
        /\ approval.issued \in 0..now
    BY <1>1, <2>2, PublicationOrder DEF PackageBound, TypeOK
  <2>5. i \in Nat /\ approval.issued <= i
    BY <1>1, <2>4
  <2>6. TypeOK'
    BY <1>1, <1>2, <1>3, <2>2, <2>3, <2>4 DEF TypeOK
  <2>7. PackageBound'
    BY <1>1, <1>6, <2>2, <2>3, <2>5 DEF PackageBound
  <2>8. AttemptsBound'
    BY <2>2, <2>4 DEF AttemptsBound
  <2> QED
    BY <1>4, <2>2, <2>6, <2>7, <2>8, PublicationMoves
<1>8. CASE ObserveProduction
  <2>1. /\ job = Nothing /\ job' = job /\ shown # Nothing
        /\ receipt' = [deployment |-> live, site |-> publication.site,
                       rollback |-> approval.provider.target]
        /\ UNCHANGED reviewVars
        /\ UNCHANGED <<site, approval, publication, authorization, output, live, shown,
                       attempts>>
    BY <1>8 DEF ObserveProduction, ReceiptVerifies, ReadbackExact
  <2>2. receipt'.site = publication.site /\ attempts # {}
    BY <1>1, <2>1 DEF PackageBound
  <2>3. TypeOK'
    BY <1>1, <1>2, <1>3, <2>1, <2>2 DEF TypeOK
  <2>4. PackageBound'
    BY <1>1, <1>6, <2>1 DEF PackageBound
  <2> QED
    BY <1>4, <1>5, <2>1, <2>3, <2>4, PublicationMoves
<1>9. CASE StageOutput
  <2>1. /\ job = Nothing /\ job' = job
        /\ UNCHANGED reviewVars
        /\ UNCHANGED <<site, approval, publication, authorization, live, shown, receipt,
                       attempts>>
    BY <1>9 DEF StageOutput
  <2>2. TypeOK'
    BY <1>1, <1>2, <1>3, <2>1 DEF TypeOK
  <2>3. PackageBound'
    BY <1>1, <1>6, <2>1 DEF PackageBound
  <2> QED
    BY <1>4, <1>5, <2>1, <2>2, <2>3, PublicationMoves
<1>10. CASE DamageSite
  <2>1. /\ site # Nothing /\ publication = Nothing /\ job' = job
        /\ site' = [site EXCEPT !.intact = FALSE]
        /\ UNCHANGED reviewVars
        /\ UNCHANGED <<approval, publication, authorization, output, live, shown, receipt,
                       attempts>>
    BY <1>10 DEF DamageSite
  <2>2. authorization = Nothing /\ attempts = {} /\ site \in Sites
    BY <1>1, <2>1, PublicationOrder DEF TypeOK
  <2>3. site' \in Sites /\ site' # Nothing
    BY <2>1, <2>2, NothingIsNoSite DEF Sites
  <2>4. /\ site'.candidate = site.candidate /\ site'.proposal = site.proposal
        /\ site'.implementation = site.implementation /\ site'.manifest = site.manifest
        /\ site'.corrections = site.corrections /\ site'.digest = site.digest
        /\ site'.rendered = site.rendered /\ site'.edits = site.edits
        /\ site'.swaps = site.swaps
    BY <2>1, <2>2 DEF Sites
  <2>5. site'.accepted = site.accepted
    BY <2>1, <2>2 DEF Sites
  <2>6. TypeOK'
    BY <1>1, <1>2, <1>3, <2>1, <2>2, <2>3, <2>4 DEF TypeOK
  <2>7. SiteBound'
    BY <1>1, <1>3, <2>1, <2>4, <2>5
    DEF SiteBound, TreeKept, FromTree, ShowsCandidate, Accepted
  <2>8. PackageBound' /\ AttemptsBound'
    BY <1>1, <2>1, <2>2 DEF PackageBound, AttemptsBound
  <2>9. job # Nothing => PublicationCommands'
    <3>1. job # Nothing => /\ PublicationCommands /\ job.op # "site" /\ job.op # "deploy"
      BY <2>1, <2>2 DEF PublicationInv, PublicationCommands, SiteInputs, MayDeploy
    <3> QED
      BY <2>1, <2>3, <3>1 DEF PublicationCommands
  <2> QED
    BY <2>1, <2>6, <2>7, <2>8, <2>9, PublicationMoves
<1>11. CASE RegenerateOutput \/ OtherDeployment
  <2>1. /\ job' = job /\ (shown' = shown \/ shown' = Nothing)
        /\ live' = live \/ (live < MaxDeployments /\ live' = live + 1)
        /\ UNCHANGED reviewVars
        /\ UNCHANGED <<site, approval, publication, authorization, receipt, attempts>>
    BY <1>11 DEF RegenerateOutput, OtherDeployment
  <2>2. live' \in 0..MaxDeployments
    BY <1>1, <2>1, SitePublicationConstants DEF TypeOK
  <2>3. TypeOK'
    BY <1>1, <1>2, <1>3, <2>1, <2>2 DEF TypeOK
  <2>4. PackageBound'
    BY <1>1, <1>6, <2>1 DEF PackageBound
  <2>5. job # Nothing => PublicationCommands'
    BY <2>1, CommandsStutter
  <2> QED
    BY <1>4, <1>5, <2>1, <2>3, <2>4, <2>5, PublicationMoves
<1> QED
  BY <1>7, <1>8, <1>9, <1>10, <1>11

-----------------------------------------------------------------------------
(* The theorems.                                                           *)

\* The invariant holds at the start.
LEMMA PublicationStarts == Init => PublicationInv
BY ReviewStarts, SitePublicationConstants
DEF Init, PublicationInv, ReviewInv, TypeOK, SiteBound, PackageBound, AttemptsBound,
    ReviewInit

\* Every step preserves it.
LEMMA PublicationStep == PublicationInv /\ [Next]_vars => PublicationInv'
<1> SUFFICES ASSUME PublicationInv, [Next]_vars PROVE PublicationInv'
  OBVIOUS
<1>1. CASE ReviewNext /\ UNCHANGED siteVars
  BY <1>1, PipelineStep
<1>2. CASE Building
  BY <1>2, SiteReadStep, SealStep DEF Building
<1>3. CASE Publishing
  BY <1>3, PublishingStep
<1>4. CASE Deploying
  BY <1>4, DeployCommandStep, DeployFileStep DEF Deploying
<1>5. CASE UNCHANGED vars
  <2>1. UNCHANGED <<reviewVars, job>> /\ UNCHANGED siteVars
    BY <1>5 DEF vars
  <2>2. ReviewInv /\ ReviewInv'
    BY <2>1, ReviewStutters DEF PublicationInv
  <2>3. Onward
    BY <2>1, <2>2, JobOnlyOnward DEF JobOnly
  <2>4. job # Nothing => PublicationCommands'
    BY <2>1, CommandsStutter DEF siteVars
  <2> QED
    BY <2>1, <2>2, <2>3, <2>4, PublicationRests
<1> QED
  BY <1>1, <1>2, <1>3, <1>4, <1>5 DEF Next

\* The invariant behind the theorems that follow: sites, packages, authorizations
\* and attempts are bound to what they were made from.
THEOREM PublicationInvariant == Spec => []PublicationInv
BY PublicationStarts, PublicationStep, PTL DEF Spec

\* What later files hold, the earlier commands have written.
THEOREM TypeCorrect == Spec => []TypeOK
<1>1. PublicationInv => TypeOK
  BY DEF PublicationInv
<1> QED
  BY <1>1, PublicationInvariant, PTL

\* Whatever is edited and replaced while the commands run one after another, an
\* acceptance and a package bind evidence of one tree.
THEOREM EvidenceFromOneTreeHolds == Spec => []EvidenceFromOneTree
<1>1. PublicationInv => EvidenceFromOneTree
  BY ReviewInvBinds DEF PublicationInv
<1> QED
  BY <1>1, PublicationInvariant, PTL

\* Sites, packages and deployments read the pipeline and write nothing of it.
LEMMA SiteLeavesPipeline ==
    ASSUME PublicationInv, Building \/ Publishing \/ Deploying
    PROVE  /\ JobOnly
           /\ \/ job' = job \/ job' = Nothing
              \/ /\ job'.op \in SiteCommands
                 /\ job'.stage \notin ReadingStages \cup {"evidence", "decision"}
<1> USE DEF SiteCommands, ReadingStages
<1>1. job # Nothing => IsCommand(job)
  BY DEF PublicationInv, ReviewInv
<1>2. CASE \E p \in proposals : StartSite(p)
  BY <1>2 DEF StartSite, Starts, Idle, JobOnly
<1>3. CASE BindReview \/ ReadSiteInputs
  <2>1. JobOnly /\ job # Nothing /\ job.op = "site"
    BY <1>3 DEF BindReview, ReadSiteInputs, Doing, JobOnly
  <2>2. PICK r : \/ job' = [job EXCEPT !.stage = "inputs", !.read = r]
                 \/ job' = [job EXCEPT !.stage = "render", !.read = r]
    BY <1>3, Zenon DEF BindReview, ReadSiteInputs
  <2>3. job'.op = "site" /\ job'.stage \in {"inputs", "render"}
    BY <1>1, <2>1, <2>2 DEF IsCommand, Idle
  <2> QED
    BY <2>1, <2>3
<1>4. CASE RenderSite \/ RebindReview
  <2>1. JobOnly /\ job # Nothing /\ job.op = "site"
    BY <1>4 DEF RenderSite, RebindReview, Doing, JobOnly
  <2>2. job'.op = "site" /\ job'.stage \in {"rebind", "seal"}
    BY <1>1, <1>4, <2>1 DEF RenderSite, RebindReview, Goes, IsCommand, Idle
  <2> QED
    BY <2>1, <2>2
<1>5. CASE StartPublication \/ StartDeploy
  BY <1>5 DEF StartPublication, StartDeploy, Starts, Idle, JobOnly
<1>6. CASE SealPublicationPackage \/ VerifyPackageAgain \/ ValidateAgain
  <2>1. JobOnly /\ job # Nothing /\ job.op \in {"publish", "deploy"}
    BY <1>6 DEF SealPublicationPackage, VerifyPackageAgain, ValidateAgain, Doing, JobOnly
  <2>2. job'.op = job.op /\ job'.stage \in {"readback", "validate", "upload"}
    BY <1>1, <1>6, <2>1
    DEF SealPublicationPackage, VerifyPackageAgain, ValidateAgain, Goes, IsCommand, Idle
  <2> QED
    BY <2>1, <2>2
<1>7. CASE SealSite \/ PublicationReadsBack \/ Upload
  BY <1>7 DEF SealSite, PublicationReadsBack, Upload, JobOnly
<1>8. CASE \/ \E e \in 0..MaxTime : Approve(e)
           \/ \E c \in Trees, i \in now..(now + 1) : Authorize(c, i)
           \/ ObserveProduction \/ StageOutput \/ DamageSite \/ RegenerateOutput
           \/ OtherDeployment
  BY <1>8 DEF Approve, Authorize, ObserveProduction, StageOutput, DamageSite,
              RegenerateOutput, OtherDeployment, JobOnly, siteVars
<1> QED
  BY <1>2, <1>3, <1>4, <1>5, <1>6, <1>7, <1>8 DEF Building, Publishing, Deploying

\* What is known of the evidence and of the policy is therefore kept by every
\* step of the whole system.
LEMMA ReviewKnowledgeStep ==
    ASSUME PublicationInv, PublicationInv', AgreementInv, PolicyInv, [Next]_vars
    PROVE  AgreementInv' /\ PolicyInv'
<1>1. ReviewInv'
  BY DEF PublicationInv
<1>2. CASE ReviewNext
  BY <1>1, <1>2, AgreementStep, PolicyStep
<1>3. CASE UNCHANGED <<reviewVars, job>>
  BY <1>1, <1>3, AgreementRests, PolicyRests
<1>4. CASE Building \/ Publishing \/ Deploying
  <2>1. CASE job' = job
    BY <1>3, <1>4, <2>1, SiteLeavesPipeline DEF JobOnly
  <2>2. CASE job' # job
    BY <1>1, <1>4, <2>2, SiteLeavesPipeline, AgreementStarts, PolicyStarts
    DEF SiteCommands, ReadingStages
  <2> QED
    BY <2>1, <2>2
<1> QED
  BY <1>2, <1>3, <1>4 DEF Next, vars

\* It is an invariant with PublicationInv.
THEOREM ReviewKnowledge == Spec => [](AgreementInv /\ PolicyInv)
<1>1. Init /\ PublicationInv => AgreementInv /\ PolicyInv
  BY AgreementInit, PolicyInit DEF Init, PublicationInv
<1> QED
  BY <1>1, ReviewKnowledgeStep, PublicationInvariant, PTL DEF Spec

\* Results, digests and evidence of a review are read at different times.  What
\* the acceptance command accepts, and what a confirmed review says, is one pair
\* of candidates, unless directories were replaced more than three times.
THEOREM AcceptedDescribesOneHolds == Spec => []AcceptedDescribesOne
BY ReviewKnowledge, AgreementDescribes, PTL

\* The policy of a decision is read first and its digest is taken last.  Both
\* are of the tree of the candidates the acceptance command accepts, unless the
\* files were edited more than twice.
THEOREM PolicyFromOneTreeHolds == Spec => []PolicyFromOneTree
BY ReviewKnowledge, PolicyBinds, PTL

\* The production receipt of an attempt verifies whenever the provider shows its
\* site: package and approval were current when the authorization was issued.
THEOREM AttemptEvidencedHolds == Spec => []AttemptEvidenced
<1>1. PublicationInv => AttemptEvidenced
  <2> SUFFICES ASSUME PublicationInv, NEW a \in attempts,
                      ReadbackExact(a.authorization.publication)
               PROVE  ReceiptVerifies(a.authorization)
    BY DEF AttemptEvidenced
  <2>1. a.authorization = authorization /\ authorization # Nothing
        /\ authorization.publication = publication
        /\ PackageVerifies(publication, authorization.issued)
    BY DEF PublicationInv, TypeOK, AttemptsBound, MayDeploy
  <2> QED
    BY <2>1 DEF ReceiptVerifies
<1> QED
  BY <1>1, PublicationInvariant, PTL

\* What was deployed from a tree edited at most once and a candidate replaced at
\* most once since the site was built is of one tree, and is what the operator
\* accepted.
THEOREM DeployedWasReviewedHolds == Spec => []DeployedWasReviewed
<1>1. PublicationInv => DeployedWasReviewed
  <2> SUFFICES ASSUME PublicationInv, NEW a \in attempts,
                      a.edits - a.authorization.publication.site.edits <= 1,
                      a.swaps - a.authorization.publication.site.swaps <= 1
               PROVE  LET s == a.authorization.publication.site
                      IN  /\ {s.implementation, s.candidate.tree,
                              s.candidate.preflight.source} = {a.authorization.commit}
                          /\ {s.corrections, s.digest}
                                = {Files[a.authorization.commit].corrections}
                          /\ s.intact /\ s.manifest = s.candidate
                          /\ s.rendered = s.candidate.results
                          /\ s.candidate = acceptance.proposal.triage.candidate
    BY DEF DeployedWasReviewed
  <2>1. /\ a.authorization = authorization /\ MayDeploy(a.edits)
        /\ a.edits \in Nat /\ a.swaps \in Nat
        /\ ShowsCandidate(site) \/ a.swaps >= site.swaps + 2
        /\ TypeOK /\ SiteBound /\ PackageBound
    BY DEF PublicationInv, TypeOK, AttemptsBound
  <2>2. /\ authorization # Nothing /\ authorization.publication = publication
        /\ publication # Nothing /\ publication.site = site /\ site # Nothing
        /\ ApprovalHolds(publication) /\ site \in Sites
        /\ site.implementation = authorization.commit
        /\ FromTree(site) \/ a.edits >= site.edits + 2
    BY <2>1 DEF MayDeploy, PackageBound, TypeOK
  <2>3. site.edits \in Nat /\ site.swaps \in Nat
    BY <2>2 DEF Sites
  <2>4. FromTree(site) /\ ShowsCandidate(site)
    BY <2>1, <2>2, <2>3
  <2>5. site.intact /\ site.accepted
    BY <2>2 DEF ApprovalHolds, ApprovesSite, SiteVerifies
  <2>6. site.candidate = acceptance.proposal.triage.candidate
    BY <2>1, <2>2, <2>5 DEF SiteBound, Accepted
  <2> QED
    BY <2>1, <2>2, <2>4, <2>5, <2>6 DEF FromTree, ShowsCandidate
<1> QED
  BY <1>1, PublicationInvariant, PTL
=============================================================================
