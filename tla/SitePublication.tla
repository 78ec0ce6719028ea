--------------------------- MODULE SitePublication ---------------------------
(***************************************************************************)
(* From an accepted review to a deployment: the site candidate             *)
(* (src/mcp_trust/site/candidate.py), the publication approval and package *)
(* (src/mcp_trust/site/publication.py), the authorization                  *)
(* (scripts/validate_deploy_authorization.py) and scripts/                 *)
(* deploy_production.sh, composed with the pipeline of GradeReview, whose  *)
(* candidates, proposals and acceptances they consume.                     *)
(*                                                                         *)
(* The operator runs one command at a time.  Meanwhile the tracked files   *)
(* are edited, candidates are replaced, evidence expires, the output       *)
(* directory is regenerated and somebody else deploys.                     *)
(***************************************************************************)
EXTENDS GradeReview

CONSTANTS
    RollbackAge,    \* freshness of the provider's rollback evidence
    ApprovalAge,    \* MAX_APPROVAL_FRESHNESS_SECONDS
    AuthorizationAge, \* MAX_VALIDITY of an authorization
    MaxDeployments  \* bound on the deployments

ASSUME SitePublicationConstants ==
    {RollbackAge, ApprovalAge, AuthorizationAge, MaxDeployments} \subseteq Nat

VARIABLES
    site,           \* the site candidate, or Nothing
    approval,       \* the publication approval, or Nothing
    publication,    \* the publication package, or Nothing
    authorization,  \* the deployment authorization, or Nothing
    output,         \* what the directory site/ holds
    live,           \* the number of the deployment that is live
    shown,          \* the site it shows, or Nothing for another one
    receipt,        \* the production publication receipt, or Nothing
    attempts        \* history: the deployments attempted by the script

siteVars == <<site, approval, publication, authorization, output, live, shown,
              receipt, attempts>>

vars == <<reviewVars, siteVars, job>>

-----------------------------------------------------------------------------
(* build_site_candidate.                                                   *)

\* The semantics of a review that may become a site: a proposal under a source
\* policy.  Acceptances of a boundary policy are not admitted.
SourceReview(p) == p.policy \notin Boundary

\* The review names the candidate, and its forward baseline is that of the
\* tracked files.
ForwardBaselineHolds(p) ==
    /\ p.triage.candidate = candidates["first"]
    /\ CatalogCurrent(p.triage.preflight)

\* verify_site_candidate_review: the candidate is current and complete, and the
\* review is about it.
ReviewAdmits(p) ==
    /\ CandidateVerifies(candidates["first"])
    /\ SourceReview(p)
    /\ ForwardBaselineHolds(p)

\* The binding says whether the disposition policy has accepted the review.
Accepted(p) ==
    acceptance # Nothing /\ acceptance.kind = "source" /\ acceptance.proposal = p

Binding(p) ==
    [candidate |-> candidates["first"], proposal |-> p, accepted |-> Accepted(p)]

\* The implementation binding is taken before the builder is called.
StartSite(p) ==
    /\ site = Nothing
    /\ Starts([Idle EXCEPT !.op = "site", !.stage = "bind", !.tree = tree,
                 !.proposal = p, !.read = [edits |-> edits, swaps |-> swaps]])
    /\ UNCHANGED <<reviewVars, siteVars>>

BindReview ==
    /\ Doing("site", "bind")
    /\ ReviewAdmits(job.proposal)
    /\ job' = [job EXCEPT !.stage = "inputs",
                 !.read = [edits |-> @.edits, swaps |-> @.swaps,
                           binding |-> Binding(job.proposal)]]
    /\ UNCHANGED <<reviewVars, siteVars>>

\* What the provider's metadata say about the deployment to roll back to, and
\* the binding built from them, which is fresh for a while.
ObserveProvider == [target |-> live, observed |-> now]

RollbackFresh(r, t) == t <= r.observed + RollbackAge

\* The candidate's manifest, the masking file, which must be the candidate's, the
\* corrections, and the rollback binding, if one is given.
ReadSiteInputs ==
    /\ Doing("site", "inputs")
    /\ candidates["first"] # Nothing
    /\ Files[candidates["first"].tree].catalog = CatalogInputs
    /\ \E rollback \in {ObserveProvider, Nothing} :
          job' = [job EXCEPT !.stage = "render",
                    !.read = [edits |-> @.edits, swaps |-> @.swaps, binding |-> @.binding,
                              manifest |-> candidates["first"],
                              corrections |-> Files[tree].corrections,
                              rollback |-> rollback]]
    /\ UNCHANGED <<reviewVars, siteVars>>

\* generate_site reads the registry database of the candidate.
RenderSite ==
    /\ Doing("site", "render")
    /\ job' = [job EXCEPT !.stage = "rebind", !.repeat = candidates["first"].results]
    /\ UNCHANGED <<reviewVars, siteVars>>

\* Mutant: the review is not verified again after the rendering.
SkipRebind ==
    /\ Doing("site", "rebind")
    /\ Goes("seal")
    /\ UNCHANGED <<reviewVars, siteVars>>

\* The review and the provider's evidence are verified again, and the binding
\* must be the same.
RebindReview ==
    /\ Doing("site", "rebind")
    /\ ReviewAdmits(job.proposal)
    /\ job.read.binding = Binding(job.proposal)
    /\ job.read.rollback # Nothing => RollbackFresh(job.read.rollback, now)
    /\ Goes("seal")
    /\ UNCHANGED <<reviewVars, siteVars>>

\* The digest of the corrections is taken once more.
SealSite ==
    /\ Doing("site", "seal")
    /\ site' = [candidate |-> job.read.binding.candidate,
                proposal |-> job.proposal, accepted |-> job.read.binding.accepted,
                implementation |-> job.tree, manifest |-> job.read.manifest,
                corrections |-> job.read.corrections,
                digest |-> Files[tree].corrections, rendered |-> job.repeat,
                rollback |-> job.read.rollback, intact |-> TRUE,
                edits |-> job.read.edits, swaps |-> job.read.swaps]
    /\ job' = Nothing
    /\ UNCHANGED <<reviewVars, approval, publication, authorization, output, live, shown, receipt, attempts>>

\* verify_site_candidate: the files are those of the manifest.
SiteVerifies(s) == s.intact

\* The public routes of a site with the digests of their bytes.
PublicReadback(s) ==
    [results |-> s.rendered, corrections |-> s.corrections, intact |-> s.intact]

-----------------------------------------------------------------------------
(* The approval, written by the operator, and build_publication_package.   *)

\* The operator stamps the approval honestly, over a fresh observation of the
\* provider.
Approve(expires) ==
    /\ job = Nothing
    /\ site # Nothing /\ approval = Nothing
    /\ approval' = [site |-> site, issued |-> now, expires |-> expires,
                    provider |-> ObserveProvider]
    /\ UNCHANGED <<reviewVars, site, publication, authorization, output, live, shown, receipt, attempts, job>>

\* The approval is current at time t, and short enough.
ApprovalCurrent(a, t) ==
    /\ a.issued < a.expires /\ a.expires <= a.issued + ApprovalAge
    /\ a.issued <= t /\ t <= a.expires

\* It is an approval of this site candidate, whose review was accepted.
ApprovesSite(a, s) == SiteVerifies(s) /\ a.site = s /\ s.accepted

\* It does not outlive the provider's evidence.
ProviderFresh(a) == a.expires <= a.provider.observed + ApprovalAge

\* It does not outlive the rollback binding, and the provider still showed the
\* deployment the site rolls back to.
RollbackBound(a, s) ==
    /\ s.rollback # Nothing
    /\ RollbackFresh(s.rollback, a.expires)
    /\ a.provider.target = s.rollback.target

\* verify_publication_approval at time t, against the site candidate s.
ApprovalVerifies(a, s, t) ==
    /\ ApprovalCurrent(a, t)
    /\ ApprovesSite(a, s)
    /\ ProviderFresh(a)
    /\ RollbackBound(a, s)

StartPublication ==
    /\ publication = Nothing
    /\ site # Nothing /\ approval # Nothing
    /\ ApprovalVerifies(approval, site, now)
    /\ Starts([Idle EXCEPT !.op = "publish", !.stage = "copy"])
    /\ UNCHANGED <<reviewVars, siteVars>>

\* The copy is verified against the approval before the rename.
SealPublicationPackage ==
    /\ Doing("publish", "copy")
    /\ ApprovalVerifies(approval, site, now)
    /\ publication' = [site |-> site, approval |-> approval]
    /\ Goes("readback")
    /\ UNCHANGED <<reviewVars, site, approval, authorization, output, live, shown, receipt, attempts>>

\* verify_publication_package at time t.
PackageVerifies(p, t) == ApprovalVerifies(p.approval, p.site, t)

PublicationReadsBack ==
    /\ Doing("publish", "readback")
    /\ PackageVerifies(publication, now)
    /\ job' = Nothing
    /\ UNCHANGED <<reviewVars, siteVars>>

-----------------------------------------------------------------------------
(* deploy_production.sh.                                                   *)

\* The operator authorizes a commit and a package, for a window that may begin
\* later.
Authorize(commit, issued) ==
    /\ job = Nothing
    /\ publication # Nothing /\ authorization = Nothing
    /\ authorization' = [publication |-> publication, commit |-> commit,
                         issued |-> issued, expires |-> issued + AuthorizationAge]
    /\ UNCHANGED <<reviewVars, site, approval, publication, output, live, shown, receipt, attempts, job>>

\* The authorization names this package, whose site was built from the commit.
NamesPackage(a) ==
    /\ a.publication = publication
    /\ publication.site.implementation = a.commit

\* The packaged site is verified anew, and the output directory holds exactly
\* the packaged files.
PackagedSiteVerifies == publication.site.intact
OutputIsPackaged == PackagedSiteVerifies /\ output = publication.site

\* Mutant: an authorization may be used before it begins.
ValidatesUnexpired(a) == NamesPackage(a) /\ OutputIsPackaged /\ now < a.expires

\* validate.
Validates(a) ==
    /\ NamesPackage(a)
    /\ OutputIsPackaged
    /\ a.issued <= now /\ now < a.expires

\* HEAD is the commit, the worktree is clean and the branch is published.
RepositoryAt(commit) == tree = commit

\* The repository is looked at once; then both verifiers run.
StartDeploy ==
    /\ authorization # Nothing
    /\ RepositoryAt(authorization.commit)
    /\ PackageVerifies(publication, now)
    /\ Validates(authorization)
    /\ Starts([Idle EXCEPT !.op = "deploy", !.stage = "confirm"])
    /\ UNCHANGED <<reviewVars, siteVars>>

\* Both verifiers run again after the confirmation, the package first.
VerifyPackageAgain ==
    /\ Doing("deploy", "confirm")
    /\ PackageVerifies(publication, now)
    /\ Goes("validate")
    /\ UNCHANGED <<reviewVars, siteVars>>

ValidateAgain ==
    /\ Doing("deploy", "validate")
    /\ Validates(authorization)
    /\ Goes("upload")
    /\ UNCHANGED <<reviewVars, siteVars>>

\* The provider reads the output directory; whether the deployment becomes
\* live is not known from the exit code.
Upload ==
    /\ Doing("deploy", "upload")
    /\ live < MaxDeployments
    /\ attempts' = attempts \cup
          {[authorization |-> authorization, edits |-> edits, swaps |-> swaps]}
    /\ \/ live' = live + 1 /\ shown' = output
       \/ UNCHANGED <<live, shown>>
    /\ job' = Nothing
    /\ UNCHANGED <<reviewVars, site, approval, publication, authorization, output, receipt>>

\* Every public route answers with the packaged bytes.
ReadbackExact(p) == shown # Nothing /\ PublicReadback(shown) = PublicReadback(p.site)

\* verify_production_publication_receipt: package and approval are verified as
\* of the issuance of the authorization.
ReceiptVerifies(a) ==
    /\ a.publication = publication
    /\ PackageVerifies(a.publication, a.issued)
    /\ ReadbackExact(a.publication)

\* The receipt is written and verified by hand, however much later.
ObserveProduction ==
    /\ job = Nothing
    /\ receipt = Nothing
    /\ authorization # Nothing
    /\ ReceiptVerifies(authorization)
    /\ receipt' = [deployment |-> live, site |-> publication.site,
                   rollback |-> approval.provider.target]
    /\ UNCHANGED <<reviewVars, site, approval, publication, authorization, output, live,
                   shown, attempts, job>>

-----------------------------------------------------------------------------
(* The environment.                                                        *)

\* The operator copies the packaged site to the output directory.
StageOutput ==
    /\ job = Nothing
    /\ publication # Nothing
    /\ output # publication.site
    /\ output' = publication.site
    /\ UNCHANGED <<reviewVars, site, approval, publication, authorization, live, shown, receipt, attempts, job>>

\* Somebody changes the site candidate.  Once it is packaged nothing reads it.
DamageSite ==
    /\ site # Nothing /\ publication = Nothing
    /\ site.intact
    /\ site' = [site EXCEPT !.intact = FALSE]
    /\ UNCHANGED <<reviewVars, approval, publication, authorization, output, live, shown,
                   receipt, attempts, job>>

\* build_site.py writes the output directory anew.
RegenerateOutput ==
    /\ output # Nothing
    /\ output' = Nothing
    /\ UNCHANGED <<reviewVars, site, approval, publication, authorization, live, shown, receipt, attempts, job>>

\* Somebody else deploys.  Before the site build observes the provider that
\* makes no difference.
OtherDeployment ==
    /\ live < MaxDeployments
    /\ site # Nothing \/ Doing("site", "rebind") \/ Doing("site", "render")
    /\ live' = live + 1 /\ shown' = Nothing
    /\ UNCHANGED <<reviewVars, site, approval, publication, authorization, output, receipt,
                   attempts, job>>

Init ==
    /\ ReviewInit
    /\ site = Nothing /\ approval = Nothing /\ publication = Nothing
    /\ authorization = Nothing /\ output = Nothing
    /\ live = 0 /\ shown = Nothing
    /\ receipt = Nothing /\ attempts = {}

Building ==
    \/ \E p \in proposals : StartSite(p)
    \/ BindReview \/ ReadSiteInputs \/ RenderSite \/ RebindReview \/ SealSite

Publishing ==
    \/ \E e \in 0..MaxTime : Approve(e)
    \/ StartPublication \/ SealPublicationPackage \/ PublicationReadsBack

Deploying ==
    \/ \E c \in Trees, i \in now..(now + 1) : Authorize(c, i)
    \/ StartDeploy \/ VerifyPackageAgain \/ ValidateAgain \/ Upload
    \/ ObserveProduction \/ StageOutput \/ DamageSite \/ RegenerateOutput \/ OtherDeployment

Next ==
    \/ ReviewNext /\ UNCHANGED siteVars
    \/ Building \/ Publishing \/ Deploying

Spec == Init /\ [][Next]_vars

-----------------------------------------------------------------------------
(* Properties.                                                             *)

\* A site candidate, as the builder seals it.
Sites ==
    [candidate : Candidates, proposal : Decisions, accepted : BOOLEAN,
     implementation : Trees, manifest : Candidates,
     corrections : {Files[t].corrections : t \in Trees},
     digest : {Files[t].corrections : t \in Trees}, rendered : Results,
     rollback : [target : Nat, observed : Nat] \cup {Nothing},
     intact : BOOLEAN, edits : Nat, swaps : Nat]

ASSUME NothingIsNoSite == Nothing \notin Sites

\* What later files hold, the earlier commands have written.
TypeOK ==
    /\ ReviewTypeOK
    /\ site \in Sites \cup {Nothing}
    /\ site # Nothing => site.proposal \in proposals
    /\ approval # Nothing => site # Nothing /\ approval.issued \in 0..now
    /\ publication # Nothing => publication.approval = approval
    /\ authorization # Nothing => authorization.publication = publication
    /\ live \in 0..MaxDeployments
    /\ \A a \in attempts : a.authorization = authorization
    /\ receipt # Nothing => receipt.site = publication.site /\ attempts # {}

\* The production receipt is verified as of the issuance of the authorization:
\* whenever the provider shows the site of an attempt the receipt verifies,
\* however long ago package, approval and authorization have expired.
AttemptEvidenced ==
    \A a \in attempts :
        ReadbackExact(a.authorization.publication) => ReceiptVerifies(a.authorization)

\* The implementation, the candidate, its manifest, its database and the
\* corrections are read at different times.  A site that was deployed from a
\* tree edited at most once and a candidate replaced at most once since then
\* was built from one tree, and shows the results the operator accepted.
DeployedWasReviewed ==
    \A a \in attempts :
        LET s == a.authorization.publication.site
        IN  a.edits - s.edits <= 1 /\ a.swaps - s.swaps <= 1 =>
              /\ {s.implementation, s.candidate.tree,
                  s.candidate.preflight.source} = {a.authorization.commit}
              /\ {s.corrections, s.digest} = {Files[a.authorization.commit].corrections}
              /\ s.intact /\ s.manifest = s.candidate
              /\ s.rendered = s.candidate.results
              /\ s.candidate = acceptance.proposal.triage.candidate

-----------------------------------------------------------------------------
(* The inductive invariant behind AttemptEvidenced and                     *)
(* DeployedWasReviewed, by parts.                                          *)

\* Nothing was edited since there had been e edits and the tree was t, or one
\* edit has led to another tree.
TreeKept(t, e) ==
    /\ e \in Nat /\ e <= edits
    /\ edits = e => tree = t
    /\ edits = e + 1 => tree # t

\* The candidate and the corrections of a site are of the tree of its
\* implementation.
FromTree(s) ==
    /\ s.candidate.tree = s.implementation
    /\ s.candidate.preflight.source = s.implementation
    /\ s.corrections = Files[s.implementation].corrections
    /\ s.digest = Files[s.implementation].corrections

\* Manifest and database of a site are those of the candidate it names.
ShowsCandidate(s) ==
    s.manifest = s.candidate /\ s.rendered = s.candidate.results

\* What the site build was given.
SiteInputs ==
    /\ site = Nothing
    /\ job.proposal \in proposals /\ job.tree \in Trees
    /\ TreeKept(job.tree, job.read.edits)
    /\ job.read.swaps \in Nat /\ job.read.swaps <= swaps
    /\ job.stage \in {"bind", "inputs", "render", "rebind", "seal"}

\* What was read from the first slot is the bound candidate, unless there were
\* two replacements, or one and another candidate is in the slot.
OrSwapped(same) ==
    \/ same
    \/ swaps >= job.read.swaps + 2
    \/ swaps >= job.read.swaps + 1 /\ candidates["first"] # job.read.binding.candidate

\* What it has read.
SiteReads ==
    LET c == job.read.binding.candidate
    IN  /\ job.stage # "bind" =>
              /\ c \in Candidates /\ candidates["first"] \in Candidates
              /\ job.read.binding.accepted \in BOOLEAN
              /\ job.read.binding.accepted => Accepted(job.proposal)
              /\ c = job.proposal.triage.candidate
              /\ edits = job.read.edits =>
                    c.tree = job.tree /\ c.preflight.source = job.tree
              /\ candidates["first"] = c \/ swaps >= job.read.swaps + 1
        /\ job.stage \in {"render", "rebind", "seal"} =>
              /\ job.read.manifest \in Candidates
              /\ job.read.corrections \in {Files[t].corrections : t \in Trees}
              /\ job.read.rollback \in [target : Nat, observed : Nat] \cup {Nothing}
              /\ edits = job.read.edits =>
                    job.read.corrections = Files[job.tree].corrections
              /\ OrSwapped(job.read.manifest = c)
        /\ job.stage \in {"rebind", "seal"} =>
              job.repeat \in Results /\ OrSwapped(job.repeat = c.results)
        /\ job.stage = "seal" =>
              \/ job.read.manifest = c /\ job.repeat = c.results
              \/ swaps >= job.read.swaps + 2

SiteBound ==
    site # Nothing =>
        /\ TreeKept(site.implementation, site.edits)
        /\ edits = site.edits => FromTree(site)
        /\ ShowsCandidate(site) \/ swaps >= site.swaps + 2
        /\ site.candidate = site.proposal.triage.candidate
        /\ site.accepted => Accepted(site.proposal)

\* Everything a packaged approval is verified against, but the time.
ApprovalHolds(p) ==
    /\ ApprovesSite(p.approval, p.site)
    /\ ProviderFresh(p.approval)
    /\ RollbackBound(p.approval, p.site)

PackageBound ==
    /\ approval # Nothing =>
          approval.issued \in Nat /\ approval.expires \in Nat
    /\ publication # Nothing =>
          /\ site # Nothing /\ approval # Nothing
          /\ publication.site = site /\ ApprovalHolds(publication)
    /\ authorization # Nothing =>
          /\ publication # Nothing /\ authorization.issued \in Nat
          /\ approval.issued <= authorization.issued
    /\ shown # Nothing => attempts # {}

\* What the deploy script has found when it starts, of the edits there were.
MayDeploy(e) ==
    /\ authorization # Nothing
    /\ PackageVerifies(publication, authorization.issued)
    /\ site.implementation = authorization.commit
    /\ FromTree(site) \/ e >= site.edits + 2

PublicationCommands ==
    /\ job.op = "site" => SiteInputs /\ SiteReads
    /\ job.op = "publish" =>
          /\ site # Nothing /\ approval # Nothing
          /\ job.stage = "copy" => publication = Nothing
    /\ job.op = "deploy" => MayDeploy(edits)

AttemptsBound ==
    \A a \in attempts :
        /\ MayDeploy(a.edits)
        /\ a.edits \in Nat /\ a.swaps \in Nat
        /\ ShowsCandidate(site) \/ a.swaps >= site.swaps + 2

PublicationInv ==
    /\ ReviewInv /\ TypeOK
    /\ SiteBound /\ PackageBound /\ AttemptsBound
    /\ job # Nothing => PublicationCommands
=============================================================================
