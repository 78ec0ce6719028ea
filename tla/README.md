# A verification development for mcp-trust

mcp-trust grades MCP servers. Its core is not the grading arithmetic but the
chain of evidence around it: which image a scan ran in, which scans a refresh
took, who approved a refresh for which target, and which snapshot an offline
consumer may believe. This directory models that chain in TLA+. TLC checks
small instances; the TLA+ proof system proves every invariant, action property
and refinement of the passing runs for every value of the constants. Paths below are relative to the repository
(`scripts/...`, `src/mcp_trust/...`); `PROJECT.json` maps each definition to
the lines it stands for.

## 1. Inventory

| part | state it keeps | operations | what is hard | what makes it correct |
|---|---|---|---|---|
| image qualifier, `scripts/qualify_refresh_images.py` | append-only files of a receipt set, Docker tags, `tmp/qualification` | qualify a cohort, clean up an interrupted attempt | several processes, kills, torn files, capacity that expires at any command | one open attempt per cohort, no attempt resolved twice, residue attributable, receipts name a repeated image of the bound source |
| host capacity, `host_capacity.py` | receipts | build, validate, require current | the wall clock is set, the disk changes between readings | builder and validator agree, readings lie apart, admitted receipts are fresh |
| offline snapshot trust, `catalog/snapshot_trust.py` | pinned root, checkpoint (kept by the consumer) | verify a snapshot, verify a root update | anything is delivered in any order; consumers stop between two writes | one chain, no rollback, no fork that heals |
| refresh candidates, `refresh.py` | candidate directories, approvals, staged publications | create, verify, approve, publish | concurrent commands, edits under a running command, damage and swaps, expiry | what is staged is what was approved; only this refresh's grades; masked servers withheld |
| grade refresh evidence, `grade_refresh.py`, `scripts/grade_refresh.py` | preflight and triage receipts, proposals, acceptances | preflight, triage, review, accept, confirm | every command reads many files one after another while they are edited; a capacity window of two minutes inside longer commands | what is accepted is one pair of candidates of one tree |
| operator package, `operator_package.py` | package directories | build, verify | three passes over inputs that change, a rename between them | a package holds what its inputs generate, or is gone |
| target scan, `target_scan.py` | scan artifacts | create, finalise exclusively, verify now, verify the history | races on one output name, a registry file replaced during the scan, three windows of different length | an artifact is about one sandbox run, never replaced, and its history always verifies |
| scan engine, `engine/*.py` | containers, scan processes | scan, time out, terminate, prove absence | timeouts racing with results, leaked containers | a result or an error, and a container that is gone or reported |
| site candidate and publication package, `site/*.py` | site directories, approvals, packages, production receipts | build, verify, package, verify production | implementation, candidate, review and corrections read at different times | a package contains the reviewed site |
| deployment, `scripts/validate_deploy_authorization.py`, `deploy_production.sh`, `web_release_readback.py`, `build_deploy_bundle.py` | authorization, bundle, releases | authorize, deploy, read back | checks before and after a confirmation, an upload of a directory, windows that close | what is live is what was authorized, and can be proved later |
| registry store, `store/*.py` | servers and scans in SQLite | upsert, record, latest | order of scans | the latest scan is well defined |
| grading and drift, `core/*.py` | none | grade, compare | edge cases of rules | order independence, monotonicity |
| catalog and runtime snapshot, `catalog/*.py` | snapshot file | build, admit | a reader stricter or laxer than the writer | the reader admits what the writer writes |
| portability, auth posture, receipts, corpus, dependency preparation | files | build, verify, translate | partial writes, path checks | see the components of `PROJECT.json` |
| HTTP API, pages, MCP server, CLI | none of their own | read requests | snapshot reload | what they show is in the snapshot |

How the parts interact. A host-capacity receipt admits a qualification and is
revalidated before every Docker command. Completed receipt sets are what the
refresh policy points to, and a refresh candidate embeds the qualification of
the tree it runs in. `refresh.py` copies the registry (store), asks the engine
for scans, builds a snapshot (catalog) and stages a candidate; an approval and
a publication copy the candidate to a target. The site and the publication
package are built from it, a deployment from those. A consumer far away only
sees a signed statement and a snapshot. The parts meet
in files, not in messages, and every command is a process that may overlap
with others and may stop anywhere. The engine alone has threads: a worker
talks to the server while the caller watches the container.

## 2. Plan

The order is the order of what could do most harm if it were wrong.

1. **Done, with proofs.** `Qualification`; `SnapshotTrust`;
   `RefreshCandidate`; `HostCapacity`.
2. **Done, with proofs.** `SandboxScan` (engine): scans that share a
   sandbox, from the creation of a container to its verified absence.
3. **Done, with proofs.** `Release`, the abstract exclusive output, and
   `TargetScan`, which implements it; `RefreshCandidate` implements it as well.
4. **Done, with proofs.** `GradeReview`: preflight, triage, review, acceptance
   and operator package as commands over files that change.
5. **Done, with proofs.** `SitePublication`, which extends `GradeReview` with the
   site, the publication package, the authorization and the deployment.
6. Left: `Grading`, `Drift`, `SnapshotAdmission` as operators against reference
   definitions over bounded inputs; dependency preparation, corpus lineage, the
   store.

Abstract specifications worth stating: "a name is written once, with granted
content" (`Release`, implemented by `TargetScan` and by the publications of
`RefreshCandidate`); left are "an attempt is opened, then completed or cleaned
up" (`Qualification`) and "a consumer moves along one chain"
(`SnapshotTrust`).

Theorems left: the two liveness properties are beyond the prover (section 5).
What comes next is what the abstract specifications above would need: that an
attempt of `Qualification` implements its life cycle, and that the consumers of
`SnapshotTrust` implement a chain that each of them follows a prefix of.

## 3. What is modelled

### Qualification

A step is what one process does between two points at which another process,
a kill or an expiry can be noticed: one command, one file, one check.

| code | model |
|---|---|
| `qualification-set.json`, `capacity-*`, `attempt-*`, `ownership-*`, `complete-*`, `cleanup-*`, `<cohort>.json` | `setSrc`, `capFiles`, `intent` with `baseline`, `owner`, `completed`, `cleaned`, `receipt` |
| a directory without a manifest, a torn file | `setSrc[s] = Broken`: no invocation accepts the set again |
| `v0-<attempt>-first`, the cohort's reference | `tempTag`, `finalTag` |
| `tmp/qualification/*.oci.tar`, `*-receipt.json`, `tools/` | `tmp`, `tools` |
| `main`, `_cohort_lock` | `Invoke`, `Return` |
| `_open_receipt_set`, `_main_locked` | `CreateSet`, `WriteManifest`, `AbandonSet`, `OpenSet`, `AdmitQualification`, `AdmitCleanup`, `SnapshotTools`, `SnapshotRefused`, `Teardown` |
| `qualify` | `Probe` ... `WriteReceipt`, in the order of the code |
| `cleanup_interrupted` | `CaptureCleanupCapacity` ... `WriteCleanup` |
| an exception, a short write, a kill | `StepFails`, `WriteFails`, `Crash` |

An attempt is named by the capacity receipt that admits it, because the code
digests that receipt into the attempt id. An image is the cohort, the source
it was built from and what the build adds; two builds of one source may
differ. An archive carries the tag of the attempt that wrote it, so a process
of another set that shares the path is seen. `expired` only grows: a gate
that refuses for a while and then recovers is a `StepFails`. Source versions
do not come back.

### HostCapacity

`real` is the time that passes; the wall clock is `real + skew`, and `SetClock`
moves the skew at any moment. `ReadFirst`, `StampFirst`, `ReadSecond` and
`StampSecond` are the reads and stamps of `build_host_capacity_receipt`; the
file system changes between any two of them. `RequireCurrent` is the gate.
`Qualification` uses a receipt only through that gate: `expired` there is the
set of receipts `RequireCurrent` no longer admits.

### SnapshotTrust

`SnapshotVerified` and `RootUpdateVerified` are the two verifiers, with each
check a conjunct. The verifiers are read-only, so the consumer is part of the
model: `VerifySnapshot` yields a pending checkpoint, `Persist` writes it,
`VerifyRootUpdate`, `PersistRoot` and `Persist` rotate the root in two writes,
and `Crash` comes between any of them. Statements, signers, snapshot bytes
and windows are chosen freely from small sets, so order, loss, repetition and
delay need no network variable. A digest is modelled by what it identifies.

### RefreshCandidate

A command is a record in `job[p]`, with what it has read so far. `StartCreate`,
`Qualify`, `Stage`, `ScanBlocked`, `ScanSucceeds`, `ScanUnproved`, `ScanFails`,
`PublishCandidate`, `SealCandidate` and `CreateReports` are
`create_refresh_candidate`; `StartApprove`, `WriteApproval` and `StartPublish`,
`CheckApproval`, `CopyCandidate`, `RenamePublication`, `SealPublication` are
the other two commands; `Capture` and `Stable` are the two captures around
every verification, whose checks are the conjuncts of `StructurallyValid`. The
policy is read in the same step as the first reading of the source: the second
reading of the source covers both. A digest of a manifest is the content it
lists. The environment may edit the tree, scan the registry, damage a candidate
or put one from another tree in its place, and stop a command at any step. The
revalidation of the qualification leaves out its two-minute capacity gate: the
model admits more verifications than the code (`GradeReview` has the gate).

### Release

What two commands of the program promise of their outputs: `granted` is what may
appear under a name, `store` what has appeared; a name is put once, with granted
content, and stays. `TargetScan` implements it with artifacts as the store and,
as grants, what each finished sandbox run was about. `RefreshCandidate`
implements it with the staged publications as the store and read-only approvals
as grants.

### TargetScan

`world` is what a command reads: source, reviewed inputs, preflight, registry
file, image. `StartCreate`, `Read`, `Scan`, `Reread`, `WriteTemporary`,
`RenameNoReplace` and `CreateSucceeds` are `create_target_scan_artifact` and its
`_exclusive_finalize`; `CreateReads` and `CreateRereads` are the orders in which
it reads and compares. `StartVerify`, `Compare` and `VerifyReports` are
`verify_target_scan_artifact`; `HistoryVerdict` is
`verify_target_scan_artifact_history`. `ArtifactShape` with `ScanReceiptValid` is
`_validate_artifact_shape`, applied before the file is sealed, when it is read
back and by both verifiers; the fixed boundaries, the formats and the digests it
also compares are what it is for a value to be an artifact. The registry file has an identity next to
its content: the bytes may return, the file of an earlier moment does not.
Source, inputs and images do not return to an earlier state here.

### GradeReview and SitePublication

One operator runs one command at a time (`job`); between any two of its reads the
tracked files are edited, a candidate directory is replaced, the clock moves, or
the command stops. A tree is a state of all tracked files, `Files[t]` the record of
those that commands read one by one: catalog inputs, disposition policy, engine
lock, qualification receipts, build sources, dependency inputs and artifacts,
corrections. An edit may go back to an earlier tree.

| code | model |
|---|---|
| `build_preflight_receipt` | `StartPreflight`, `ReadGates`, `ReadImages`, `WritePreflight`: source first, digests of the catalog last |
| `revalidate_ready_preflight_qualifications` | `Revalidates` with `ReadyContract`, `CapacityCurrent`, `EngineVerifies`, `ImagesVerify` |
| `create_refresh_candidate`, `verify_refresh_candidate` | `MakeCandidate` (one step; its own steps are in `RefreshCandidate`), `CandidateVerifies` |
| `triage_candidate` | `StartTriage` ... `WriteTriage`, recomputed by the later commands up to `Recomputed` |
| `build_publication_review_decision` | `StartReview`, `RecomputeTriage`, `ReadEvidence`, `WriteProposal`; under an accepted policy `StartConfirm` ... `WriteConfirmation` |
| `build_v132_boundary_acceptance` | `StartAccept`, `ReproduceProposal`, `WriteArtifact`, `WriteAcceptedPolicy` |
| `build_operator_review_package` | `StartPackage`, `PackageInputs` in three passes, `RenamePackage`, `RemovePackage` |
| `build_site_candidate` with its script | `StartSite` ... `SealSite` |
| `verify_publication_approval`, `build_publication_package` | `ApprovalVerifies`, `StartPublication`, `SealPublicationPackage`, `PublicationReadsBack` |
| `validate_deploy_authorization.py`, `deploy_production.sh` | `Validates`, `StartDeploy`, `VerifyPackageAgain`, `ValidateAgain`, `Upload` |
| `verify_production_publication_receipt` | `ReceiptVerifies`, `ObserveProduction` |

The operator writes approvals, authorizations and the acceptance of a review
under the older policy by hand (`Approve`, `Authorize`, `AcceptSource`). The
output directory is regenerated and somebody else deploys at any time. The gates
of a preflight that look at the machine (a clean worktree, Docker) are choices.

### SandboxScan

Three actors: the calling thread (`StartScan` to `ConfirmAbsent`, one Docker
command or one wait per step), the worker thread of each scan (`Launch` to
`Close`), which nobody joins once its scan has ended, and the daemon with the
server (`ServerExits`, `Materialize`). `prepared` is `_container_id`, `env` the
dummy credentials of the sandbox, `late` the create requests whose client has
gone. `CreateTimesOut` starts the settle polls of `prepare_owned_container`,
each a whole cleanup. `ConnectionEnds` stands for every way `connect` can fail
or time out, the bounded wait of the gate included. `ProbeAttests` is the
attestation at the moment of its last command; of its controls the model keeps
those that depend on the history: identity and liveness (`ObservedRunning`),
network and environment (`ControlsVerified`).
The other controls and the readback of capabilities are inputs, so their
failure is `ProbeFails`.

## 4. Runs

| run | instance | shows |
|---|---|---|
| `qual_two_sets` | 2 processes, 2 sets, 1 cohort, 2 receipts, 2 builds that may differ, kills and torn writes | `OneOpenAttempt`, `RefusalHasOrphan`, `ReceiptRepeatable`, `FinalTagAuthorized` |
| `qual_ends` | 1 process, 1 set, 1 cohort, 3 receipts, 1 source change, all faults, fairness | `NoConflictingResolution`, `ResidueHasIntent`, `ReceiptBindsSource`, `InvocationEnds` |
| `qual_shared_tools` | 2 processes, 2 sets, no faults | a finding, see below |
| `qual_cleanup_retry` | 1 process, no faults | a finding |
| `trust_chain` | 2 consumers, 3 roots (one invalid), 3 publications, 2 snapshots, 2 windows | `NoRollback`, `AcceptedChain`, `SplitsStaySplit` |
| `trust_replay` | the same | a finding |
| `refresh_one` | 1 command, 2 servers, one masked in one tree and blocked in the other, expiry of candidates and approvals | `PublishedAsApproved`, `PublishedGradesAreOwn`, `PublishedFromOneTree`, `CandidateWithholds` |
| `refresh_race` | 2 commands on one name, 1 server, fixtures too, damage and a candidate of another tree; the registry rests | `ImplementsRelease` |
| `target_scans` | 2 commands on one name, 2 registry contents, 2 changes, 1 further preflight, 2 sandbox runs, capacity that expires | `HistoryAccepts`, `VerifiedWasCurrent`, `ImplementsRelease` |
| `evidence_chain` | 3 trees, 2 edits, 2 replaced candidates, 2 results, 1 preflight, 1 triage, expiry of everything | `AcceptedDescribesOne`, `EvidenceFromOneTree`, `PolicyFromOneTree`, `AttemptEvidenced`, `DeployedWasReviewed` |
| `sandbox_scans` | 2 scans of one sandbox, 1 credential name, with and without a network, 1 settle poll, fairness of the calling thread only | `AbsenceStays`, `ResultAttested`, `NameHeld`, `CredentialsContained`, `ScanEnds` |
| `host_capacity` | 4 states of the disk, 3 units of time, 2 adjustments of the clock | `ReadyIffValid`, `ReadyObservedTwice`, `AdmittedFresh` |

Why the bounds are enough. The interesting cases of the qualifier need a
failed attempt, its cleanup and a retry (three receipts), or two sets that meet
in the shared directory and tag (two processes). Its evidence is per cohort, and
the theorems about attempts hold for any number of cohorts.
A chain needs three publications to have a middle, two consumers to differ
and a rotation between two of them. A candidate needs one server of each kind
and two trees to disagree. The second server of `refresh_one` is never fresh, so
when an ordinary scan of it was made is of no consequence and the constraint
`SecondRests` keeps one such time; `refresh_race` is about the two commands and
leaves the registry alone (`RegistryRests`). A target scan needs two changes: one
during the scan and one that hides it. In `evidence_chain` the first two trees
differ in the dependency inputs alone, which makes the images of the second one
unqualified, and the third has another policy, catalog and code; two edits can go to any of them and back.
Its constraints look at one product at a time (`OneProduct`: the operator package
or the site, neither of which reads the other) and let the review commands rest
once there is a site (`ReviewRests`: what follows reads no other receipt); results are interchangeable
(`ResultSymmetry`). `HostCapacity` needs one device change, one growth
and one clock step each way inside one build and one gate. What one scan can leave to the next one
in `SandboxScan` (an id, credentials, a worker, a late request, a container)
needs two scans; 20 settle polls behave as
one does, since each is a whole cleanup like the last one.
The theorems of section 5 need none of these bounds and constraints. Each
property has a mutant of the model in `PROJECT.json` that violates it at these
bounds, so the cases happen.

Deadlock is not checked: nobody has to start a command, receipts and times are
bounded, and a set that is refused for ever stops its processes by design.

Fairness is used twice. In `Qualification`, `FairSpec` says that a running
process keeps executing (weak fairness of `Advance(p)`): the code has no wait
other than subprocess timeouts, and a timeout is a `StepFails`. In
`SandboxScan` it says the same of the calling thread alone, whose Docker
commands and whose join of the worker all have timeouts. Nothing is assumed of
the operator, of the source, of the capacity, of the worker, of the daemon or
of the server.

`DeployedWasReviewed` is exact about its limit. A single edit, or a single
replacement of the candidate, after the implementation binding of a site is
always noticed before the deployment. Two are not: the tree or the directory may
change for one of the reads of the builder and change back, and nothing later
compares what that read returned. `PolicyFromOneTree` and `AcceptedDescribesOne`
count in the same way over the whole review: the second reading in the acceptance
catches two edits, and three replaced directories; one more of either deceives
it. `EvidenceFromOneTree` has no such limit: the preflight that a candidate
embeds is compared with the tree when the candidate is verified, in one step.

### Disagreements with the documentation

- **The lock does not separate sets.** README 374-376: "A per-set process lock
  and attempt-unique temporary tag prevent concurrent qualification from
  sharing mutation state." The tool snapshot, the archives and the final tag
  are shared by all sets; `SnapshotNotShared` fails without any crash.
- **An interrupted cleanup cannot be retried.** README 358-360 tells the
  operator to issue a new cleanup receipt. `cleanup_interrupted` writes its
  capacity file before the gated commands; if they are refused the file stays
  unreferenced and `_validate_set_graph` refuses the set from then on
  (`CleanupCanBeRetried`).
- **Replay after a rotation.** `docs/OFFLINE-SNAPSHOT-TRUST-V1.md` 167: "An
  exact replay of the current checkpoint is idempotent." After a root update
  the checkpoint keeps a statement of the old root version, and verifying it
  gives `ROOT_VERSION_MISMATCH` (`ReplayIdempotent`).

The chain model also explains a behaviour no document promises away: a
consumer that missed a publication which has since expired can accept neither
it (expired) nor its successors (wrong predecessor). The sandbox model has two
more: an engine whose connector lacks the expected hook raises after the
container is prepared and before the guarded part, so the container stays
(`ConnectorUnusable`), and a create request that the daemon serves after the
settle polls leaves a container behind an error.

## 5. Proofs

Each component has its proofs in a module of its own, `<Module>Proofs`. They
hold for any number of processes, sets, receipts, samples, consumers, roots,
statements, servers, targets, commands, trees, results and deployments, for any
bounds, and without the constraints and symmetries of the runs. The
assumptions are those the modules name: `QualificationConstants`,
`HostCapacityConstants`, `SandboxScanConstants`, `SnapshotTrustConstants`,
`RefreshConstants`, `TargetScanConstants`, `GradeReviewConstants` and
`SitePublicationConstants`. They say that sets overlap nowhere, that bounds and
windows are naturals, and that what stands for "no such file" (`Nothing`,
`NoScan`, `Nobody`, `NoRoot`; `NothingIsNoCandidate` and `NothingIsNoSite` next to
the records they are about) is none of the values. The others say that a
subset is one (the authorized registry content, the pinned first roots, the
masked and blocked servers, the trees), and one is a fact of the code:
`HOST_CAPACITY_MAX_AGE_SECONDS` is shorter than `DEFAULT_MAX_AGE_HOURS`. TLC evaluates all of them in the runs.

The inductive invariants that TLC has checked first are stated in the modules of
their components (`Qualification`, `GradeReview`, `SitePublication`), the others
beside their proofs.

**Qualification.** `TypeCorrect` is by cases on the actions. The attempt
properties are not inductive: that two attempts are never both open depends on
who holds the lock, on what the process read when it opened the set, and on the
order of the files. `AttemptInv` collects that: `OneProcessPerSet` (the lock),
`JobScoped` (the scope of a receipt), `FilesOrdered` and `NewSetsEmpty` (the
order in which files appear), `AttemptOpen` and `CleanupTargetOpen` (what a
process may rely on at each label). `AttemptInvariant` proves it by one step
per action (`AdvanceInv`), with the three ways a step can end (`MoveInv`,
`ReturnInv`, `UnwindInv`) as lemmas. `OneOpenAttemptHolds` and
`NoConflictingResolutionHolds` are its consequences; `FinalTagAuthorizedHolds`
is an action property: only `LoadSecond` moves a final tag, and `AttemptOpen`
says what is on disk then.

Three more invariants stand on it. `ReceiptInv`: from the comparison of the two
builds to the receipt nothing but the process's own record says that they agreed
(`BuildsAgree`), and every resolution has the file that resolves it
(`ResolutionsFiled`), so that a set which is refused has one of two traces of an
interruption (`RefusalHasOrphan`). `ResidueInv`: temporary tags and files belong
to attempts that are still open, because a process gets rid of both before it
resolves its attempt (`ResidueGone`). `SourceInv`: between `probe` and `validate`
the source only moves on, so that an image a process can load was built from a
source between the bound one and the present one, and the comparison at the end
leaves one (`SourceHeld`).

**HostCapacity.** `CapacityInv` adds to the properties what the builder
remembers (`BuilderInv`: the wake-up time is an interval after the first
reading) and what a receipt remembers (`ReceiptInv`: since the second stamp
the wall clock has gained at least what has passed less the setbacks).
`BoundsInv`, which is inductive alone, completes the types.

**SandboxScan.** `TypeCorrect` rests on one lemma for each way a thread moves
(`EndFacts`, `CleanUpFacts`, `StageFacts`, `ReleaseFacts`). `AbsenceStays` is
not inductive: that no late request brings a container back depends on the
scan having seen its own request answered (`AnsweredInv`), which depends on
what a scan leaves while it prepares (`CallerInv`) and on later scans having
left nothing yet (`FutureUntouched`). `NameInv` adds whose credentials and whose
container the name holds (`CredentialInv`), so that no credential reaches a scan
that did not declare it. `AttestInv` stands on both:
a worker cannot end well before the caller releases it, and the caller attests
before it releases, so that an attestation behind a good verdict was taken while
the session was open (`Attested`).

**SnapshotTrust.** Nothing is assumed of what is delivered. The argument of
`TrustInv` is about the pending result: what the verifier compared with the
checkpoint still holds of the checkpoint when the result is persisted
(`PendingInv`), because only `Persist` replaces a checkpoint and it takes the
pending result away. Each consumer's history is then a chain from a first
statement, and two that differ somewhere differ for ever
(`SplitsStaySplitHolds`). `NoRollbackHolds` is the action property.

**RefreshCandidate.** `RefreshInv` follows one command (`CommandInv`). Until it
writes a directory, a create remembers inputs that agree with its tree and a
history without the masked servers. From its capture on, an approve or a publish
works on the captured directory, which no edit, swap or damage reaches; whatever
the checks found of it stays true (`Sound`, `Covered`). The four properties
of publications are consequences. `RefreshRefinement` shows that the read-only
approvals and the staged publications implement `Release`: an approval is a
grant, the rename of a publication a put, and every other step a stutter.

**TargetScan.** The states of what a command reads are ordered (`Before`), and
what is read twice alike has not changed in between (`NoReturn`: source, inputs
and images do not come back, the registry file has an identity, a preflight a
number). `ScanInv` says of a command what it has read and admitted so far
(`ReadInv`, `AdmittedInv`), that the sandbox run took place on what the
comparisons since have confirmed (`RunOf`), and of a verification that what it has
compared was the same when it began (`VerifyInv`). An artifact is therefore that
of a run, whole and admitted, and its history verifies for ever
(`HistoryAcceptsHolds`). `TargetScanRefinement` shows that artifacts implement
`Release`; the grants are what the finished runs were about.

**GradeReview.** Three invariants, each by one lemma per stage of a command.
`ReviewInv`: admitted evidence was made from the tree its preflight names, and
because a directory that takes the place of another has the same tree and the same
preflight, what a command has read stays true of it (`CommandReads`).
`AgreementInv` counts replacements: one leaves the two directories without
agreement, two may deceive a review, and two more an acceptance or a
confirmation of it (`AgreeAfter`, `SteadyAfter`); `AcceptedDescribesOne` is the
case of three. `PolicyInv` counts edits: a review reads its policy before the
candidate is verified and the digest after it, and an acceptance compares both
with its own readings, so that it takes three edits to bind a policy that is not
that of the candidates.

**SitePublication.** It runs the steps of `GradeReview` and its own, so
`PublicationInv` contains `ReviewInv`. `SiteLeavesPipeline` says that no step of
the site or of the deployment writes what the review pipeline keeps, which carries
`AgreementInv` and `PolicyInv` over (`ReviewKnowledge`). What it adds is what a
site build has read (`SiteReads`, by the count of `TreeKept` and `OrSwapped`), and
what a package, an authorization and an attempt still verify against
(`PackageBound`, `MayDeploy`, `AttemptsBound`): the approval was issued no later
than the authorization, and the package verified as of that moment, which no
later expiry changes (`AttemptEvidencedHolds`).

Only model-checked: the liveness properties `InvocationEnds` and `ScanEnds`,
because liveness under fairness and ENABLED are beyond the prover. The three
properties of the documentation (`SnapshotNotShared`, `CleanupCanBeRetried`,
`ReplayIdempotent`) are false of the code, as the runs show. No module that is
proved about declares a RECURSIVE operator.

## 6. What is not modelled

- Encodings, digests and signatures: a digest is what it identifies, a
  signature is by whom it was made.
- File modes and symbolic links, except where they decide the outcome (the
  read-only tree, the writable approval, the truncated tool).
- A Docker command that takes effect after its client has gone, except the
  creation of a scan container.
- In `Qualification` and `TargetScan`, a source that changes and changes back
  between two comparisons; `evidence_chain` has it for the chain.
- In the chain: the freshness horizon of a candidate
  (`publication_not_after`), so that more deployments are admitted than the code
  admits; rollback to a retained site and the local rollback artifact of an
  authorization; the provider's metadata and the freshness state of the
  production receipt; `web_release_readback.py`; the scheduler, state cards, the
  resume capsule and the repeatability fixture; the age limits of receipts of 24 hours;
  an engine environment that changes without the tree; pending dispositions (a
  site may be built before its review is accepted, the approval then refuses
  it); review states older than the two policies.
- In a target scan: the privacy check of the payload, the digest sidecar, and the
  steps of the sandbox run, which `SandboxScan` has.
- The components with status `not_modelled` in `PROJECT.json`, each with its
  reason or its place in the plan.
