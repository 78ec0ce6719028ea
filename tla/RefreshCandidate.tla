-------------------------- MODULE RefreshCandidate --------------------------
(***************************************************************************)
(* Refresh candidates: src/mcp_trust/refresh.py.  An operator creates a    *)
(* candidate directory from fresh scans, approves one verified candidate   *)
(* for one target, and publishes it there.  Several such commands may run  *)
(* at once, the repository may be edited and the registry scanned under    *)
(* them, a candidate directory may be damaged or swapped by its owner, and *)
(* a command may stop at any point.                                        *)
(*                                                                         *)
(* The bytes of a candidate are its content record, and a manifest digest  *)
(* identifies that record.  A tree is one state of the repository; its     *)
(* field inputs stands for the reviewed seed and masked lists.             *)
(***************************************************************************)
EXTENDS Naturals, FiniteSets, FiniteSetsExt

CONSTANTS
    Procs,          \* operator commands that may run at once
    Names,          \* candidate names
    Targets,        \* publication targets
    ServerCount,    \* catalog servers are scanned in slug order
    Trees,          \* states of the repository
    MaskedBy,       \* MaskedBy[i]: the masked slugs of the inputs i
    BlockedBy,      \* BlockedBy[i]: the slugs the policy does not execute
    Lifetime,       \* DEFAULT_MAX_AGE_HOURS
    ApprovalTTL,    \* at most MAX_APPROVAL_TTL_HOURS
    MaxTime,        \* bound on the clock
    FixtureModes,   \* whether candidates are created with a fixture scanner
    NoScan,         \* no scan of a server
    Nothing         \* no directory, no job

Servers == 1..ServerCount
Inputs == {t.inputs : t \in Trees}

\* A row that is no longer to be scanned; where a shown scan comes from.
Settled == {"fresh", "masked", "blocked", "failed"}
Origins == {"none", "own", "registry"}

\* What a candidate holds, a candidate directory and a staged one.
Contents ==
    [state : {"fixture", "complete", "partial"}, created : Nat, expires : Nat,
     inputs : Inputs, tree : Trees, rows : [Servers -> Settled],
     files : SUBSET Servers, latest : [Servers -> Origins],
     exposed : [Servers -> Origins], intact : BOOLEAN]
Directories == [sealed : BOOLEAN, content : Contents]
Releases == [content : Contents, at : Nat, sealed : BOOLEAN]
ApprovalFiles ==
    [digest : Contents, target : Targets, from : Nat, until : Nat,
     reviewed : Inputs, readonly : BOOLEAN]

ASSUME RefreshConstants ==
    /\ ServerCount \in Nat /\ Lifetime \in Nat /\ ApprovalTTL \in Nat
    /\ MaxTime \in Nat \ {0}
    /\ FixtureModes \subseteq BOOLEAN
    /\ \A t \in Trees : /\ MaskedBy[t.inputs] \subseteq Servers
                        /\ BlockedBy[t.inputs] \subseteq Servers
    /\ NoScan \notin Nat
    /\ Nothing \notin Contents \cup Directories \cup Releases

VARIABLES
    now,          \* hours
    tree,         \* the repository
    registry,     \* registry[s]: scanned_at of the latest registry scan
    candidates,   \* candidates[n]: the directory, [content, sealed] or Nothing
    approvals,    \* approval files
    publications, \* publications[t][n]: the staged directory or Nothing
    job           \* job[p]: the command p runs, or Nothing

vars == <<now, tree, registry, candidates, approvals, publications, job>>

\* The command remembers new values beside, or instead of, what it knows.
With(j, new) ==
    [f \in DOMAIN j \cup DOMAIN new |-> IF f \in DOMAIN new THEN new[f] ELSE j[f]]

Step(p, stage) == job[p] # Nothing /\ job[p].stage = stage

\* _reviewed_inputs: the seed and the masked list, which each command reads
\* once, at its start.
ReviewedInputs == tree.inputs

-----------------------------------------------------------------------------
(* create_refresh_candidate.                                               *)

\* Capacity, the registry database and the reviewed inputs are read first.
StartCreate(p, n, fixture) ==
    /\ job[p] = Nothing
    /\ job' = [job EXCEPT ![p] =
                 [op |-> "create", stage |-> "qualify", name |-> n,
                  at |-> now, reviewed |-> ReviewedInputs, fixture |-> fixture]]
    /\ UNCHANGED <<now, tree, registry, candidates, approvals, publications>>

\* Mutant: the receipt is not compared with the inputs read at the start.
AnyQualification(j) == j.fixture \/ tree \in Trees

\* _qualification_metadata: the qualification receipt of the current tree
\* agrees with the inputs read at the start.
QualificationAgrees(j) == j.fixture \/ j.reviewed = tree.inputs

\* The policy and the source are read again, and the images are resolved.
Qualify(p) ==
    /\ Step(p, "qualify")
    /\ QualificationAgrees(job[p])
    /\ job' = [job EXCEPT ![p] =
                 With(@, [tree |-> tree,
                          blocked |-> IF @.fixture THEN {} ELSE BlockedBy[tree.inputs],
                          stage |-> "stage"])]
    /\ UNCHANGED <<now, tree, registry, candidates, approvals, publications>>

Staged(p, history) ==
    job' = [job EXCEPT ![p] =
              With(@, [stage |-> "scan", history |-> history,
                       rows |-> [s \in Servers |-> "todo"],
                       recorded |-> {}, files |-> {}])]

\* The name must be free; the registry is copied and the scans of masked
\* servers are deleted from the copy.
Stage(p) ==
    /\ Step(p, "stage")
    /\ candidates[job[p].name] = Nothing
    /\ Staged(p, [s \in Servers |->
                    IF s \in MaskedBy[job[p].reviewed] THEN NoScan ELSE registry[s]])
    /\ UNCHANGED <<now, tree, registry, candidates, approvals, publications>>

NextServer(p) == Min({s \in Servers : job[p].rows[s] = "todo"})

Scanned(p, s, row, wrote, record) ==
    job' = [job EXCEPT ![p].rows[s] = row,
                       ![p].files = IF wrote THEN @ \cup {s} ELSE @,
                       ![p].recorded = IF record THEN @ \cup {s} ELSE @]

Scanning(p) == Step(p, "scan") /\ \E s \in Servers : job[p].rows[s] = "todo"

ScanBlocked(p) ==
    /\ Scanning(p)
    /\ NextServer(p) \in job[p].blocked
    /\ Scanned(p, NextServer(p), "blocked", FALSE, FALSE)
    /\ UNCHANGED <<now, tree, registry, candidates, approvals, publications>>

\* A masked server leaves a redacted proof and no scan record.
ScanSucceeds(p) ==
    LET s == NextServer(p)
        masked == s \in MaskedBy[job[p].reviewed]
    IN  /\ Scanning(p)
        /\ s \notin job[p].blocked
        /\ Scanned(p, s, IF masked THEN "masked" ELSE "fresh", TRUE, ~masked)
        /\ UNCHANGED <<now, tree, registry, candidates, approvals, publications>>

\* A result without evidence, or of another image, without the runtime
\* readback or without verified absence of its container: a failed row.
ScanUnproved(p) ==
    /\ Scanning(p)
    /\ NextServer(p) \notin job[p].blocked
    /\ Scanned(p, NextServer(p), "failed", FALSE, FALSE)
    /\ UNCHANGED <<now, tree, registry, candidates, approvals, publications>>

\* A timeout, an expired capacity receipt, a bad scan receipt or any other
\* exception is a failed row.  The exception may come after the scan receipt
\* or the record is written.
ScanFails(p, wrote, record) ==
    LET s == NextServer(p)
    IN  /\ Scanning(p)
        /\ s \notin job[p].blocked
        /\ record => wrote /\ s \notin MaskedBy[job[p].reviewed]
        /\ Scanned(p, s, "failed", wrote, record)
        /\ UNCHANGED <<now, tree, registry, candidates, approvals, publications>>

Rows(j, state) == {s \in Servers : j.rows[s] = state}

\* The latest scan of s in the candidate database: ORDER BY scanned_at, id.
\* A registry scan of the same instant wins or loses by its random id.
LatestScans(j, s) ==
    IF s \notin j.recorded
    THEN {IF j.history[s] = NoScan THEN "none" ELSE "registry"}
    ELSE CASE j.history[s] = NoScan -> {"own"}
           [] j.history[s] # NoScan /\ j.history[s] < j.at -> {"own"}
           [] j.history[s] # NoScan /\ j.history[s] = j.at -> {"own", "registry"}
           [] OTHER -> {"registry"}

\* build_snapshot raises when a shown scan lies in the future of fixed_now.
SnapshotBuilds(j, shown) ==
    \A s \in shown : j.history[s] # NoScan => j.history[s] <= j.at

\* Mutant: a failed row does not exclude the server from the snapshot.
ShownFailedToo(j) ==
    Rows(j, "fresh") \cup {s \in Rows(j, "failed") : j.history[s] # NoScan}

\* The servers build_snapshot shows: neither excluded nor masked.  (The
\* scanner of a fixture may give its results the name of a real engine.)
Shown(j) == Rows(j, "fresh")

CandidateState(j) ==
    IF j.fixture THEN "fixture"
    ELSE IF Rows(j, "failed") = {} THEN "complete" ELSE "partial"

\* Mutant: the last server is left out.
AllScannedButLast(j) == Cardinality(Rows(j, "todo")) <= 1

AllScanned(j) == Rows(j, "todo") = {}

\* os.replace of the temporary directory, after the source was read again.
\* A directory of that name created meanwhile makes it fail.
PublishCandidate(p) ==
    LET j == job[p]
    IN  /\ Step(p, "scan")
        /\ AllScanned(j)
        /\ SnapshotBuilds(j, Shown(j))
        /\ j.fixture \/ tree = j.tree
        /\ candidates[j.name] = Nothing
        /\ \E latest \in [Servers -> {"none", "own", "registry"}] :
              /\ \A s \in Servers : latest[s] \in LatestScans(j, s)
              /\ candidates' = [candidates EXCEPT ![j.name] =
                   [sealed |-> FALSE,
                    content |->
                      [state |-> CandidateState(j),
                       created |-> j.at, expires |-> j.at + Lifetime,
                       inputs |-> j.reviewed, tree |-> j.tree, rows |-> j.rows,
                       files |-> j.files, latest |-> latest,
                       exposed |-> [s \in Servers |->
                                      IF s \in Shown(j) THEN latest[s] ELSE "none"],
                       intact |-> TRUE]]]
        /\ job' = [job EXCEPT ![p].stage = "seal"]
        /\ UNCHANGED <<now, tree, registry, approvals, publications>>

\* _make_read_only and the directory syncs.
SealCandidate(p) ==
    /\ Step(p, "seal")
    /\ candidates[job[p].name] # Nothing
    /\ candidates' = [candidates EXCEPT ![job[p].name].sealed = TRUE]
    /\ job' = [job EXCEPT ![p].stage = "capture"]
    /\ UNCHANGED <<now, tree, registry, approvals, publications>>

-----------------------------------------------------------------------------
(* verify_refresh_candidate.                                               *)

\* The tree is read-only, every artifact is listed with its digest, and the
\* manifest is not from the future.
ArtifactsMatch(d, j) == d.sealed /\ d.content.intact /\ d.content.created <= j.at

\* _validate_v2_freshness_manifest: the horizon is the lifetime of a candidate,
\* counted from its creation.
FreshnessHolds(c) == c.expires = c.created + Lifetime

\* The rows are those of the catalog, each with a settled state.
RowsCover(c) == DOMAIN c.rows = Servers /\ Rows(c, "todo") = {}

\* The manifest names the inputs the command read.
InputsBound(c, j) == c.inputs = j.reviewed

\* The receipt is still the one of the tree.
QualificationCurrent(c, seen) == c.state # "fixture" => c.tree = seen

\* The blocked rows are those of the policy.
BlockedAsPolicy(c, seen) ==
    c.state # "fixture" => Rows(c, "blocked") = BlockedBy[seen.inputs]

\* A receipt or a proof for every successful row, and no other file.
FilesReferenced(c) == c.files = Rows(c, "fresh") \cup Rows(c, "masked")

\* Every masked row has its redacted proof.
ProofsBound(c) == Rows(c, "masked") \subseteq c.files

\* _fresh_result_matches_persisted_scan: the row is the latest scan of the
\* server in the candidate database.
RowMatchesScan(c, s) == c.latest[s] = "own"

\* Mutant: a fresh row is not compared with the latest scan in the database.
FreshRowsTrusted(c) == \A s \in Rows(c, "fresh") : s \in c.files

\* Every fresh row has its receipt and is the scan the database has.
FreshRowsBound(c) ==
    \A s \in Rows(c, "fresh") : s \in c.files /\ RowMatchesScan(c, s)

\* Exactly the successful rows the inputs mask are masked rows.
MaskedAsDeclared(c) ==
    Rows(c, "masked")
        = (Rows(c, "fresh") \cup Rows(c, "masked")) \cap MaskedBy[c.inputs]

\* The database keeps nothing about a masked row.
MaskedRowsWithheld(c) == \A s \in Rows(c, "masked") : c.latest[s] = "none"

\* The snapshot shows the fresh rows as the database has them.
SnapshotBound(c) ==
    \A s \in Servers :
        /\ c.exposed[s] # "none" => c.rows[s] = "fresh" /\ c.exposed[s] = c.latest[s]
        /\ c.state # "fixture" /\ c.rows[s] = "fresh" => c.exposed[s] # "none"

StateDeclared(c) ==
    c.state = "complete" => Rows(c, "failed") = {}

\* structural_valid, for the directory d, the inputs and the time of the
\* command, and the tree the verifier saw.
StructurallyValid(d, j, seen) ==
    LET c == d.content
    IN  /\ ArtifactsMatch(d, j) /\ FreshnessHolds(c) /\ RowsCover(c)
        /\ InputsBound(c, j)
        /\ QualificationCurrent(c, seen) /\ BlockedAsPolicy(c, seen)
        /\ FilesReferenced(c) /\ ProofsBound(c) /\ FreshRowsBound(c)
        /\ SnapshotBound(c) /\ StateDeclared(c)
        /\ MaskedAsDeclared(c) /\ MaskedRowsWithheld(c)

PublicationReady(d, j, seen) ==
    /\ StructurallyValid(d, j, seen)
    /\ d.content.state = "complete"
    /\ j.at < d.content.expires

\* The first capture, the policy and the first reading of the source.
Capture(p) ==
    /\ Step(p, "capture")
    /\ candidates[job[p].name] # Nothing
    /\ job' = [job EXCEPT ![p] =
                 With(@, [stage |-> "recapture", captured |-> candidates[@.name],
                          seen |-> tree])]
    /\ UNCHANGED <<now, tree, registry, candidates, approvals, publications>>

\* The second reading of the source and the second capture agree with the
\* first ones.
Stable(p) ==
    /\ candidates[job[p].name] = job[p].captured
    /\ job[p].captured.content.state # "fixture" => tree = job[p].seen

\* create reports a structurally valid candidate.
CreateReports(p) ==
    /\ Step(p, "recapture") /\ job[p].op = "create"
    /\ Stable(p)
    /\ StructurallyValid(job[p].captured, job[p], job[p].seen)
    /\ job' = [job EXCEPT ![p] = Nothing]
    /\ UNCHANGED <<now, tree, registry, candidates, approvals, publications>>

-----------------------------------------------------------------------------
(* approve_refresh_candidate.                                              *)

\* The operator confirms the digest of the candidate that is there now.
StartApprove(p, n, t) ==
    /\ job[p] = Nothing
    /\ candidates[n] # Nothing
    /\ job' = [job EXCEPT ![p] =
                 [op |-> "approve", stage |-> "capture", name |-> n, target |-> t,
                  at |-> now, reviewed |-> ReviewedInputs,
                  confirmed |-> candidates[n].content]]
    /\ UNCHANGED <<now, tree, registry, candidates, approvals, publications>>

\* readonly is FALSE when the command stops before the chmod.
WriteApproval(p, readonly) ==
    /\ Step(p, "recapture") /\ job[p].op = "approve"
    /\ Stable(p)
    /\ PublicationReady(job[p].captured, job[p], job[p].seen)
    /\ job[p].confirmed = job[p].captured.content
    /\ approvals' = approvals \cup
         {[digest |-> job[p].captured.content, target |-> job[p].target,
           from |-> job[p].at, until |-> job[p].at + ApprovalTTL,
           reviewed |-> job[p].reviewed, readonly |-> readonly]}
    /\ job' = [job EXCEPT ![p] = Nothing]
    /\ UNCHANGED <<now, tree, registry, candidates, publications>>

-----------------------------------------------------------------------------
(* publish_refresh_candidate.                                              *)

StartPublish(p, n, t) ==
    /\ job[p] = Nothing
    /\ candidates[n] # Nothing
    /\ job' = [job EXCEPT ![p] =
                 [op |-> "publish", stage |-> "capture", name |-> n, target |-> t,
                  at |-> now, reviewed |-> ReviewedInputs]]
    /\ UNCHANGED <<now, tree, registry, candidates, approvals, publications>>

\* Mutant: the expiry is not compared with fixed_now.
ApprovalNeverExpires(a, j) ==
    /\ a.readonly
    /\ a.from <= j.at
    /\ a.digest = j.captured.content
    /\ a.target = j.target
    /\ a.reviewed = j.reviewed

ApprovalHolds(a, j) ==
    /\ a.readonly
    /\ a.from <= j.at /\ j.at < a.until
    /\ a.digest = j.captured.content
    /\ a.target = j.target
    /\ a.reviewed = j.reviewed

\* The immediate verification, the approval and the free name.
CheckApproval(p, a) ==
    /\ Step(p, "recapture") /\ job[p].op = "publish"
    /\ Stable(p)
    /\ PublicationReady(job[p].captured, job[p], job[p].seen)
    /\ ApprovalHolds(a, job[p])
    /\ publications[job[p].target][job[p].name] = Nothing
    /\ job' = [job EXCEPT ![p].stage = "copy"]
    /\ UNCHANGED <<now, tree, registry, candidates, approvals, publications>>

\* The captured bytes, not the directory, are written to a private tree and
\* verified again.
CopyCandidate(p) ==
    /\ Step(p, "copy")
    /\ PublicationReady([job[p].captured EXCEPT !.sealed = TRUE], job[p], tree)
    /\ job' = [job EXCEPT ![p].stage = "rename"]
    /\ UNCHANGED <<now, tree, registry, candidates, approvals, publications>>

Renamed(p, content) ==
    /\ publications' = [publications EXCEPT ![job[p].target][job[p].name] =
                          [content |-> content, at |-> job[p].at, sealed |-> FALSE]]
    /\ job' = [job EXCEPT ![p].stage = "sealcopy"]
    /\ UNCHANGED <<now, tree, registry, candidates, approvals>>

\* Mutant: what is staged is read from the candidate directory.
RenameDirectory(p) ==
    /\ Step(p, "rename")
    /\ publications[job[p].target][job[p].name] = Nothing
    /\ candidates[job[p].name] # Nothing
    /\ Renamed(p, candidates[job[p].name].content)

\* Mutant: the rename replaces what another command has staged.
RenameOver(p) ==
    /\ Step(p, "rename")
    /\ Renamed(p, job[p].captured.content)

\* os.replace fails when another command has staged that name.
RenamePublication(p) ==
    /\ Step(p, "rename")
    /\ publications[job[p].target][job[p].name] = Nothing
    /\ Renamed(p, job[p].captured.content)

SealPublication(p) ==
    /\ Step(p, "sealcopy")
    /\ publications' = [publications EXCEPT ![job[p].target][job[p].name].sealed = TRUE]
    /\ job' = [job EXCEPT ![p] = Nothing]
    /\ UNCHANGED <<now, tree, registry, candidates, approvals>>

-----------------------------------------------------------------------------
(* The environment.                                                        *)

\* A command stops: an error, a refused check or a kill.  The temporary
\* directory is removed or left under a hidden name; nothing else is undone.
Stop(p) ==
    /\ job[p] # Nothing
    /\ job' = [job EXCEPT ![p] = Nothing]
    /\ UNCHANGED <<now, tree, registry, candidates, approvals, publications>>

Tick ==
    /\ now < MaxTime
    /\ now' = now + 1
    /\ UNCHANGED <<tree, registry, candidates, approvals, publications, job>>

Edit ==
    /\ tree' \in Trees \ {tree}
    /\ UNCHANGED <<now, registry, candidates, approvals, publications, job>>

\* An ordinary scan of the registry, at the current time.
RegistryScan(s) ==
    /\ registry[s] # now
    /\ registry' = [registry EXCEPT ![s] = now]
    /\ UNCHANGED <<now, tree, candidates, approvals, publications, job>>

\* The owner damages a file of a candidate.
Damage(n) ==
    /\ candidates[n] # Nothing /\ candidates[n].content.intact
    /\ candidates' = [candidates EXCEPT ![n].content.intact = FALSE]
    /\ UNCHANGED <<now, tree, registry, approvals, publications, job>>

\* The owner puts there the same candidate, made from another state of the code.
Swap(n, t) ==
    /\ candidates[n] # Nothing
    /\ t # candidates[n].content.tree /\ t.inputs = candidates[n].content.inputs
    /\ candidates' = [candidates EXCEPT ![n].content.tree = t]
    /\ UNCHANGED <<now, tree, registry, approvals, publications, job>>

Init ==
    /\ now = 1
    /\ tree \in Trees
    /\ registry \in [Servers -> {NoScan, 0}]
    /\ candidates = [n \in Names |-> Nothing]
    /\ approvals = {}
    /\ publications = [t \in Targets |-> [n \in Names |-> Nothing]]
    /\ job = [p \in Procs |-> Nothing]

Create(p) ==
    \/ \E n \in Names, fixture \in FixtureModes : StartCreate(p, n, fixture)
    \/ Qualify(p) \/ Stage(p)
    \/ ScanBlocked(p) \/ ScanSucceeds(p) \/ ScanUnproved(p)
    \/ \E wrote, record \in BOOLEAN : ScanFails(p, wrote, record)
    \/ PublishCandidate(p) \/ SealCandidate(p)
    \/ CreateReports(p)

Approve(p) ==
    \/ \E n \in Names, t \in Targets : StartApprove(p, n, t)
    \/ \E readonly \in BOOLEAN : WriteApproval(p, readonly)

Publish(p) ==
    \/ \E n \in Names, t \in Targets : StartPublish(p, n, t)
    \/ \E a \in approvals : CheckApproval(p, a)
    \/ CopyCandidate(p) \/ RenamePublication(p) \/ SealPublication(p)

Next ==
    \/ \E p \in Procs : Create(p) \/ Approve(p) \/ Publish(p) \/ Capture(p) \/ Stop(p)
    \/ Tick \/ Edit
    \/ \E s \in Servers : RegistryScan(s)
    \/ \E n \in Names : Damage(n)
    \/ \E n \in Names, t \in Trees : Swap(n, t)

Spec == Init /\ [][Next]_vars

-----------------------------------------------------------------------------
(* Properties.                                                             *)

Published == {publications[t][n] : t \in Targets, n \in Names} \ {Nothing}

\* Commands, approvals, candidates and publications are well formed: every
\* directory under a final name has one settled row for each server.
TypeOK ==
    /\ now \in 1..MaxTime
    /\ tree \in Trees
    /\ registry \in [Servers -> 0..MaxTime \cup {NoScan}]
    /\ candidates \in [Names -> Directories \cup {Nothing}]
    /\ publications \in [Targets -> [Names -> Releases \cup {Nothing}]]
    /\ approvals \subseteq ApprovalFiles
    /\ \A p \in Procs : job[p] # Nothing =>
          /\ job[p].op \in {"create", "approve", "publish"}
          /\ job[p].at \in 1..now
    /\ \A a \in approvals : a.from \in 1..now

\* What is staged for a target is, byte for byte, a complete candidate that
\* an approval for that target covered at published_at, whatever was edited,
\* swapped or damaged between the checks of publish_refresh_candidate.
PublishedAsApproved ==
    \A t \in Targets, n \in Names :
        publications[t][n] # Nothing =>
            LET q == publications[t][n]
            IN  /\ q.content.intact /\ q.content.state = "complete"
                /\ q.at < q.content.created + Lifetime
                /\ \E a \in approvals :
                      /\ a.digest = q.content /\ a.target = t /\ a.readonly
                      /\ a.from <= q.at /\ q.at < a.until

\* A published snapshot shows a grade for exactly the servers this refresh
\* scanned, and the grade of that scan: never a registry grade, even one
\* recorded while the refresh ran, never a masked or blocked server.
PublishedGradesAreOwn ==
    \A q \in Published : \A s \in Servers :
        q.content.exposed[s] = IF q.content.rows[s] = "fresh" THEN "own" ELSE "none"

\* The inputs, the policy and the source a published candidate is bound to
\* are those of one state of the repository, although they are read at
\* different times.
PublishedFromOneTree ==
    \A q \in Published :
        /\ q.content.inputs = q.content.tree.inputs
        /\ Rows(q.content, "blocked") = BlockedBy[q.content.inputs]
        /\ Rows(q.content, "masked")
              = MaskedBy[q.content.inputs] \ BlockedBy[q.content.inputs]

\* A candidate directory, reported or not, holds no scan of a masked server
\* and shows no grade for a server whose scan failed.
CandidateWithholds ==
    \A n \in Names : candidates[n] # Nothing =>
        LET c == candidates[n].content
        IN  \A s \in Servers :
               /\ s \in MaskedBy[c.inputs] => c.latest[s] = "none"
               /\ c.rows[s] # "fresh" => c.exposed[s] = "none"

\* The exclusive output: what a target shows under a name was approved for that
\* target before, by a read-only approval, and is never replaced, by a second
\* command that passed the same checks or by a retry.
Approved == {<<<<a.target, n>>, a.digest>> : a \in {b \in approvals : b.readonly}, n \in Names}

Staging ==
    [tn \in Targets \X Names |->
        LET q == publications[tn[1]][tn[2]] IN IF q = Nothing THEN Nothing ELSE q.content]

Publications == INSTANCE Release WITH
    Names <- Targets \X Names, Nothing <- Nothing, granted <- Approved, store <- Staging

ImplementsRelease == Publications!Spec
=============================================================================
