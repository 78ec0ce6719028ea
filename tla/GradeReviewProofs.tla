-------------------------- MODULE GradeReviewProofs --------------------------
(***************************************************************************)
(* Proofs about GradeReview, for any trees, any bounds and any number of   *)
(* receipts: three invariants are inductive.  ReviewInv says that the      *)
(* evidence is of one tree, AgreementInv that it is of one pair of         *)
(* candidates, PolicyInv that it has their policy; the last two count the  *)
(* replacements and the edits that would deceive a command.                *)
(* SitePublicationProofs composes them with the publication.               *)
(***************************************************************************)
EXTENDS GradeReview, TLAPS

\* The fields of k outside changed are those of j.
Same(k, j, changed) ==
    \A f \in {"op", "stage", "pass", "tree", "preflight", "triage", "proposal",
              "read", "repeat", "admitted"} \ changed : k[f] = j[f]

\* What a candidate that verifies was made from.
LEMMA VerifiedMadeFrom ==
    ASSUME NEW c, CandidateVerifies(c)
    PROVE  MadeFrom(c.preflight, c.tree)
BY DEF CandidateVerifies, CatalogCurrent, CatalogInputs, Revalidates, ReadyContract,
       BoundTo, EngineVerifies, EngineReceipt, SourceBinding, EngineLock, MadeFrom

\* The command alone changes.
JobOnly == UNCHANGED reviewVars

\* A step of a command that leaves the receipts alone.
LEMMA CommandStep ==
    ASSUME ReviewInv, JobOnly,
           job' # Nothing => /\ IsCommand(job') /\ CommandInputs' /\ CommandReads'
                             /\ job'.pass = 3 => package = PackageOf(job')
    PROVE  ReviewInv'
BY DEF ReviewInv, ReviewTypeOK, EvidenceBound, JobOnly, reviewVars, PackageOf, MadeFrom

-----------------------------------------------------------------------------
(* The preflight.                                                          *)

\* Every step of build_preflight_receipt preserves the invariant.
LEMMA PreflightStep ==
    ASSUME ReviewInv, Preflighting
    PROVE  ReviewInv'
<1>1. CASE StartPreflight
  <2>1. job' = [Idle EXCEPT !.op = "preflight", !.stage = "gates", !.tree = tree] /\ JobOnly
    BY <1>1 DEF StartPreflight, Starts, SourceBinding, JobOnly
  <2>2. /\ IsCommand(job') /\ job'.op = "preflight" /\ job'.stage = "gates"
        /\ job'.tree = tree /\ job'.pass = 1
    BY <2>1 DEF Idle, IsCommand
  <2>3. tree \in Trees
    BY DEF ReviewInv, ReviewTypeOK
  <2>4. CommandInputs' /\ CommandReads'
    BY <2>2, <2>3 DEF CommandInputs, CommandReads, TriageStages, ReviewCommands
  <2> QED
    BY <2>1, <2>2, <2>4, CommandStep
<1>2. CASE ReadGates
  <2>1. PICK clean \in BOOLEAN, capacity \in 0..now :
          job' = [job EXCEPT !.stage = "images",
                    !.read = [capacity |-> capacity, engine |-> EngineReceipt,
                              ready |-> /\ clean /\ EngineReceipt.source = job.tree
                                        /\ now <= capacity + CapacityAge]]
    BY <1>2 DEF ReadGates
  <2>2. /\ job # Nothing /\ job.op = "preflight" /\ job.stage = "gates" /\ JobOnly
        /\ IsCommand(job) /\ CommandInputs
    BY <1>2 DEF ReadGates, Doing, ReviewInv, JobOnly
  <2> DEFINE ok == /\ clean /\ EngineReceipt.source = job.tree
                   /\ now <= capacity + CapacityAge
  <2> DEFINE r == [capacity |-> capacity, engine |-> EngineReceipt, ready |-> ok]
  <2>a. job' = [job EXCEPT !.stage = "images", !.read = r]
    BY <2>1, Zenon
  <2>b. r = [capacity |-> capacity, engine |-> EngineReceipt, ready |-> ok]
    OBVIOUS
  <2> HIDE DEF r
  <2>3. /\ IsCommand(job') /\ job'.stage = "images" /\ Same(job', job, {"stage", "read"})
        /\ job'.read = r
    BY <2>a, <2>2 DEF IsCommand, Idle, Same
  <2>4. job'.op = "preflight" /\ job'.tree = job.tree /\ job'.pass = job.pass
    BY <2>2, <2>3 DEF Same
  <2>5. EngineReceipt \in Engines
    BY DEF ReviewInv, ReviewTypeOK, EngineReceipt, Engines, SourceBinding, EngineLock
  <2>6. ok \in BOOLEAN
    OBVIOUS
  <2> HIDE DEF ok
  <2>7. /\ job'.read.capacity = capacity /\ job'.read.engine = EngineReceipt
        /\ job'.read.ready \in BOOLEAN
    BY <2>3, <2>b, <2>6
  <2>8. now' = now
    BY <2>2 DEF JobOnly, reviewVars
  <2>9. CommandInputs' /\ CommandReads'
    BY <2>2, <2>3, <2>4, <2>5, <2>7, <2>8
    DEF CommandInputs, CommandReads, TriageStages, ReviewCommands
  <2>10. job'.pass = 1
    BY <2>2, <2>4 DEF CommandInputs
  <2> QED
    BY <2>2, <2>3, <2>9, <2>10, CommandStep
<1>3. CASE ReadImages
  <2>1. PICK bound \in BOOLEAN :
          job' = [job EXCEPT !.stage = "catalog",
                    !.read = [capacity |-> @.capacity, engine |-> @.engine,
                              images |-> ImageQualification,
                              ready |-> /\ @.ready /\ bound
                                        /\ BoundTo(ImageQualification, job.tree)]]
    BY <1>3 DEF ReadImages
  <2>2. /\ job # Nothing /\ job.op = "preflight" /\ job.stage = "images" /\ JobOnly
        /\ IsCommand(job) /\ CommandInputs /\ CommandReads
    BY <1>3 DEF ReadImages, Doing, ReviewInv, JobOnly
  <2> DEFINE ok == /\ job.read.ready /\ bound /\ BoundTo(ImageQualification, job.tree)
  <2> DEFINE r == [capacity |-> job.read.capacity, engine |-> job.read.engine,
                   images |-> ImageQualification, ready |-> ok]
  <2>a. job' = [job EXCEPT !.stage = "catalog", !.read = r]
    BY <2>1, Zenon
  <2>b. r = [capacity |-> job.read.capacity, engine |-> job.read.engine,
             images |-> ImageQualification, ready |-> ok]
    OBVIOUS
  <2> HIDE DEF r
  <2>3. /\ IsCommand(job') /\ job'.stage = "catalog" /\ Same(job', job, {"stage", "read"})
        /\ job'.read = r
    BY <2>a, <2>2 DEF IsCommand, Idle, Same
  <2>4. job'.op = "preflight" /\ job'.tree = job.tree /\ job'.pass = job.pass
    BY <2>2, <2>3 DEF Same
  <2>5. tree \in Trees
    BY DEF ReviewInv, ReviewTypeOK
  <2>6. ImageQualification \in Qualifications
    BY <2>5 DEF ImageQualification, QualificationReceipts, Qualifications
  <2>7. ok \in BOOLEAN /\ (ok => ImageQualification = Files[job.tree].receipts)
    BY DEF BoundTo
  <2> HIDE DEF ok
  <2>8. /\ job'.read.capacity = job.read.capacity /\ job'.read.engine = job.read.engine
        /\ job'.read.images = ImageQualification /\ job'.read.ready = ok
    BY <2>3, <2>b
  <2>9. now' = now
    BY <2>2 DEF JobOnly, reviewVars
  <2>10. CommandInputs'
    BY <2>2, <2>3, <2>4 DEF CommandInputs, TriageStages, ReviewCommands
  <2>11. job.read.capacity \in 0..now /\ job.read.engine \in Engines
    BY <2>2 DEF CommandReads
  <2>12. job'.read.ready \in BOOLEAN
         /\ (job'.read.ready => job'.read.images = Files[job'.tree].receipts)
    BY <2>4, <2>7, <2>8
  <2>13. CommandReads'
    BY <2>3, <2>4, <2>6, <2>8, <2>9, <2>11, <2>12
    DEF CommandReads, TriageStages, ReviewCommands
  <2>14. job'.pass = 1
    BY <2>2, <2>4 DEF CommandInputs
  <2> QED
    BY <2>2, <2>3, <2>10, <2>13, <2>14, CommandStep
<1>4. CASE WritePreflight
  <2> DEFINE new == [source |-> job.tree, engine |-> job.read.engine,
                     images |-> job.read.images, catalog |-> CatalogInputs,
                     capacity |-> job.read.capacity, ready |-> job.read.ready]
  <2>1. /\ job # Nothing /\ job.op = "preflight" /\ job.stage = "catalog"
        /\ preflights' = preflights \cup {new} /\ job' = Nothing
        /\ UNCHANGED <<now, tree, edits, swaps, candidates, triages, proposals,
                       acceptance, package>>
        /\ CommandInputs /\ CommandReads /\ ReviewTypeOK /\ EvidenceBound
    BY <1>4 DEF WritePreflight, Doing, ReviewInv
  <2>2. /\ job.read.capacity \in 0..now /\ job.read.engine \in Engines
        /\ job.read.ready \in BOOLEAN /\ job.read.images \in Qualifications
        /\ job.read.ready => job.read.images = Files[job.tree].receipts
        /\ job.tree \in Trees /\ tree \in Trees /\ now \in Nat
    BY <2>1 DEF CommandReads, CommandInputs, ReviewTypeOK
  <2>3. new \in Preflights
    BY <2>2 DEF Preflights, CatalogInputs
  <2>4. /\ new.capacity \in 0..now
        /\ new.ready => \E t \in Trees : new.images = Files[t].receipts
    BY <2>2
  <2> HIDE DEF new
  <2>5. ReviewTypeOK'
    BY <2>1, <2>3, <2>4 DEF ReviewTypeOK
  <2>6. EvidenceBound'
    BY <2>1 DEF EvidenceBound, MadeFrom
  <2> QED
    BY <2>1, <2>5, <2>6 DEF ReviewInv
<1> QED
  BY <1>1, <1>2, <1>3, <1>4 DEF Preflighting

-----------------------------------------------------------------------------
(* The triage, on its own or as a part of another command.                 *)

\* A command on its way through the triage: what it reads remains to be shown.
LEMMA TriageMoves ==
    ASSUME ReviewInv, JobOnly, job # Nothing, job.stage \in TriageStages,
           IsCommand(job'), job'.stage \in TriageStages,
           Same(job', job, {"stage", "read", "repeat", "admitted"}), CommandReads'
    PROVE  ReviewInv'
<1>1. /\ job'.op = job.op /\ job'.pass = job.pass /\ job'.preflight = job.preflight
      /\ job'.triage = job.triage /\ job'.tree = job.tree
      /\ job'.proposal = job.proposal
  BY DEF Same
<1>2. CommandInputs /\ ReviewTypeOK
  BY DEF ReviewInv
<1>3. CommandInputs'
  BY <1>1, <1>2 DEF CommandInputs, JobOnly, reviewVars, TriageStages, ReviewCommands
<1>4. job'.pass = 3 => package = PackageOf(job')
  BY <1>1, <1>2 DEF ReviewTypeOK, PackageOf
<1> QED
  BY <1>3, <1>4, CommandStep

\* Starting and reading of the triage preserve the invariant.
LEMMA TriageReadStep ==
    ASSUME ReviewInv,
           \/ \E pf \in preflights : StartTriage(pf)
           \/ ReadResults \/ VerifyFirst \/ VerifyRepeat \/ CompareProjections
    PROVE  ReviewInv'
<1> DEFINE first == candidates["first"]
<1>1. CASE \E pf \in preflights : StartTriage(pf)
  <2>1. PICK pf \in preflights : StartTriage(pf)
    BY <1>1
  <2>2. job' = [Idle EXCEPT !.op = "triage", !.stage = "results", !.preflight = pf] /\ JobOnly
    BY <2>1 DEF StartTriage, Starts, JobOnly
  <2>3. /\ IsCommand(job') /\ job'.op = "triage" /\ job'.stage = "results"
        /\ job'.preflight \in preflights /\ job'.pass = 1
    BY <2>2 DEF Idle, IsCommand
  <2>4. preflights' = preflights
    BY <2>2 DEF JobOnly, reviewVars
  <2>5. CommandInputs' /\ CommandReads'
    BY <2>3, <2>4 DEF CommandInputs, CommandReads, TriageStages, ReviewCommands
  <2> QED
    BY <2>2, <2>3, <2>5, CommandStep
<1>2. /\ \A s \in Slots : candidates[s] # Nothing => candidates[s] \in Candidates
      /\ first # Nothing => first \in Candidates
  BY DEF ReviewInv, ReviewTypeOK, Slots
<1>3. CASE ReadResults
  <2>1. /\ job # Nothing /\ job.stage = "results" /\ first \in Candidates /\ JobOnly
        /\ job' = [job EXCEPT !.stage = "first", !.read = first]
        /\ IsCommand(job) /\ CommandInputs
    BY <1>2, <1>3 DEF ReadResults, ReviewInv, JobOnly
  <2>2. /\ IsCommand(job') /\ job'.stage = "first" /\ job'.read = first
        /\ Same(job', job, {"stage", "read"}) /\ job'.op = job.op
    BY <2>1 DEF IsCommand, Idle, Same
  <2>3. candidates' = candidates
    BY <2>1 DEF JobOnly, reviewVars
  <2>4. job.op # "preflight"
    BY <2>1 DEF CommandInputs, TriageStages, ReviewCommands
  <2>5. CommandReads'
    BY <2>1, <2>2, <2>3, <2>4 DEF CommandReads, TriageStages
  <2> QED
    BY <2>1, <2>2, <2>5, TriageMoves DEF Same, TriageStages
<1>4. CASE VerifyFirst
  <2> DEFINE a == /\ CandidateVerifies(candidates["first"])
                  /\ job.preflight.ready
                  /\ CatalogCurrent(job.preflight)
                  /\ job.read.preflight = job.preflight
  <2>1. /\ job # Nothing /\ job.stage = "first" /\ JobOnly
        /\ job' = [job EXCEPT !.stage = "repeat", !.admitted = a]
        /\ IsCommand(job) /\ CommandInputs /\ CommandReads
    BY <1>4 DEF VerifyFirst, ReviewInv, JobOnly
  <2>2. /\ first \in Candidates /\ job.read \in Candidates
        /\ job.read.tree = first.tree /\ job.read.preflight = first.preflight
    BY <2>1 DEF CommandReads, TriageStages
  <2>3. a \in BOOLEAN /\ (a => MadeFrom(job.preflight, job.read.tree))
    BY <2>2, VerifiedMadeFrom
  <2> HIDE DEF a
  <2>4. /\ IsCommand(job') /\ job'.stage = "repeat" /\ job'.admitted = a
        /\ Same(job', job, {"stage", "admitted"})
    BY <2>1 DEF IsCommand, Idle, Same
  <2>5. /\ job'.op = job.op /\ job'.read = job.read /\ job'.preflight = job.preflight
    BY <2>4 DEF Same
  <2>6. candidates' = candidates
    BY <2>1 DEF JobOnly, reviewVars
  <2>7. job.op # "preflight"
    BY <2>1 DEF CommandInputs, TriageStages, ReviewCommands
  <2>8. job'.admitted => MadeFrom(job'.preflight, job'.read.tree)
    BY <2>3, <2>4, <2>5
  <2>9. CommandReads'
    BY <2>2, <2>4, <2>5, <2>6, <2>7, <2>8 DEF CommandReads, TriageStages, MadeFrom
  <2> QED
    BY <2>1, <2>4, <2>9, TriageMoves DEF Same, TriageStages
<1>5. CASE VerifyRepeat
  <2> DEFINE second == candidates["repeat"]
             a == /\ job.admitted
                  /\ CandidateVerifies(second)
                  /\ second.tree = job.read.tree
                  /\ second.preflight = job.read.preflight
  <2>1. /\ job # Nothing /\ job.stage = "repeat" /\ JobOnly /\ second # Nothing
        /\ job' = [job EXCEPT !.stage = "projections", !.repeat = second, !.admitted = a]
        /\ IsCommand(job) /\ CommandInputs /\ CommandReads
    BY <1>5 DEF VerifyRepeat, ReviewInv, JobOnly
  <2>2. /\ first \in Candidates /\ job.read \in Candidates /\ second \in Candidates
        /\ job.read.tree = first.tree /\ job.read.preflight = first.preflight
        /\ job.admitted => MadeFrom(job.preflight, job.read.tree)
    BY <1>2, <2>1 DEF CommandReads, TriageStages, Slots
  <2>3. /\ a \in BOOLEAN
        /\ a => MadeFrom(job.preflight, job.read.tree) /\ second.tree = job.read.tree
    BY <2>2
  <2> HIDE DEF a, second
  <2>4. /\ IsCommand(job') /\ job'.stage = "projections" /\ job'.admitted = a
        /\ job'.repeat = second
        /\ Same(job', job, {"stage", "repeat", "admitted"})
    BY <2>1 DEF IsCommand, Idle, Same
  <2>5. /\ job'.op = job.op /\ job'.read = job.read /\ job'.preflight = job.preflight
    BY <2>4 DEF Same
  <2>6. candidates' = candidates
    BY <2>1 DEF JobOnly, reviewVars
  <2>7. job.op # "preflight"
    BY <2>1 DEF CommandInputs, TriageStages, ReviewCommands
  <2>8. job'.admitted => /\ MadeFrom(job'.preflight, job'.read.tree)
                         /\ job'.repeat.tree = job'.read.tree
    BY <2>3, <2>4, <2>5
  <2>9. CommandReads'
    BY <2>2, <2>4, <2>5, <2>6, <2>7, <2>8 DEF CommandReads, TriageStages, MadeFrom
  <2> QED
    BY <2>1, <2>4, <2>9, TriageMoves DEF Same, TriageStages
<1>6. CASE CompareProjections
  <2> DEFINE a == job.admitted /\ Projection("first") = Projection("repeat")
  <2>1. /\ job # Nothing /\ job.stage = "projections" /\ JobOnly
        /\ job' = [job EXCEPT !.stage = "digest", !.admitted = a]
        /\ IsCommand(job) /\ CommandInputs /\ CommandReads
    BY <1>6 DEF CompareProjections, ReviewInv, JobOnly
  <2>2. /\ first \in Candidates /\ job.read \in Candidates /\ job.repeat \in Candidates
        /\ job.read.tree = first.tree /\ job.read.preflight = first.preflight
        /\ job.admitted => /\ MadeFrom(job.preflight, job.read.tree)
                           /\ job.repeat.tree = job.read.tree
    BY <2>1 DEF CommandReads, TriageStages
  <2>3. /\ a \in BOOLEAN
        /\ a => MadeFrom(job.preflight, job.read.tree) /\ job.repeat.tree = job.read.tree
    BY <2>2
  <2> HIDE DEF a
  <2>4. /\ IsCommand(job') /\ job'.stage = "digest" /\ job'.admitted = a
        /\ Same(job', job, {"stage", "admitted"})
    BY <2>1 DEF IsCommand, Idle, Same
  <2>5. /\ job'.op = job.op /\ job'.read = job.read /\ job'.preflight = job.preflight
        /\ job'.repeat = job.repeat
    BY <2>4 DEF Same
  <2>6. candidates' = candidates
    BY <2>1 DEF JobOnly, reviewVars
  <2>7. job.op # "preflight"
    BY <2>1 DEF CommandInputs, TriageStages, ReviewCommands
  <2>8. job'.admitted => /\ MadeFrom(job'.preflight, job'.read.tree)
                         /\ job'.repeat.tree = job'.read.tree
    BY <2>3, <2>4, <2>5
  <2>9. CommandReads'
    BY <2>2, <2>4, <2>5, <2>6, <2>7, <2>8 DEF CommandReads, TriageStages, MadeFrom
  <2> QED
    BY <2>1, <2>4, <2>9, TriageMoves DEF Same, TriageStages
<1> QED
  BY <1>1, <1>3, <1>4, <1>5, <1>6

\* A triage receipt that is written binds the evidence of one tree, if it is
\* admitted.
LEMMA TriageWriteStep ==
    ASSUME ReviewInv, WriteTriage
    PROVE  ReviewInv'
<1> DEFINE new == TriageReceipt
<1>1. /\ job # Nothing /\ job.op = "triage" /\ job.stage = "digest"
      /\ triages' = triages \cup {new} /\ job' = Nothing
      /\ UNCHANGED <<now, tree, edits, swaps, preflights, candidates, proposals,
                     acceptance, package>>
      /\ CommandInputs /\ CommandReads /\ ReviewTypeOK /\ EvidenceBound
  BY DEF WriteTriage, Doing, ReviewInv
<1>2. /\ candidates["first"] \in Candidates /\ job.read \in Candidates
      /\ job.read.tree = candidates["first"].tree /\ job.repeat \in Candidates
      /\ job.admitted => /\ MadeFrom(job.preflight, job.read.tree)
                         /\ job.repeat.tree = job.read.tree
  BY <1>1 DEF CommandReads, TriageStages
<1>3. job.preflight \in preflights /\ preflights \subseteq Preflights
  BY <1>1 DEF CommandInputs, ReviewTypeOK
<1>4. /\ new.candidate = candidates["first"] /\ new.repeat = job.repeat
      /\ new.preflight = job.preflight
  BY DEF TriageReceipt
<1>5. new.findings \in {"admitted", "other"} /\ (new.findings = "admitted" => job.admitted)
  BY DEF TriageReceipt, FindingsOf
<1>6. new \in Triages
  BY <1>2, <1>3, <1>5 DEF Triages, TriageReceipt
<1>7. new.findings = "admitted" =>
        MadeFrom(new.preflight, new.candidate.tree) /\ new.repeat.tree = new.candidate.tree
  BY <1>2, <1>4, <1>5
<1> HIDE DEF new
<1>8. ReviewTypeOK'
  BY <1>1, <1>3, <1>4, <1>6 DEF ReviewTypeOK
<1>9. EvidenceBound'
  BY <1>1, <1>7 DEF EvidenceBound, MadeFrom
<1> QED
  BY <1>1, <1>8, <1>9 DEF ReviewInv

-----------------------------------------------------------------------------
(* The review, the acceptance and the confirmation.                        *)

\* A review, an acceptance or a confirmation that goes on: its inputs and the
\* evidence it has read remain to be shown.
LEMMA ReviewMoves ==
    ASSUME ReviewInv, JobOnly, IsCommand(job'), job'.op \in ReviewCommands,
           job'.stage \in {"results", "evidence", "decision", "artifact"},
           job'.pass = 1, CommandInputs', 
           job'.stage = "evidence" => candidates["first"] \in Candidates,
           job'.stage = "decision" => job'.read \in Results
    PROVE  ReviewInv'
<1>1. candidates' = candidates
  BY DEF JobOnly, reviewVars
<1>2. CommandReads'
  BY <1>1 DEF CommandReads, TriageStages, ReviewCommands
<1> QED
  BY <1>2, CommandStep

\* The start of a review, of an acceptance and of a confirmation.
LEMMA ReviewStartStep ==
    ASSUME ReviewInv,
           \/ \E t \in triages : StartReview(t) \/ StartConfirm(t)
           \/ \E p \in proposals : StartAccept(p)
    PROVE  ReviewInv'
<1>1. /\ ReviewTypeOK /\ tree \in Trees
      /\ DispositionPolicy \in Policies
  BY DEF ReviewInv, ReviewTypeOK, DispositionPolicy, Policies
<1>2. CASE \E t \in triages : StartReview(t)
  <2>1. PICK t \in triages : StartReview(t)
    BY <1>2
  <2>2. /\ job' = [Idle EXCEPT !.op = "review", !.stage = "results", !.tree = DispositionPolicy,
                     !.preflight = t.preflight, !.triage = t]
        /\ JobOnly
    BY <2>1 DEF StartReview, Starts, JobOnly
  <2>3. /\ IsCommand(job') /\ job'.op = "review" /\ job'.stage = "results" /\ job'.pass = 1
        /\ job'.tree \in Policies /\ job'.triage = t /\ job'.preflight = t.preflight
    BY <1>1, <2>2 DEF Idle, IsCommand
  <2>4. triages' = triages
    BY <2>2 DEF JobOnly, reviewVars
  <2>5. CommandInputs'
    BY <2>3, <2>4 DEF CommandInputs, TriageStages, ReviewCommands
  <2> QED
    BY <2>2, <2>3, <2>5, ReviewMoves DEF ReviewCommands
<1>3. CASE \E t \in triages : StartConfirm(t)
  <2>1. PICK t \in triages : StartConfirm(t)
    BY <1>3
  <2>2. /\ job' = [Idle EXCEPT !.op = "confirm", !.stage = "results",
                     !.preflight = t.preflight, !.triage = t, !.proposal = AcceptedReview]
        /\ JobOnly
    BY <2>1 DEF StartConfirm, Starts, JobOnly
  <2>3. /\ IsCommand(job') /\ job'.op = "confirm" /\ job'.stage = "results" /\ job'.pass = 1
        /\ job'.triage = t /\ job'.preflight = t.preflight
    BY <2>2 DEF Idle, IsCommand
  <2>4. triages' = triages
    BY <2>2 DEF JobOnly, reviewVars
  <2>5. CommandInputs'
    BY <2>3, <2>4 DEF CommandInputs, TriageStages, ReviewCommands
  <2> QED
    BY <2>2, <2>3, <2>5, ReviewMoves DEF ReviewCommands
<1>4. CASE \E p \in proposals : StartAccept(p)
  <2>1. PICK p \in proposals : StartAccept(p)
    BY <1>4
  <2>2. /\ job' = [Idle EXCEPT !.op = "accept", !.stage = "results", !.tree = DispositionPolicy,
                     !.preflight = p.triage.preflight, !.triage = p.triage, !.proposal = p]
        /\ JobOnly
    BY <2>1 DEF StartAccept, Starts, JobOnly
  <2>3. /\ IsCommand(job') /\ job'.op = "accept" /\ job'.stage = "results" /\ job'.pass = 1
        /\ job'.tree \in Policies /\ job'.triage = p.triage
        /\ job'.preflight = p.triage.preflight /\ job'.proposal = p
    BY <1>1, <2>2 DEF Idle, IsCommand
  <2>4. triages' = triages /\ proposals' = proposals /\ p.triage \in triages
    BY <1>1, <2>2 DEF JobOnly, reviewVars, ReviewTypeOK
  <2>5. CommandInputs'
    BY <2>3, <2>4 DEF CommandInputs, TriageStages, ReviewCommands
  <2> QED
    BY <2>2, <2>3, <2>5, ReviewMoves DEF ReviewCommands
<1> QED
  BY <1>2, <1>3, <1>4

\* A command of the review that goes to its next stage with its inputs.
LEMMA ReviewGoesOn ==
    ASSUME ReviewInv, JobOnly, job # Nothing, job.op \in ReviewCommands,
           job.triage.findings = "admitted",
           IsCommand(job'), job'.stage \in {"evidence", "decision", "artifact"},
           Same(job', job, {"stage", "read", "repeat"}),
           job'.stage = "evidence" => candidates["first"] \in Candidates,
           job'.stage = "decision" => job'.read \in Results
    PROVE  ReviewInv'
<1>1. /\ job'.op = job.op /\ job'.pass = job.pass /\ job'.preflight = job.preflight
      /\ job'.triage = job.triage /\ job'.tree = job.tree
      /\ job'.proposal = job.proposal
  BY DEF Same
<1>2. CommandInputs
  BY DEF ReviewInv
<1>3. CommandInputs'
  BY <1>1, <1>2 DEF CommandInputs, JobOnly, reviewVars, TriageStages, ReviewCommands
<1>4. job'.pass = 1
  BY <1>1, <1>2 DEF CommandInputs, ReviewCommands
<1> QED
  BY <1>1, <1>3, <1>4, ReviewMoves

\* The triage recomputed, the evidence read, the proposal reproduced.
LEMMA ReviewReadStep ==
    ASSUME ReviewInv, RecomputeTriage \/ ReadEvidence \/ ReproduceProposal
    PROVE  ReviewInv'
<1>1. CASE RecomputeTriage
  <2>1. /\ job # Nothing /\ job.op \in ReviewCommands /\ job.triage.findings = "admitted"
        /\ job.stage = "digest" /\ JobOnly
        /\ job' = [job EXCEPT !.stage = "evidence", !.read = Nothing, !.repeat = Nothing]
        /\ IsCommand(job) /\ CommandReads
    BY <1>1 DEF RecomputeTriage, Recomputed, ReviewInv, JobOnly, ReviewCommands
  <2>2. /\ IsCommand(job') /\ job'.stage = "evidence"
        /\ Same(job', job, {"stage", "read", "repeat"})
    BY <2>1 DEF IsCommand, Idle, Same
  <2>3. candidates["first"] \in Candidates
    BY <2>1 DEF CommandReads, TriageStages
  <2> QED
    BY <2>1, <2>2, <2>3, ReviewGoesOn
<1>2. CASE ReadEvidence
  <2>1. /\ job # Nothing /\ job.stage = "evidence" /\ JobOnly
        /\ job' = [job EXCEPT !.stage = "decision", !.read = candidates["first"].results]
        /\ IsCommand(job) /\ CommandInputs /\ CommandReads
    BY <1>2 DEF ReadEvidence, Projection, ReviewInv, JobOnly
  <2>2. job.op \in ReviewCommands /\ job.triage.findings = "admitted"
    BY <2>1 DEF CommandInputs
  <2>3. candidates["first"].results \in Results
    BY <2>1 DEF CommandReads, Candidates
  <2>4. /\ IsCommand(job') /\ job'.stage = "decision" /\ job'.read \in Results
        /\ Same(job', job, {"stage", "read", "repeat"})
    BY <2>1, <2>3 DEF IsCommand, Idle, Same
  <2> QED
    BY <2>1, <2>2, <2>4, ReviewGoesOn
<1>3. CASE ReproduceProposal
  <2>1. /\ job # Nothing /\ job.stage = "decision" /\ job.op = "accept" /\ JobOnly
        /\ job' = [job EXCEPT !.stage = "artifact", !.read = Nothing]
        /\ IsCommand(job) /\ CommandInputs
    BY <1>3 DEF ReproduceProposal, Doing, ReviewInv, JobOnly
  <2>2. job.op \in ReviewCommands /\ job.triage.findings = "admitted"
    BY <2>1 DEF CommandInputs, ReviewCommands
  <2>3. /\ IsCommand(job') /\ job'.stage = "artifact"
        /\ Same(job', job, {"stage", "read", "repeat"})
    BY <2>1 DEF IsCommand, Idle, Same
  <2> QED
    BY <2>1, <2>2, <2>3, ReviewGoesOn
<1> QED
  BY <1>1, <1>2, <1>3

\* The proposal, the artifact, the policy and an acceptance by hand: what they
\* bind is what the command was given.
LEMMA ReviewWriteStep ==
    ASSUME ReviewInv,
           \/ WriteProposal \/ WriteArtifact \/ WriteAcceptedPolicy \/ WriteConfirmation
           \/ \E p \in proposals : AcceptSource(p)
    PROVE  ReviewInv'
<1>1. ReviewTypeOK /\ EvidenceBound
  BY DEF ReviewInv
<1>2. CASE WriteProposal
  <2> DEFINE new == Decision
  <2>1. /\ job # Nothing /\ job.op = "review" /\ job.stage = "decision"
        /\ proposals' = proposals \cup {new} /\ job' = Nothing
        /\ UNCHANGED <<now, tree, edits, swaps, preflights, candidates, triages,
                       acceptance, package>>
        /\ CommandInputs /\ CommandReads
    BY <1>2 DEF WriteProposal, Doing, ReviewInv
  <2>2. /\ job.triage \in triages /\ job.triage.findings = "admitted"
        /\ job.tree \in Policies
    BY <2>1 DEF CommandInputs, ReviewCommands
  <2>3. job.read \in Results
    BY <2>1 DEF CommandReads, ReviewCommands
  <2>4. DispositionPolicy \in Policies /\ triages \subseteq Triages
    BY <1>1 DEF ReviewTypeOK, DispositionPolicy, Policies
  <2>5. new \in Decisions /\ new.triage = job.triage
    BY <2>2, <2>3, <2>4 DEF Decision, Decisions
  <2> HIDE DEF new
  <2>6. ReviewTypeOK'
    BY <1>1, <2>1, <2>2, <2>5 DEF ReviewTypeOK
  <2>7. EvidenceBound'
    BY <1>1, <2>1, <2>2, <2>5 DEF EvidenceBound, MadeFrom
  <2> QED
    BY <2>1, <2>6, <2>7 DEF ReviewInv
<1>3. CASE WriteArtifact
  <2>1. /\ job # Nothing /\ job.op = "accept" /\ job.stage = "artifact"
        /\ acceptance' = [kind |-> "boundary", proposal |-> job.proposal, policy |-> FALSE]
        /\ job' = [job EXCEPT !.stage = "policy"]
        /\ UNCHANGED <<now, tree, edits, swaps, preflights, candidates, triages,
                       proposals, package>>
        /\ IsCommand(job) /\ CommandInputs
    BY <1>3 DEF WriteArtifact, Doing, Goes, ReviewInv
  <2>2. job.proposal \in proposals /\ proposals \subseteq Decisions
    BY <1>1, <2>1 DEF CommandInputs, ReviewTypeOK
  <2>3. /\ acceptance' \in Acceptances /\ acceptance'.kind = "boundary"
        /\ acceptance'.proposal \in proposals
    BY <2>1, <2>2 DEF Acceptances
  <2>4. /\ IsCommand(job') /\ job'.stage = "policy" /\ Same(job', job, {"stage"})
    BY <2>1 DEF IsCommand, Idle, Same
  <2>5. /\ job'.op = "accept" /\ job'.pass = job.pass /\ job'.preflight = job.preflight
        /\ job'.triage = job.triage /\ job'.tree = job.tree
        /\ job'.proposal = job.proposal
    BY <2>1, <2>4 DEF Same
  <2>6. job.pass = 1
    BY <2>1 DEF CommandInputs
  <2>7. CommandInputs'
    BY <2>1, <2>3, <2>4, <2>5 DEF CommandInputs, TriageStages, ReviewCommands
  <2>8. CommandReads'
    BY <2>4, <2>5 DEF CommandReads, TriageStages, ReviewCommands
  <2>9. ReviewTypeOK'
    BY <1>1, <2>1, <2>3, <2>5, <2>6 DEF ReviewTypeOK
  <2>10. EvidenceBound'
    BY <1>1, <2>1 DEF EvidenceBound, MadeFrom
  <2> QED
    BY <2>4, <2>7, <2>8, <2>9, <2>10 DEF ReviewInv
<1>4. CASE WriteAcceptedPolicy
  <2>1. /\ job # Nothing /\ job.op = "accept" /\ job.stage = "policy"
        /\ acceptance' = [acceptance EXCEPT !.policy = TRUE] /\ job' = Nothing
        /\ UNCHANGED <<now, tree, edits, swaps, preflights, candidates, triages,
                       proposals, package>>
        /\ CommandInputs
    BY <1>4 DEF WriteAcceptedPolicy, Doing, ReviewInv
  <2>2. acceptance \in Acceptances /\ acceptance.proposal \in proposals
    BY <2>1 DEF CommandInputs
  <2>3. acceptance' \in Acceptances /\ acceptance'.proposal = acceptance.proposal
    BY <2>1, <2>2 DEF Acceptances
  <2>4. acceptance'.proposal \in proposals'
    BY <2>1, <2>2, <2>3
  <2>5. ReviewTypeOK'
    BY <1>1, <2>1, <2>3, <2>4 DEF ReviewTypeOK
  <2>6. EvidenceBound'
    BY <1>1, <2>1 DEF EvidenceBound, MadeFrom
  <2> QED
    BY <2>1, <2>5, <2>6 DEF ReviewInv
<1>5. CASE WriteConfirmation
  <2>1. job' = Nothing /\ JobOnly
    BY <1>5 DEF WriteConfirmation, JobOnly
  <2> QED
    BY <2>1, CommandStep
<1>6. CASE \E p \in proposals : AcceptSource(p)
  <2>1. PICK p \in proposals : AcceptSource(p)
    BY <1>6
  <2>2. /\ job = Nothing /\ job' = job
        /\ acceptance' = [kind |-> "source", proposal |-> p, policy |-> TRUE]
        /\ UNCHANGED <<now, tree, edits, swaps, preflights, candidates, triages,
                       proposals, package>>
    BY <2>1 DEF AcceptSource
  <2>3. proposals \subseteq Decisions
    BY <1>1 DEF ReviewTypeOK
  <2>4. acceptance' \in Acceptances /\ acceptance'.proposal = p
    BY <2>2, <2>3 DEF Acceptances
  <2>5. ReviewTypeOK' /\ EvidenceBound'
    BY <1>1, <2>2, <2>4 DEF ReviewTypeOK, EvidenceBound, MadeFrom
  <2> QED
    BY <2>2, <2>5 DEF ReviewInv
<1> QED
  BY <1>2, <1>3, <1>4, <1>5, <1>6

-----------------------------------------------------------------------------
(* The operator package.                                                   *)

\* Starting a package, recomputing its triage and reading its inputs.
LEMMA PackageReadStep ==
    ASSUME ReviewInv,
           \/ \E pf \in preflights, t \in triages \cup {Nothing} : StartPackage(pf, t)
           \/ RecomputePackagedTriage \/ PackageInputs
    PROVE  ReviewInv'
<1>1. CASE \E pf \in preflights, t \in triages \cup {Nothing} : StartPackage(pf, t)
  <2>1. PICK pf \in preflights, t \in triages \cup {Nothing} : StartPackage(pf, t)
    BY <1>1
  <2> DEFINE s == IF t = Nothing THEN "inputs" ELSE "results"
  <2>2. /\ job' = [Idle EXCEPT !.op = "package", !.preflight = pf, !.triage = t, !.stage = s]
        /\ JobOnly
    BY <2>1 DEF StartPackage, Starts, JobOnly
  <2>3. /\ IsCommand(job') /\ job'.op = "package" /\ job'.stage \in {"inputs", "results"}
        /\ job'.preflight = pf /\ job'.triage = t /\ job'.pass = 1
    BY <2>2 DEF Idle, IsCommand
  <2>4. triages' = triages /\ preflights' = preflights
    BY <2>2 DEF JobOnly, reviewVars
  <2>5. CommandInputs' /\ CommandReads'
    BY <2>3, <2>4 DEF CommandInputs, CommandReads, TriageStages, ReviewCommands
  <2> QED
    BY <2>2, <2>3, <2>5, CommandStep
<1>2. ASSUME job # Nothing, JobOnly, job.op = "package", CommandInputs,
             IsCommand(job'), Same(job', job, {"stage", "pass", "read", "repeat"}),
             job'.pass = 3 => job.pass = 3, job'.stage \in {"inputs", "results", "rename"},
             job'.stage = "rename" =>
                Files[job.preflight.source].catalog = job.preflight.catalog
      PROVE  ReviewInv'
  <2>1. /\ job'.op = "package" /\ job'.preflight = job.preflight
        /\ job'.triage = job.triage
    BY <1>2 DEF Same
  <2>2. triages' = triages /\ preflights' = preflights
    BY <1>2 DEF JobOnly, reviewVars
  <2>3. CommandInputs' /\ CommandReads'
    BY <1>2, <2>1, <2>2 DEF CommandInputs, CommandReads, TriageStages, ReviewCommands
  <2>4. job'.pass = 3 => package = PackageOf(job')
    BY <1>2, <2>1 DEF ReviewInv, ReviewTypeOK, PackageOf
  <2> QED
    BY <1>2, <2>3, <2>4, CommandStep
<1>3. CASE RecomputePackagedTriage
  <2>1. /\ job # Nothing /\ job.op = "package" /\ JobOnly
        /\ job' = [job EXCEPT !.stage = "inputs", !.read = Nothing, !.repeat = Nothing]
        /\ IsCommand(job) /\ CommandInputs
    BY <1>3 DEF RecomputePackagedTriage, Recomputed, ReviewInv, JobOnly
  <2>2. /\ IsCommand(job') /\ job'.stage = "inputs" /\ job'.pass = job.pass
        /\ Same(job', job, {"stage", "pass", "read", "repeat"})
    BY <2>1 DEF IsCommand, Idle, Same
  <2> QED
    BY <1>2, <2>1, <2>2
<1>4. CASE PackageInputs
  <2> DEFINE s == IF job.triage = Nothing THEN "inputs" ELSE "results"
  <2>1. /\ job # Nothing /\ job.op = "package" /\ JobOnly /\ IsCommand(job)
        /\ CommandInputs /\ CurrentEvidence(job.preflight)
        /\ \/ job' = [job EXCEPT !.stage = "rename"] /\ job.pass = 2
           \/ job' = Nothing
           \/ job' = [job EXCEPT !.pass = 2, !.stage = s]
    BY <1>4 DEF PackageInputs, Doing, Goes, ReviewInv, JobOnly
  <2>2. Files[job.preflight.source].catalog = job.preflight.catalog
    BY <2>1 DEF CurrentEvidence, CatalogCurrent, CatalogInputs, SourceBinding
  <2>3. CASE job' = [job EXCEPT !.stage = "rename"] /\ job.pass = 2
    <3>1. /\ IsCommand(job') /\ job'.stage = "rename" /\ job'.pass = job.pass
          /\ Same(job', job, {"stage", "pass", "read", "repeat"})
      BY <2>1, <2>3 DEF IsCommand, Idle, Same
    <3> QED
      BY <1>2, <2>1, <2>2, <3>1
  <2>4. CASE job' = Nothing
    BY <2>1, <2>4, CommandStep
  <2>5. CASE job' = [job EXCEPT !.pass = 2, !.stage = s]
    <3>1. /\ IsCommand(job') /\ job'.stage = s /\ job'.pass = 2
          /\ Same(job', job, {"stage", "pass", "read", "repeat"})
      BY <2>1, <2>5 DEF IsCommand, Idle, Same
    <3>2. s \in {"inputs", "results"}
      OBVIOUS
    <3> QED
      BY <1>2, <2>1, <3>1, <3>2
  <2> QED
    BY <2>1, <2>3, <2>4, <2>5
<1> QED
  BY <1>1, <1>3, <1>4

\* The package is what its build read, until that build removes it.
LEMMA PackageWriteStep ==
    ASSUME ReviewInv, RenamePackage \/ RemovePackage
    PROVE  ReviewInv'
<1>1. ReviewTypeOK /\ EvidenceBound
  BY DEF ReviewInv
<1>2. CASE RenamePackage
  <2> DEFINE s == IF job.triage = Nothing THEN "inputs" ELSE "results"
  <2>1. /\ job # Nothing /\ job.op = "package" /\ job.stage = "rename"
        /\ package' = PackageOf(job)
        /\ job' = [job EXCEPT !.pass = 3, !.stage = s]
        /\ UNCHANGED <<now, tree, edits, swaps, preflights, candidates, triages,
                       proposals, acceptance>>
        /\ IsCommand(job) /\ CommandInputs
    BY <1>2 DEF RenamePackage, Doing, ReviewInv
  <2>2. /\ IsCommand(job') /\ job'.stage \in {"inputs", "results"} /\ job'.pass = 3
        /\ Same(job', job, {"stage", "pass"})
    BY <2>1 DEF IsCommand, Idle, Same
  <2>3. job'.op = "package" /\ job'.preflight = job.preflight /\ job'.triage = job.triage
    BY <2>1, <2>2 DEF Same
  <2>4. /\ job.preflight \in preflights /\ job.triage \in triages \cup {Nothing}
        /\ Files[job.preflight.source].catalog = job.preflight.catalog
    BY <2>1 DEF CommandInputs
  <2>5. /\ package' \in Packages /\ package'.preflight = job.preflight
        /\ package' = PackageOf(job')
    BY <1>1, <2>1, <2>3, <2>4 DEF PackageOf, Packages, ReviewTypeOK
  <2>6. CommandInputs' /\ CommandReads'
    BY <2>1, <2>2, <2>3, <2>4 DEF CommandInputs, CommandReads, TriageStages, ReviewCommands
  <2>7. ReviewTypeOK'
    <3>1. (job # Nothing /\ job.pass = 3 => package = PackageOf(job))'
      BY <2>5 DEF PackageOf
    <3> QED
      BY <1>1, <2>1, <2>4, <2>5, <3>1 DEF ReviewTypeOK
  <2>8. EvidenceBound'
    BY <1>1, <2>1, <2>4, <2>5 DEF EvidenceBound, MadeFrom
  <2> QED
    BY <2>2, <2>6, <2>7, <2>8 DEF ReviewInv
<1>3. CASE RemovePackage
  <2>1. /\ package' = Nothing /\ job' = Nothing
        /\ UNCHANGED <<now, tree, edits, swaps, preflights, candidates, triages,
                       proposals, acceptance>>
    BY <1>3 DEF RemovePackage
  <2>2. ReviewTypeOK' /\ EvidenceBound'
    BY <1>1, <2>1 DEF ReviewTypeOK, EvidenceBound, MadeFrom
  <2> QED
    BY <2>1, <2>2 DEF ReviewInv
<1> QED
  BY <1>2, <1>3

-----------------------------------------------------------------------------
(* The environment.                                                        *)

\* A command goes on while time passes, files are edited and directories are
\* replaced, as long as the slots keep the trees and the preflights.
LEMMA CommandRests ==
    ASSUME ReviewInv, ReviewTypeOK',
           UNCHANGED <<preflights, triages, proposals, acceptance, package, job>>,
           now' >= now,
           candidates["first"] \in Candidates =>
              /\ candidates'["first"] \in Candidates
              /\ candidates'["first"].tree = candidates["first"].tree
              /\ candidates'["first"].preflight = candidates["first"].preflight
    PROVE  ReviewInv'
<1>1. now \in Nat /\ now' \in Nat
  BY DEF ReviewInv, ReviewTypeOK
<1>2. EvidenceBound'
  BY DEF ReviewInv, EvidenceBound, MadeFrom
<1>3. job # Nothing => CommandInputs'
  BY DEF ReviewInv, CommandInputs
<1>4. job # Nothing /\ CommandReads => CommandReads'
  BY <1>1 DEF CommandReads, MadeFrom, TriageStages
<1> QED
  BY <1>2, <1>3, <1>4 DEF ReviewInv, IsCommand

\* Candidates, edits, the clock and the end of a command preserve the invariant.
LEMMA EnvironmentStep ==
    ASSUME ReviewInv, Environment
    PROVE  ReviewInv'
<1>1. ReviewTypeOK /\ EvidenceBound
  BY DEF ReviewInv
<1>2. CASE \E s \in Slots, pf \in preflights, r \in Results : MakeCandidate(s, pf, r)
  <2>1. PICK s \in Slots, pf \in preflights, r \in Results : MakeCandidate(s, pf, r)
    BY <1>2
  <2> DEFINE new == [tree |-> tree, preflight |-> pf, results |-> r]
  <2>2. /\ job = Nothing /\ job' = job
        /\ candidates' = [candidates EXCEPT ![s] = new]
        /\ UNCHANGED <<now, tree, edits, swaps, preflights, triages, proposals,
                       acceptance, package>>
    BY <2>1 DEF MakeCandidate
  <2>3. new \in Candidates /\ new.preflight = pf
    BY <1>1 DEF Candidates, ReviewTypeOK
  <2> HIDE DEF new
  <2>4. ReviewTypeOK'
    BY <1>1, <2>2, <2>3 DEF ReviewTypeOK
  <2>5. EvidenceBound'
    BY <1>1, <2>2 DEF EvidenceBound, MadeFrom
  <2> QED
    BY <2>2, <2>4, <2>5 DEF ReviewInv
<1>3. CASE \E s \in Slots, r \in Results : Swap(s, r)
  <2>1. PICK s \in Slots, r \in Results : Swap(s, r)
    BY <1>3
  <2>2. /\ candidates[s] # Nothing /\ swaps < MaxSwaps /\ swaps' = swaps + 1
        /\ candidates' = [candidates EXCEPT ![s] = [candidates[s] EXCEPT !.results = r]]
        /\ UNCHANGED <<now, tree, edits, preflights, triages, proposals, acceptance,
                       package, job>>
    BY <2>1 DEF Swap
  <2> DEFINE new == [candidates[s] EXCEPT !.results = r]
  <2>3. candidates[s] \in Candidates /\ candidates[s].preflight \in preflights
    BY <1>1, <2>2 DEF ReviewTypeOK
  <2>4. /\ new \in Candidates /\ new.tree = candidates[s].tree
        /\ new.preflight = candidates[s].preflight
    BY <2>3 DEF Candidates
  <2>5. candidates' = [candidates EXCEPT ![s] = new]
    BY <2>2
  <2> HIDE DEF new
  <2>6. swaps' \in 0..MaxSwaps
    BY <1>1, <2>2, GradeReviewConstants DEF ReviewTypeOK
  <2>7. candidates' \in [Slots -> Candidates \cup {Nothing}]
    BY <1>1, <2>4, <2>5 DEF ReviewTypeOK
  <2>8. \A q \in Slots : candidates'[q] # Nothing => candidates'[q].preflight \in preflights
    BY <1>1, <2>3, <2>4, <2>5 DEF ReviewTypeOK
  <2>9. ReviewTypeOK'
    BY <1>1, <2>2, <2>6, <2>7, <2>8 DEF ReviewTypeOK, PackageOf
  <2>10. candidates["first"] \in Candidates =>
              /\ candidates'["first"] \in Candidates
              /\ candidates'["first"].tree = candidates["first"].tree
              /\ candidates'["first"].preflight = candidates["first"].preflight
    BY <1>1, <2>3, <2>4, <2>5 DEF ReviewTypeOK, Slots
  <2>11. now' >= now
    BY <1>1, <2>2 DEF ReviewTypeOK
  <2> QED
    BY <2>2, <2>9, <2>10, <2>11, CommandRests
<1>4. CASE \E t \in Trees : Edit(t)
  <2>1. PICK t \in Trees : Edit(t)
    BY <1>4
  <2>2. /\ edits < MaxEdits /\ tree' = t /\ edits' = edits + 1
        /\ UNCHANGED <<now, swaps, preflights, candidates, triages, proposals,
                       acceptance, package, job>>
    BY <2>1 DEF Edit
  <2>3. edits' \in 0..MaxEdits /\ now' >= now
    BY <1>1, <2>2, GradeReviewConstants DEF ReviewTypeOK
  <2>4. ReviewTypeOK'
    BY <1>1, <2>2, <2>3 DEF ReviewTypeOK, PackageOf
  <2> QED
    BY <2>2, <2>3, <2>4, CommandRests
<1>5. CASE Tick
  <2>1. /\ now < MaxTime /\ now' = now + 1
        /\ UNCHANGED <<tree, edits, swaps, preflights, candidates, triages, proposals,
                       acceptance, package, job>>
    BY <1>5 DEF Tick
  <2>2. now' \in 0..MaxTime /\ now' >= now /\ 0..now \subseteq 0..now'
    BY <1>1, <2>1, GradeReviewConstants DEF ReviewTypeOK
  <2>3. ReviewTypeOK'
    BY <1>1, <2>1, <2>2 DEF ReviewTypeOK, PackageOf
  <2> QED
    BY <2>1, <2>2, <2>3, CommandRests
<1>6. CASE Stop
  <2>1. job' = Nothing /\ JobOnly
    BY <1>6 DEF Stop, JobOnly
  <2> QED
    BY <2>1, CommandStep
<1> QED
  BY <1>2, <1>3, <1>4, <1>5, <1>6 DEF Environment

-----------------------------------------------------------------------------
(* Two candidates described as one: AgreementInv, on top of ReviewInv.     *)

\* The counters are numbers.
LEMMA Counters ==
    ReviewInv => now \in Nat /\ edits \in Nat /\ swaps \in Nat
BY GradeReviewConstants DEF ReviewInv, ReviewTypeOK

\* A step that changes the command alone.
LEMMA AgreementJobOnly ==
    ASSUME AgreementInv, ReviewInv', JobOnly, job' # Nothing => CommandAgrees'
    PROVE  AgreementInv'
<1>1. UNCHANGED <<swaps, candidates, triages, proposals, acceptance>>
  BY DEF JobOnly, reviewVars
<1>2. TriagesAgree'
  BY <1>1 DEF AgreementInv, TriagesAgree, AgreeAfter, Agree, Projection
<1>3. DecisionsAgree'
  BY <1>1 DEF AgreementInv, DecisionsAgree, AgreeAfter, Agree, Projection, DescribesOne
<1> QED
  BY <1>2, <1>3 DEF AgreementInv

\* A command that has read nothing yet.
LEMMA AgreementStarts ==
    ASSUME AgreementInv, ReviewInv', JobOnly,
           job' # Nothing =>
              /\ job'.stage \notin ReadingStages \cup {"evidence", "decision"}
              /\ job'.op \in {"accept", "confirm"} => job'.proposal \in proposals
              /\ job'.op = "accept" => job'.stage \notin {"artifact", "policy"}
    PROVE  AgreementInv'
<1>1. proposals' = proposals
  BY DEF JobOnly, reviewVars
<1>2. job' # Nothing => Steady'
  BY DEF Steady, ReadingStages
<1>3. job' # Nothing => CommandAgrees'
  BY <1>1, <1>2 DEF CommandAgrees, SteadyAfter, ReadingStages
<1> QED
  BY <1>3, AgreementJobOnly

\* A command that goes on with what it was given.
LEMMA AgreementGoesOn ==
    ASSUME AgreementInv, ReviewInv', JobOnly, job # Nothing, job.stage # "decision",
           Same(job', job, {"stage", "read", "repeat", "admitted"}),
           job'.stage \in ReadingStages \cup {"evidence"},
           Steady => Steady',
           job'.stage \in {"repeat", "projections", "digest"} /\ job'.admitted =>
              /\ job'.read.preflight = job'.preflight
              /\ job'.stage # "repeat" => /\ candidates["repeat"] \in Candidates
                                          /\ job'.repeat.preflight = job'.preflight
    PROVE  AgreementInv'
<1>1. UNCHANGED <<swaps, candidates, triages, proposals, acceptance>>
  BY DEF JobOnly, reviewVars
<1>2. /\ job'.op = job.op /\ job'.triage = job.triage /\ job'.proposal = job.proposal
      /\ job'.preflight = job.preflight
  BY DEF Same
<1>3. CommandAgrees
  BY DEF AgreementInv
<1>4. Agree' <=> Agree
  BY <1>1 DEF Agree, Projection
<1>5. \A n : SteadyAfter(n) => SteadyAfter(n)'
  BY <1>1, <1>4 DEF SteadyAfter, ReadingStages
<1>6. CommandAgrees'
  BY <1>1, <1>2, <1>3, <1>5 DEF CommandAgrees, ReadingStages, DescribesOne
<1> QED
  BY <1>6, AgreementJobOnly

\* The triage reads the first slot and the second, and compares them.
LEMMA AgreementTriage ==
    ASSUME AgreementInv, ReviewInv',
           ReadResults \/ VerifyFirst \/ VerifyRepeat \/ CompareProjections
    PROVE  AgreementInv'
<1>1. /\ ReviewInv /\ CommandAgrees /\ IsCommand(job) /\ CommandInputs /\ CommandReads
      /\ job # Nothing /\ JobOnly /\ candidates' = candidates
      /\ candidates["repeat"] # Nothing => candidates["repeat"] \in Candidates
  BY DEF AgreementInv, ReviewInv, ReviewTypeOK, Slots, ReadResults, VerifyFirst, VerifyRepeat,
         CompareProjections, JobOnly, reviewVars
<1>2. CASE ReadResults
  <2>1. /\ job.stage = "results"
        /\ job' = [job EXCEPT !.stage = "first", !.read = candidates["first"]]
    BY <1>2 DEF ReadResults
  <2>2. /\ job'.stage = "first" /\ job'.read = candidates["first"]
        /\ Same(job', job, {"stage", "read", "repeat", "admitted"})
    BY <1>1, <2>1 DEF IsCommand, Idle, Same
  <2>3. Steady'
    BY <1>1, <2>2 DEF Steady, ReadingStages
  <2> QED
    BY <1>1, <2>1, <2>2, <2>3, AgreementGoesOn DEF ReadingStages
<1>3. CASE VerifyFirst
  <2> DEFINE a == /\ CandidateVerifies(candidates["first"])
                  /\ job.preflight.ready
                  /\ CatalogCurrent(job.preflight)
                  /\ job.read.preflight = job.preflight
  <2>1. /\ job.stage = "first"
        /\ job' = [job EXCEPT !.stage = "repeat", !.admitted = a]
    BY <1>3 DEF VerifyFirst
  <2>2. a => job.read.preflight = job.preflight
    OBVIOUS
  <2> HIDE DEF a
  <2>3. /\ job'.stage = "repeat" /\ job'.read = job.read /\ job'.preflight = job.preflight
        /\ job'.admitted = a
        /\ Same(job', job, {"stage", "read", "repeat", "admitted"})
    BY <1>1, <2>1 DEF IsCommand, Idle, Same
  <2>4. Steady => Steady'
    BY <1>1, <2>1, <2>3 DEF Steady, ReadingStages
  <2>5. job'.admitted => job'.read.preflight = job'.preflight
    BY <2>2, <2>3
  <2> QED
    BY <1>1, <2>1, <2>3, <2>4, <2>5, AgreementGoesOn DEF ReadingStages
<1>4. CASE VerifyRepeat
  <2> DEFINE second == candidates["repeat"]
             a == /\ job.admitted
                  /\ CandidateVerifies(second)
                  /\ second.tree = job.read.tree
                  /\ second.preflight = job.read.preflight
  <2>1. /\ job.stage = "repeat" /\ second # Nothing
        /\ job' = [job EXCEPT !.stage = "projections", !.repeat = second, !.admitted = a]
    BY <1>4 DEF VerifyRepeat
  <2>2. job.admitted => job.read.preflight = job.preflight
    BY <1>1, <2>1 DEF CommandAgrees
  <2>3. a => job.read.preflight = job.preflight /\ second.preflight = job.preflight
    BY <2>2
  <2> HIDE DEF a
  <2>4. /\ job'.stage = "projections" /\ job'.read = job.read
        /\ job'.preflight = job.preflight /\ job'.repeat = second /\ job'.admitted = a
        /\ Same(job', job, {"stage", "read", "repeat", "admitted"})
    BY <1>1, <2>1 DEF IsCommand, Idle, Same
  <2>5. Steady => Steady'
    BY <1>1, <2>1, <2>4 DEF Steady, ReadingStages
  <2>6. job'.admitted => /\ job'.read.preflight = job'.preflight
                         /\ job'.repeat.preflight = job'.preflight
    BY <2>3, <2>4
  <2> QED
    BY <1>1, <2>1, <2>4, <2>5, <2>6, AgreementGoesOn DEF ReadingStages
<1>5. CASE CompareProjections
  <2> DEFINE a == job.admitted /\ Projection("first") = Projection("repeat")
  <2>1. /\ job.stage = "projections"
        /\ job' = [job EXCEPT !.stage = "digest", !.admitted = a]
    BY <1>5 DEF CompareProjections
  <2>2. job.admitted => /\ job.read.preflight = job.preflight
                        /\ candidates["repeat"] \in Candidates
                        /\ job.repeat.preflight = job.preflight
    BY <1>1, <2>1 DEF CommandAgrees
  <2>3. a => /\ job.read.preflight = job.preflight
             /\ candidates["repeat"] \in Candidates
             /\ job.repeat.preflight = job.preflight /\ Agree
    BY <2>2 DEF Agree
  <2> HIDE DEF a
  <2>4. /\ job'.stage = "digest" /\ job'.read = job.read
        /\ job'.preflight = job.preflight /\ job'.repeat = job.repeat /\ job'.admitted = a
        /\ Same(job', job, {"stage", "read", "repeat", "admitted"})
    BY <1>1, <2>1 DEF IsCommand, Idle, Same
  <2>5. job'.admitted => Agree'
    BY <1>1, <2>3, <2>4 DEF Agree, Projection
  <2>6. Steady => Steady'
    BY <1>1, <2>1, <2>4, <2>5 DEF Steady, ReadingStages
  <2>7. job'.admitted => /\ job'.read.preflight = job'.preflight
                         /\ candidates["repeat"] \in Candidates
                         /\ job'.repeat.preflight = job'.preflight
    BY <2>3, <2>4
  <2> QED
    BY <1>1, <2>1, <2>4, <2>6, <2>7, AgreementGoesOn DEF ReadingStages
<1> QED
  BY <1>2, <1>3, <1>4, <1>5

\* The triage that was recomputed and the evidence that was read describe the
\* two candidates that are there, if none was replaced meanwhile.
LEMMA AgreementReview ==
    ASSUME AgreementInv, ReviewInv', RecomputeTriage \/ ReadEvidence \/ ReproduceProposal
    PROVE  AgreementInv'
<1>1. /\ ReviewInv /\ CommandAgrees /\ IsCommand(job) /\ CommandInputs /\ CommandReads
      /\ job # Nothing /\ JobOnly /\ UNCHANGED <<candidates, swaps, proposals>>
      /\ TriagesAgree /\ DecisionsAgree
      /\ Agree' <=> Agree
  BY DEF AgreementInv, ReviewInv, RecomputeTriage, Recomputed, ReadEvidence,
         ReproduceProposal, Doing, JobOnly, reviewVars, Agree, Projection
<1>2. CASE RecomputeTriage
  <2>1. /\ job.stage = "digest" /\ job.op \in ReviewCommands
        /\ job.triage.findings = "admitted" /\ job.triage = TriageReceipt
        /\ job' = [job EXCEPT !.stage = "evidence", !.read = Nothing, !.repeat = Nothing]
    BY <1>2 DEF RecomputeTriage, Recomputed, ReviewCommands
  <2>2. /\ job'.stage = "evidence" /\ job'.triage = job.triage
        /\ Same(job', job, {"stage", "read", "repeat", "admitted"})
    BY <1>1, <2>1 DEF IsCommand, Idle, Same
  <2>3. job.triage \in triages
    BY <1>1, <2>1 DEF CommandInputs
  <2>4. /\ job.triage.candidate.preflight = job.triage.preflight
        /\ job.triage.repeat.preflight = job.triage.preflight
    BY <1>1, <2>1, <2>3 DEF TriagesAgree
  <2>5. /\ job.triage.candidate = candidates["first"] /\ job.triage.repeat = job.repeat
        /\ job.triage.findings
             = IF job.admitted THEN FindingsOf(job.read.results) ELSE "other"
    BY <2>1 DEF TriageReceipt
  <2>6. job.admitted /\ FindingsOf(job.read.results) = "admitted"
    BY <2>1, <2>5
  <2>7. ASSUME Steady
        PROVE  DescribesOne([triage |-> job.triage, evidence |-> Projection("first")])
    <3>1. job.read = candidates["first"] /\ job.repeat = candidates["repeat"] /\ Agree
      BY <2>1, <2>6, <2>7 DEF Steady, ReadingStages
    <3> QED
      BY <2>1, <2>4, <2>5, <2>6, <3>1 DEF DescribesOne, Agree, Projection
  <2>8. Steady => Steady'
    BY <1>1, <2>2, <2>7 DEF Steady, ReadingStages, DescribesOne, Projection
  <2> QED
    BY <1>1, <2>1, <2>2, <2>8, AgreementGoesOn DEF ReadingStages
<1>3. CASE ReadEvidence
  <2>1. /\ job.stage = "evidence" /\ Agree
        /\ job' = [job EXCEPT !.stage = "decision", !.read = Projection("first")]
    BY <1>3 DEF ReadEvidence, Agree
  <2>2. job.op \in ReviewCommands /\ job.triage.findings = "admitted"
    BY <1>1, <2>1 DEF CommandInputs
  <2>3. /\ job'.stage = "decision" /\ job'.triage = job.triage /\ job'.op = job.op
        /\ job'.proposal = job.proposal /\ job'.read = Projection("first")
    BY <1>1, <2>1 DEF IsCommand, Idle
  <2>4. Projection("first")' = Projection("first")
    BY <1>1 DEF Projection
  <2>5. Steady => Steady' /\ DecisionDescribesOne'
    BY <2>1, <2>3, <2>4 DEF Steady, ReadingStages, DescribesOne, DecisionDescribesOne
  <2>6. ASSUME NEW n \in Nat, SteadyAfter(n)
        PROVE  SteadyAfter(n)' /\ (DecisionDescribesOne' \/ swaps >= n + 2)
    BY <1>1, <2>1, <2>3, <2>5, <2>6 DEF SteadyAfter
  <2>7. CommandAgrees'
    <3>1. job.op = "review" => /\ SteadyAfter(0)'
                               /\ DecisionDescribesOne' \/ AgreeAfter(2)'
      BY <1>1, <2>1, <2>2, <2>6 DEF CommandAgrees, AgreeAfter
    <3>2. job.op \in {"accept", "confirm"} =>
             /\ job.proposal \in proposals
             /\ DescribesOne(job.proposal) \/ SteadyAfter(2)'
      BY <1>1, <2>6 DEF CommandAgrees
    <3> QED
      BY <1>1, <2>2, <2>3, <3>1, <3>2 DEF CommandAgrees, ReviewCommands, DescribesOne
  <2> QED
    BY <1>1, <2>7, AgreementJobOnly
<1>4. CASE ReproduceProposal
  <2>1. /\ job.stage = "decision" /\ job.op = "accept" /\ Decision = job.proposal
        /\ job' = [job EXCEPT !.stage = "artifact", !.read = Nothing]
    BY <1>4 DEF ReproduceProposal, Doing
  <2>2. /\ job'.stage = "artifact" /\ job'.op = "accept" /\ job'.proposal = job.proposal
    BY <1>1, <2>1 DEF IsCommand, Idle
  <2>3. DecisionDescribesOne => DescribesOne(job.proposal)
    BY <2>1 DEF DecisionDescribesOne, Decision, DescribesOne
  <2>4. Steady => DecisionDescribesOne
    BY <2>1 DEF Steady, DecisionDescribesOne
  <2>5. DescribesOne(job.proposal) \/ swaps >= 4
    BY <1>1, <2>1, <2>3, <2>4 DEF CommandAgrees, SteadyAfter
  <2>6. Steady'
    BY <2>2 DEF Steady, ReadingStages
  <2>7. job.proposal \in proposals
    BY <1>1, <2>1 DEF CommandAgrees
  <2>8. CommandAgrees'
    BY <1>1, <2>2, <2>5, <2>6, <2>7 DEF CommandAgrees, SteadyAfter, DescribesOne
  <2> QED
    BY <1>1, <2>8, AgreementJobOnly
<1> QED
  BY <1>2, <1>3, <1>4

\* What is not read from the candidates is no concern of the agreement.
LEMMA AgreementElsewhere ==
    ASSUME AgreementInv, ReviewInv',
           \/ StartPreflight \/ ReadGates \/ ReadImages
           \/ \E pf \in preflights : StartTriage(pf)
           \/ \E t \in triages : StartReview(t) \/ StartConfirm(t)
           \/ \E p \in proposals : StartAccept(p)
           \/ \E pf \in preflights, t \in triages \cup {Nothing} : StartPackage(pf, t)
           \/ RecomputePackagedTriage \/ PackageInputs \/ WriteConfirmation \/ Stop
    PROVE  AgreementInv'
<1> USE DEF ReadingStages
<1>1. ReviewInv /\ ReviewTypeOK
  BY DEF AgreementInv, ReviewInv
<1>2. CASE StartPreflight \/ \E pf \in preflights : StartTriage(pf)
  <2>1. /\ JobOnly /\ job'.stage \in {"gates", "results"}
        /\ job'.op \in {"preflight", "triage"}
    BY <1>2 DEF StartPreflight, StartTriage, Starts, Idle, JobOnly
  <2> QED
    BY <2>1, AgreementStarts
<1>3. CASE ReadGates \/ ReadImages
  <2>1. JobOnly /\ IsCommand(job) /\ job.op = "preflight"
    BY <1>1, <1>3 DEF ReadGates, ReadImages, Doing, JobOnly, ReviewInv
  <2>2. PICK r : \/ job' = [job EXCEPT !.stage = "images", !.read = r]
                 \/ job' = [job EXCEPT !.stage = "catalog", !.read = r]
    BY <1>3, Zenon DEF ReadGates, ReadImages
  <2>3. job'.op = "preflight" /\ job'.stage \in {"images", "catalog"}
    BY <2>1, <2>2 DEF IsCommand, Idle
  <2> QED
    BY <2>1, <2>3, AgreementStarts
<1>4. CASE \E t \in triages : StartReview(t) \/ StartConfirm(t)
  <2>1. /\ JobOnly /\ job'.stage = "results" /\ job'.op \in {"review", "confirm"}
        /\ job'.op = "confirm" => acceptance # Nothing /\ job'.proposal = acceptance.proposal
    BY <1>4 DEF StartReview, StartConfirm, Starts, Idle, JobOnly, AcceptedReview
  <2>2. acceptance # Nothing => acceptance.proposal \in proposals
    BY <1>1 DEF ReviewTypeOK
  <2> QED
    BY <2>1, <2>2, AgreementStarts
<1>5. CASE \E p \in proposals : StartAccept(p)
  <2>1. /\ JobOnly /\ job'.stage = "results" /\ job'.op = "accept"
        /\ job'.proposal \in proposals
    BY <1>5 DEF StartAccept, Starts, Idle, JobOnly
  <2> QED
    BY <2>1, AgreementStarts
<1>6. CASE \E pf \in preflights, t \in triages \cup {Nothing} : StartPackage(pf, t)
  <2>1. /\ JobOnly /\ job'.stage \in {"inputs", "results"} /\ job'.op = "package"
    BY <1>6 DEF StartPackage, Starts, Idle, JobOnly
  <2> QED
    BY <2>1, AgreementStarts
<1>7. CASE RecomputePackagedTriage \/ PackageInputs
  <2>1. JobOnly /\ IsCommand(job) /\ job.op = "package"
    BY <1>1, <1>7 DEF RecomputePackagedTriage, Recomputed, PackageInputs, Doing, JobOnly,
                      ReviewInv
  <2>2. job' # Nothing =>
          job'.op = "package" /\ job'.stage \in {"inputs", "results", "rename"}
    BY <1>7, <2>1 DEF RecomputePackagedTriage, Recomputed, PackageInputs, Goes,
                      IsCommand, Idle
  <2> QED
    BY <2>1, <2>2, AgreementStarts
<1>8. CASE WriteConfirmation \/ Stop
  <2>1. JobOnly /\ job' = Nothing
    BY <1>8 DEF WriteConfirmation, Stop, JobOnly
  <2> QED
    BY <2>1, AgreementStarts
<1> QED
  BY <1>2, <1>3, <1>4, <1>5, <1>6, <1>7, <1>8

\* What the commands write agrees as far as what they have read.
LEMMA AgreementWrites ==
    ASSUME AgreementInv, ReviewInv',
           \/ WritePreflight \/ WriteTriage \/ WriteProposal \/ WriteArtifact
           \/ WriteAcceptedPolicy \/ RenamePackage \/ RemovePackage
           \/ \E p \in proposals : AcceptSource(p)
    PROVE  AgreementInv'
<1>1. /\ ReviewInv /\ TriagesAgree /\ DecisionsAgree
      /\ job # Nothing => /\ CommandAgrees /\ IsCommand(job) /\ CommandInputs /\ CommandReads
      /\ candidates["repeat"] # Nothing => candidates["repeat"] \in Candidates
  BY DEF AgreementInv, ReviewInv, ReviewTypeOK, Slots
<1>2. UNCHANGED <<candidates, swaps>>
  BY DEF WritePreflight, WriteTriage, WriteProposal, WriteArtifact, WriteAcceptedPolicy,
         RenamePackage, RemovePackage, AcceptSource
<1>3. \A n : AgreeAfter(n)' <=> AgreeAfter(n)
  BY <1>2 DEF AgreeAfter, Agree, Projection
<1>4. triages' = triages => TriagesAgree'
  BY <1>1, <1>2, <1>3 DEF TriagesAgree
<1>5. UNCHANGED <<proposals, acceptance>> => DecisionsAgree'
  BY <1>1, <1>2, <1>3 DEF DecisionsAgree, DescribesOne
<1>6. CASE WritePreflight \/ RemovePackage
  BY <1>4, <1>5, <1>6 DEF WritePreflight, RemovePackage, AgreementInv
<1>7. CASE WriteTriage
  <2> DEFINE new == TriageReceipt
  <2>1. /\ job # Nothing /\ job.op = "triage" /\ job.stage = "digest" /\ job' = Nothing
        /\ triages' = triages \cup {new} /\ UNCHANGED <<proposals, acceptance>>
    BY <1>7 DEF WriteTriage, Doing
  <2>2. /\ new.candidate = candidates["first"] /\ new.repeat = job.repeat
        /\ new.preflight = job.preflight
        /\ new.findings = "admitted" => job.admitted
    BY DEF TriageReceipt
  <2>3. /\ candidates["first"] \in Candidates
        /\ job.read.preflight = candidates["first"].preflight
        /\ job.admitted => /\ job.read.preflight = job.preflight
                           /\ job.repeat.preflight = job.preflight
                           /\ candidates["repeat"] \in Candidates
                           /\ Steady \/ swaps >= 1
    BY <1>1, <2>1 DEF CommandReads, CommandAgrees, TriageStages
  <2>4. job.admitted => AgreeAfter(0)
    BY <1>1, <2>1, <2>3, Counters DEF Steady, AgreeAfter
  <2> HIDE DEF new
  <2>5. new.findings = "admitted" =>
          /\ new.candidate.preflight = new.preflight /\ new.repeat.preflight = new.preflight
          /\ \A s \in Slots : candidates[s] \in Candidates
          /\ AgreeAfter(0)
    BY <2>2, <2>3, <2>4 DEF Slots
  <2>6. TriagesAgree'
    BY <1>1, <1>2, <1>3, <2>1, <2>5 DEF TriagesAgree
  <2> QED
    BY <1>5, <2>1, <2>6 DEF AgreementInv
<1>8. CASE WriteProposal
  <2> DEFINE new == Decision
  <2>1. /\ job # Nothing /\ job.op = "review" /\ job.stage = "decision" /\ job' = Nothing
        /\ proposals' = proposals \cup {new} /\ UNCHANGED <<triages, acceptance>>
    BY <1>8 DEF WriteProposal, Doing
  <2>2. job.triage.findings = "admitted"
    BY <1>1, <2>1 DEF CommandInputs, ReviewCommands
  <2>3. DecisionDescribesOne \/ AgreeAfter(2)
    BY <1>1, <2>1, <2>2 DEF CommandAgrees
  <2>4. DescribesOne(new) \/ AgreeAfter(2)
    BY <2>3 DEF Decision, DecisionDescribesOne, DescribesOne
  <2> HIDE DEF new
  <2>5. DecisionsAgree'
    BY <1>1, <1>2, <1>3, <2>1, <2>4 DEF DecisionsAgree, DescribesOne
  <2> QED
    BY <1>4, <2>1, <2>5 DEF AgreementInv
<1>9. CASE WriteArtifact
  <2>1. /\ job # Nothing /\ job.op = "accept" /\ job.stage = "artifact"
        /\ acceptance' = [kind |-> "boundary", proposal |-> job.proposal, policy |-> FALSE]
        /\ job' = [job EXCEPT !.stage = "policy"] /\ UNCHANGED <<triages, proposals>>
    BY <1>9 DEF WriteArtifact, Doing, Goes
  <2>2. DescribesOne(job.proposal) \/ swaps >= 4
    BY <1>1, <2>1 DEF CommandAgrees
  <2>3. acceptance'.proposal = job.proposal
    BY <2>1
  <2>4. job'.stage = "policy" /\ job'.op = "accept" /\ job'.proposal = job.proposal
    BY <1>1, <2>1 DEF IsCommand, Idle
  <2>5. DecisionsAgree'
    BY <1>1, <1>2, <1>3, <2>1, <2>2, <2>3 DEF DecisionsAgree, DescribesOne
  <2>6. Steady' /\ job.proposal \in proposals
    BY <1>1, <2>1, <2>4 DEF Steady, ReadingStages, CommandAgrees
  <2>7. CommandAgrees'
    BY <1>2, <2>1, <2>2, <2>4, <2>6 DEF CommandAgrees, SteadyAfter, DescribesOne
  <2> QED
    BY <1>4, <2>1, <2>5, <2>7 DEF AgreementInv
<1>10. CASE WriteAcceptedPolicy
  <2>1. /\ job # Nothing /\ job.op = "accept" /\ job.stage = "policy" /\ job' = Nothing
        /\ acceptance' = [acceptance EXCEPT !.policy = TRUE]
        /\ UNCHANGED <<triages, proposals>>
    BY <1>10 DEF WriteAcceptedPolicy, Doing
  <2>2. /\ acceptance \in Acceptances /\ acceptance.proposal = job.proposal
        /\ DescribesOne(job.proposal) \/ swaps >= 4
    BY <1>1, <2>1 DEF CommandInputs, CommandAgrees
  <2>3. acceptance'.proposal = job.proposal
    BY <2>1, <2>2 DEF Acceptances
  <2>4. DecisionsAgree'
    BY <1>1, <1>2, <1>3, <2>1, <2>2, <2>3 DEF DecisionsAgree, DescribesOne
  <2> QED
    BY <1>4, <2>1, <2>4 DEF AgreementInv
<1>11. CASE RenamePackage
  <2>1. /\ job # Nothing /\ job.op = "package"
        /\ job' = [job EXCEPT !.pass = 3,
                     !.stage = IF job.triage = Nothing THEN "inputs" ELSE "results"]
        /\ UNCHANGED <<triages, proposals, acceptance>>
    BY <1>11 DEF RenamePackage, Doing
  <2>2. job'.op = "package" /\ job'.stage \in {"inputs", "results"}
    BY <1>1, <2>1 DEF IsCommand, Idle
  <2>3. CommandAgrees'
    BY <2>2 DEF CommandAgrees
  <2> QED
    BY <1>4, <1>5, <2>1, <2>3 DEF AgreementInv
<1>12. CASE \E p \in proposals : AcceptSource(p)
  <2>1. /\ job' = job /\ job = Nothing /\ acceptance'.kind = "source"
        /\ UNCHANGED <<triages, proposals>>
    BY <1>12 DEF AcceptSource
  <2>2. DecisionsAgree'
    BY <1>1, <1>2, <1>3, <2>1 DEF DecisionsAgree, DescribesOne
  <2> QED
    BY <1>4, <2>1, <2>2 DEF AgreementInv
<1> QED
  BY <1>6, <1>7, <1>8, <1>9, <1>10, <1>11, <1>12


\* A directory is replaced by one with other results: what agreed does not, and
\* what was read before still describes the two that were there.
LEMMA AgreementSwap ==
    ASSUME AgreementInv, ReviewInv', NEW s \in Slots, NEW r \in Results, Swap(s, r)
    PROVE  AgreementInv'
<1>1. /\ ReviewInv /\ ReviewTypeOK /\ EvidenceBound /\ TriagesAgree /\ DecisionsAgree
      /\ job # Nothing => CommandAgrees /\ CommandInputs
      /\ swaps \in Nat
  BY Counters DEF AgreementInv, ReviewInv
<1>2. /\ candidates[s] \in Candidates /\ candidates[s].results # r
      /\ candidates' = [candidates EXCEPT ![s].results = r] /\ swaps' = swaps + 1
      /\ UNCHANGED <<triages, proposals, acceptance, job>>
  BY <1>1 DEF Swap, ReviewTypeOK
<1>3. /\ candidates \in [Slots -> Candidates \cup {Nothing}]
      /\ \A t \in Slots : candidates[t] \in Candidates => candidates'[t] \in Candidates
      /\ candidates'[s].results = r
      /\ \A t \in Slots \ {s} : candidates'[t] = candidates[t]
  BY <1>1, <1>2 DEF ReviewTypeOK, Candidates
<1> DEFINE Both == \A t \in Slots : candidates[t] \in Candidates
<1>4. Agree => ~Agree'
  BY <1>2, <1>3 DEF Agree, Projection, Slots
<1>5. \A n \in Nat : AgreeAfter(n) => AgreeAfter(n)' /\ swaps >= n /\ (Agree \/ swaps >= n + 1)
  BY <1>1, <1>2 DEF AgreeAfter
<1>6. TriagesAgree'
  BY <1>1, <1>2, <1>3, <1>5 DEF TriagesAgree
<1>7. DecisionsAgree'
  <2>1. \A p \in proposals : DescribesOne(p)' \/ AgreeAfter(2)'
    BY <1>1, <1>5 DEF DecisionsAgree, DescribesOne
  <2>2. acceptance # Nothing /\ acceptance.kind = "boundary" =>
          DescribesOne(acceptance.proposal) \/ swaps' >= 4
    BY <1>1, <1>2 DEF DecisionsAgree
  <2> QED
    BY <1>2, <2>1, <2>2 DEF DecisionsAgree, DescribesOne
<1>8. ASSUME NEW n \in Nat, job # Nothing, SteadyAfter(n), AgreeAfter(n)
      PROVE  SteadyAfter(n)'
  <2>1. CASE Steady
    <3>1. job.stage = "decision" => DecisionDescribesOne'
      BY <1>2, <2>1 DEF Steady, DecisionDescribesOne, DescribesOne
    <3>2. swaps >= n /\ (~Agree' \/ swaps >= n + 1)
      BY <1>4, <1>5, <1>8
    <3> QED
      BY <1>1, <1>2, <3>1, <3>2 DEF SteadyAfter
  <2>2. CASE swaps >= n + 1
    BY <1>1, <1>2, <2>2 DEF SteadyAfter
  <2> QED
    BY <1>1, <1>8, <2>1, <2>2 DEF SteadyAfter
<1>9. job # Nothing => CommandAgrees'
  <2> SUFFICES ASSUME job # Nothing PROVE CommandAgrees'
    OBVIOUS
  <2>1. job.stage \in {"repeat", "projections", "digest"} /\ job.admitted =>
          /\ job.read.preflight = job.preflight
          /\ job.stage # "repeat" => /\ candidates'["repeat"] \in Candidates
                                     /\ job.repeat.preflight = job.preflight
    BY <1>1, <1>3 DEF CommandAgrees, Slots
  <2>2. job.op = "triage" => job.stage # "decision" /\ swaps' >= 1
    BY <1>1, <1>2 DEF CommandAgrees
  <2>3. ASSUME job.op = "review", job.triage.findings = "admitted"
        PROVE  /\ SteadyAfter(0)'
               /\ job.stage = "decision" => DecisionDescribesOne' \/ AgreeAfter(2)'
    <3>1. AgreeAfter(0) /\ SteadyAfter(0)
      BY <1>1, <2>3 DEF CommandInputs, ReviewCommands, TriagesAgree, CommandAgrees
    <3>2. job.stage = "decision" => DecisionDescribesOne' \/ AgreeAfter(2)'
      BY <1>1, <1>2, <1>5, <2>3 DEF CommandAgrees, DecisionDescribesOne, DescribesOne
    <3> QED
      BY <1>8, <3>1, <3>2
  <2>4. ASSUME job.op \in {"accept", "confirm"}
        PROVE  /\ job.proposal \in proposals
               /\ DescribesOne(job.proposal) \/ SteadyAfter(2)'
    BY <1>1, <1>8, <2>4 DEF CommandAgrees, DecisionsAgree
  <2>5. job.op = "accept" /\ job.stage \in {"artifact", "policy"} =>
          DescribesOne(job.proposal) \/ swaps' >= 4
    BY <1>1, <1>2 DEF CommandAgrees
  <2> QED
    BY <1>2, <2>1, <2>2, <2>3, <2>4, <2>5 DEF CommandAgrees, DescribesOne
<1> QED
  BY <1>2, <1>6, <1>7, <1>9 DEF AgreementInv

\* Nothing is admitted before both candidates are there.
LEMMA AgreementMake ==
    ASSUME AgreementInv, ReviewInv', NEW s \in Slots, NEW pf, NEW r, MakeCandidate(s, pf, r)
    PROVE  AgreementInv'
<1>1. /\ candidates[s] = Nothing /\ job = Nothing
      /\ UNCHANGED <<triages, proposals, acceptance, job>>
  BY DEF MakeCandidate
<1>2. \A t \in triages : t.findings # "admitted"
  BY <1>1, NothingIsNoCandidate DEF AgreementInv, TriagesAgree
<1>3. proposals = {} /\ acceptance = Nothing
  BY <1>2 DEF AgreementInv, ReviewInv, ReviewTypeOK, EvidenceBound
<1> QED
  BY <1>1, <1>2, <1>3 DEF AgreementInv, TriagesAgree, DecisionsAgree

\* What is done to the directories, the files and the commands from outside.
LEMMA AgreementEnvironment ==
    ASSUME AgreementInv, ReviewInv', Environment
    PROVE  AgreementInv'
<1>1. CASE (\E t \in Trees : Edit(t)) \/ Tick
  <2>1. UNCHANGED <<swaps, candidates, triages, proposals, acceptance, job>>
    BY <1>1 DEF Edit, Tick
  <2>2. Agree' <=> Agree
    BY <2>1 DEF Agree, Projection
  <2>3. TriagesAgree' /\ DecisionsAgree'
    BY <2>1, <2>2 DEF AgreementInv, TriagesAgree, DecisionsAgree, AgreeAfter, DescribesOne
  <2>4. Steady' <=> Steady
    BY <2>1, <2>2 DEF Steady, Projection, DescribesOne
  <2>5. job # Nothing => CommandAgrees'
    BY <2>1, <2>2, <2>4 DEF AgreementInv, CommandAgrees, SteadyAfter, AgreeAfter,
                            DecisionDescribesOne, DescribesOne
  <2> QED
    BY <2>1, <2>3, <2>5 DEF AgreementInv
<1> QED
  BY <1>1, AgreementSwap, AgreementMake, AgreementElsewhere DEF Environment

\* Every step of the pipeline keeps the agreement.
LEMMA AgreementStep ==
    ASSUME AgreementInv, ReviewInv', ReviewNext
    PROVE  AgreementInv'
BY AgreementTriage, AgreementReview, AgreementElsewhere, AgreementWrites, AgreementEnvironment
DEF ReviewNext, Preflighting, Triaging, Reviewing, Packaging

\* So does a step that leaves the pipeline and its commands alone.
LEMMA AgreementRests ==
    ASSUME AgreementInv, ReviewInv', UNCHANGED <<reviewVars, job>>
    PROVE  AgreementInv'
<1>1. /\ JobOnly /\ job' = job /\ UNCHANGED <<candidates, swaps, proposals>>
      /\ job # Nothing => CommandAgrees
  BY DEF AgreementInv, JobOnly, reviewVars
<1>2. (Agree' <=> Agree) /\ (Steady' <=> Steady)
  BY <1>1 DEF Steady, Agree, Projection, DescribesOne
<1>3. job # Nothing => CommandAgrees'
  BY <1>1, <1>2 DEF CommandAgrees, SteadyAfter, AgreeAfter, DecisionDescribesOne, DescribesOne
<1> QED
  BY <1>1, <1>3, AgreementJobOnly

\* There is nothing to agree on at the start.
LEMMA AgreementInit == ReviewInit /\ ReviewInv => AgreementInv
BY DEF ReviewInit, AgreementInv, TriagesAgree, DecisionsAgree

\* Three replacements do not deceive an acceptance, nor a confirmation.
LEMMA AgreementDescribes == AgreementInv => AcceptedDescribesOne
<1> SUFFICES ASSUME AgreementInv, swaps <= 3
             PROVE  /\ acceptance # Nothing /\ acceptance.kind = "boundary"
                          => DescribesOne(acceptance.proposal)
                    /\ Confirms => DecisionDescribesOne
  BY DEF AcceptedDescribesOne, DecisionDescribesOne
<1>1. swaps \in Nat /\ DecisionsAgree
  BY Counters DEF AgreementInv
<1>2. acceptance # Nothing /\ acceptance.kind = "boundary" => DescribesOne(acceptance.proposal)
  BY <1>1 DEF DecisionsAgree
<1>3. ASSUME Confirms PROVE DecisionDescribesOne
  <2>1. /\ job # Nothing /\ job.op = "confirm" /\ job.stage = "decision"
        /\ job.read = job.proposal.evidence /\ job.triage = job.proposal.triage
    BY <1>3 DEF Confirms, Doing
  <2>2. DescribesOne(job.proposal) \/ SteadyAfter(2)
    BY <2>1 DEF AgreementInv, CommandAgrees
  <2>3. DescribesOne(job.proposal) => DecisionDescribesOne
    BY <2>1 DEF DescribesOne, DecisionDescribesOne
  <2>4. Steady => DecisionDescribesOne
    BY <2>1 DEF Steady, DecisionDescribesOne
  <2> QED
    BY <1>1, <2>1, <2>2, <2>3, <2>4 DEF SteadyAfter
<1> QED
  BY <1>2, <1>3

-----------------------------------------------------------------------------
(* The policy of another tree: PolicyInv, on top of ReviewInv.             *)

\* A step that changes the command alone.
LEMMA PolicyJobOnly ==
    ASSUME PolicyInv, ReviewInv', JobOnly, job' # Nothing => PolicyOfCommand'
    PROVE  PolicyInv'
<1>1. UNCHANGED <<tree, edits, triages, proposals, acceptance>>
  BY DEF JobOnly, reviewVars
<1>2. PoliciesOnDisk'
  BY <1>1 DEF PolicyInv, PoliciesOnDisk, PolicyOfProposal, PolicyAccepted, ReviewedPolicy
<1> QED
  BY <1>2 DEF PolicyInv

\* A command that reads no policy, or a triage that has verified nothing yet.
LEMMA PolicyStarts ==
    ASSUME PolicyInv, ReviewInv', JobOnly,
           job' # Nothing =>
              /\ job'.op \notin {"review", "accept"}
              /\ job'.op = "triage" => job'.stage \notin {"repeat", "projections", "digest"}
    PROVE  PolicyInv'
<1>1. job' # Nothing => PolicyOfCommand'
  BY DEF PolicyOfCommand
<1> QED
  BY <1>1, PolicyJobOnly

\* A command that goes on after the candidate was verified.
LEMMA PolicyGoesOn ==
    ASSUME PolicyInv, ReviewInv', JobOnly, job # Nothing,
           Same(job', job, {"stage", "read", "repeat", "admitted"}),
           job'.stage \notin {"results", "first", "artifact", "policy"},
           Verified' => Verified,
           job'.stage \in {"repeat", "projections", "digest"} /\ job'.admitted =>
              job.stage \in {"repeat", "projections", "digest"} /\ job.admitted
    PROVE  PolicyInv'
<1>1. UNCHANGED <<tree, edits, candidates>>
  BY DEF JobOnly, reviewVars
<1>2. /\ job'.op = job.op /\ job'.triage = job.triage /\ job'.proposal = job.proposal
      /\ job'.tree = job.tree
  BY DEF Same
<1>3. PolicyOfCommand
  BY DEF PolicyInv
<1>4. PolicyOfCommand'
  BY <1>1, <1>2, <1>3 DEF PolicyOfCommand
<1> QED
  BY <1>4, PolicyJobOnly

\* A policy is read as it is now; a review and a proposal name a tree that has
\* been edited since, or this one.
LEMMA PolicyBegins ==
    ASSUME PolicyInv, ReviewInv',
           \/ \E t \in triages : StartReview(t)
           \/ \E p \in proposals : StartAccept(p)
    PROVE  PolicyInv'
<1>1. PoliciesOnDisk /\ edits \in Nat
  BY Counters DEF PolicyInv
<1>2. CASE \E t \in triages : StartReview(t)
  <2>1. PICK t \in triages : StartReview(t)
    BY <1>2
  <2>2. /\ JobOnly
        /\ job'.stage = "results" /\ job'.triage = t /\ job'.tree = Files[tree].policy
        /\ job'.op = "review"
    BY <2>1 DEF StartReview, Starts, Idle, JobOnly, DispositionPolicy
  <2>3. UNCHANGED <<tree, edits>>
    BY <2>2 DEF JobOnly, reviewVars
  <2>4. t.findings = "admitted" => tree = t.candidate.tree \/ edits >= 1
    BY <1>1 DEF PoliciesOnDisk
  <2>5. PolicyOfCommand'
    BY <2>2, <2>3, <2>4 DEF PolicyOfCommand, Verified
  <2> QED
    BY <2>2, <2>5, PolicyJobOnly
<1>3. CASE \E p \in proposals : StartAccept(p)
  <2>1. PICK p \in proposals : StartAccept(p)
    BY <1>3
  <2>2. /\ JobOnly /\ job'.op = "accept" /\ job'.stage = "results"
        /\ job'.triage = p.triage /\ job'.proposal = p /\ job'.tree = Files[tree].policy
    BY <2>1 DEF StartAccept, Starts, Idle, JobOnly, DispositionPolicy
  <2>3. UNCHANGED <<tree, edits>>
    BY <2>2 DEF JobOnly, reviewVars
  <2>4. p.policy = Files[p.triage.candidate.tree].policy \/ edits >= 2
    BY <1>1 DEF PoliciesOnDisk, PolicyOfProposal, ReviewedPolicy
  <2>5. PolicyOfCommand'
    BY <2>2, <2>3, <2>4 DEF PolicyOfCommand, Verified
  <2> QED
    BY <2>2, <2>5, PolicyJobOnly
<1> QED
  BY <1>2, <1>3

\* A candidate that verifies is of the tree there is.
LEMMA PolicyVerifies ==
    ASSUME PolicyInv, ReviewInv', ReadResults \/ VerifyFirst
    PROVE  PolicyInv'
<1>1. /\ ReviewInv /\ PolicyOfCommand /\ PoliciesOnDisk /\ IsCommand(job) /\ CommandInputs
      /\ job # Nothing /\ JobOnly /\ UNCHANGED <<tree, edits, candidates>>
  BY DEF PolicyInv, ReviewInv, ReadResults, VerifyFirst, JobOnly, reviewVars
<1>2. CASE ReadResults
  <2>1. /\ job.stage = "results"
        /\ job' = [job EXCEPT !.stage = "first", !.read = candidates["first"]]
    BY <1>2 DEF ReadResults
  <2>2. /\ job'.stage = "first" /\ job'.op = job.op /\ job'.triage = job.triage
        /\ job'.proposal = job.proposal /\ job'.tree = job.tree
    BY <1>1, <2>1 DEF IsCommand, Idle
  <2>3. PolicyOfCommand'
    BY <1>1, <2>1, <2>2 DEF PolicyOfCommand, Verified
  <2> QED
    BY <1>1, <2>3, PolicyJobOnly
<1>3. CASE VerifyFirst
  <2> DEFINE a == /\ CandidateVerifies(candidates["first"])
                  /\ job.preflight.ready
                  /\ CatalogCurrent(job.preflight)
                  /\ job.read.preflight = job.preflight
             of == job.triage.candidate.tree
             given == job.proposal
  <2>1. /\ job.stage = "first"
        /\ job' = [job EXCEPT !.stage = "repeat", !.admitted = a]
    BY <1>3 DEF VerifyFirst
  <2>2. a => candidates["first"].tree = tree
    BY DEF CandidateVerifies
  <2> HIDE DEF a
  <2>3. /\ job'.stage = "repeat" /\ job'.op = job.op /\ job'.triage = job.triage
        /\ job'.proposal = job.proposal /\ job'.tree = job.tree /\ job'.admitted = a
    BY <1>1, <2>1 DEF IsCommand, Idle
  <2>4. Verified' => tree = of
    BY <1>1, <2>2, <2>3 DEF Verified
  <2>5. job.op = "accept" => PolicyOfProposal(given) /\ given.triage = job.triage
    BY <1>1 DEF PoliciesOnDisk, CommandInputs, PolicyOfCommand
  <2>6. job.op = "review" /\ job.triage.findings = "admitted" /\ tree = of =>
          job.tree = Files[of].policy \/ edits >= 2
    BY <1>1, <2>1 DEF PolicyOfCommand
  <2>7. job.op = "accept" /\ tree = of =>
          /\ Files[of].policy \in {job.tree, given.policy} \/ edits >= 3
          /\ given.digest = Files[of].policy \/ edits >= 2
    BY <1>1, <2>1, <2>5 DEF PolicyOfCommand, PolicyOfProposal, ReviewedPolicy
  <2>8. job.op = "triage" /\ a => tree = candidates["first"].tree
    BY <2>2
  <2> HIDE DEF of, given
  <2>9. PolicyOfCommand'
    BY <1>1, <2>3, <2>4, <2>5, <2>6, <2>7, <2>8 DEF PolicyOfCommand, of, given
  <2> QED
    BY <1>1, <2>9, PolicyJobOnly
<1> QED
  BY <1>2, <1>3

\* After that the command knows what the policy of the candidates is.
LEMMA PolicyReads ==
    ASSUME PolicyInv, ReviewInv',
           VerifyRepeat \/ CompareProjections \/ RecomputeTriage \/ ReadEvidence
    PROVE  PolicyInv'
<1>1. /\ ReviewInv /\ IsCommand(job) /\ job # Nothing /\ JobOnly
      /\ UNCHANGED <<tree, edits, candidates>>
  BY DEF PolicyInv, ReviewInv, VerifyRepeat, CompareProjections, RecomputeTriage, Recomputed,
         ReadEvidence, JobOnly, reviewVars
<1>2. ASSUME job.stage \in {"repeat", "projections"}, job'.stage \in {"projections", "digest"},
             Same(job', job, {"stage", "read", "repeat", "admitted"}),
             job'.admitted => job.admitted
      PROVE  PolicyInv'
  <2>1. job'.triage = job.triage
    BY <1>2 DEF Same
  <2>2. Verified' => Verified
    BY <1>1, <1>2, <2>1 DEF Verified
  <2> QED
    BY <1>1, <1>2, <2>2, PolicyGoesOn
<1>3. CASE VerifyRepeat
  <2> DEFINE second == candidates["repeat"]
             a == /\ job.admitted
                  /\ CandidateVerifies(second)
                  /\ second.tree = job.read.tree
                  /\ second.preflight = job.read.preflight
  <2>1. /\ job.stage = "repeat" /\ (a => job.admitted)
        /\ job' = [job EXCEPT !.stage = "projections", !.repeat = second, !.admitted = a]
    BY <1>3 DEF VerifyRepeat
  <2> HIDE DEF a, second
  <2>2. /\ job'.stage = "projections" /\ job'.admitted = a
        /\ Same(job', job, {"stage", "read", "repeat", "admitted"})
    BY <1>1, <2>1 DEF IsCommand, Idle, Same
  <2> QED
    BY <1>2, <2>1, <2>2
<1>4. CASE CompareProjections
  <2> DEFINE a == job.admitted /\ Projection("first") = Projection("repeat")
  <2>1. /\ job.stage = "projections" /\ (a => job.admitted)
        /\ job' = [job EXCEPT !.stage = "digest", !.admitted = a]
    BY <1>4 DEF CompareProjections
  <2> HIDE DEF a
  <2>2. /\ job'.stage = "digest" /\ job'.admitted = a
        /\ Same(job', job, {"stage", "read", "repeat", "admitted"})
    BY <1>1, <2>1 DEF IsCommand, Idle, Same
  <2> QED
    BY <1>2, <2>1, <2>2
<1>5. CASE RecomputeTriage
  <2>1. /\ job.stage = "digest" /\ job.triage = TriageReceipt
        /\ job.triage.findings = "admitted"
        /\ job' = [job EXCEPT !.stage = "evidence", !.read = Nothing, !.repeat = Nothing]
    BY <1>5 DEF RecomputeTriage, Recomputed
  <2>2. job.triage.candidate = candidates["first"] /\ job.admitted
    BY <2>1 DEF TriageReceipt
  <2>3. Verified
    BY <2>1, <2>2 DEF Verified
  <2>4. /\ job'.stage = "evidence"
        /\ Same(job', job, {"stage", "read", "repeat", "admitted"})
    BY <1>1, <2>1 DEF IsCommand, Idle, Same
  <2> QED
    BY <1>1, <2>3, <2>4, PolicyGoesOn
<1>6. CASE ReadEvidence
  <2>1. /\ job.stage = "evidence"
        /\ job' = [job EXCEPT !.stage = "decision", !.read = Projection("first")]
    BY <1>6 DEF ReadEvidence
  <2>2. /\ job'.stage = "decision"
        /\ Same(job', job, {"stage", "read", "repeat", "admitted"})
    BY <1>1, <2>1 DEF IsCommand, Idle, Same
  <2>3. Verified
    BY <2>1 DEF Verified
  <2> QED
    BY <1>1, <2>2, <2>3, PolicyGoesOn
<1> QED
  BY <1>3, <1>4, <1>5, <1>6

\* The decision is reproduced with the digest of the policy there is.
LEMMA PolicyReproduced ==
    ASSUME PolicyInv, ReviewInv', ReproduceProposal
    PROVE  PolicyInv'
<1> DEFINE of == job.triage.candidate.tree
           given == job.proposal
<1>1. /\ ReviewInv /\ PolicyOfCommand /\ IsCommand(job) /\ job # Nothing /\ JobOnly
      /\ UNCHANGED <<tree, edits>> /\ edits \in Nat
  BY Counters DEF PolicyInv, ReviewInv, ReproduceProposal, Doing, JobOnly, reviewVars
<1>2. /\ job.op = "accept" /\ job.stage = "decision" /\ Decision = given
      /\ job' = [job EXCEPT !.stage = "artifact", !.read = Nothing]
  BY DEF ReproduceProposal, Doing
<1>3. given.policy = job.tree /\ given.digest = Files[tree].policy /\ given.triage = job.triage
  BY <1>2 DEF Decision, DispositionPolicy
<1>4. /\ Files[of].policy \in {job.tree, given.policy} \/ edits >= 3
      /\ given.digest = Files[of].policy \/ (edits >= 2 /\ tree = of) \/ edits >= 3
  BY <1>1, <1>2 DEF PolicyOfCommand, Verified
<1>5. PolicyAccepted(given)
  BY <1>3, <1>4 DEF PolicyAccepted, ReviewedPolicy
<1>6. /\ job'.op = "accept" /\ job'.stage = "artifact"
      /\ job'.proposal = given /\ job'.triage = job.triage
  BY <1>1, <1>2 DEF IsCommand, Idle
<1> HIDE DEF of, given
<1>7. PolicyOfCommand'
  BY <1>1, <1>3, <1>5, <1>6 DEF PolicyOfCommand, Verified, PolicyAccepted, ReviewedPolicy
<1> QED
  BY <1>1, <1>7, PolicyJobOnly

\* What is written down about the policy is what the command knows.
LEMMA PolicyWrites ==
    ASSUME PolicyInv, ReviewInv',
           WriteTriage \/ WriteProposal \/ WriteArtifact \/ WriteAcceptedPolicy
    PROVE  PolicyInv'
<1>1. /\ ReviewInv /\ PoliciesOnDisk /\ edits \in Nat /\ UNCHANGED <<tree, edits, candidates>>
      /\ job # Nothing /\ PolicyOfCommand /\ IsCommand(job) /\ CommandInputs
  BY Counters DEF PolicyInv, ReviewInv, WriteTriage, WriteProposal, WriteArtifact,
                  WriteAcceptedPolicy, Doing
<1>2. /\ \A p : PolicyOfProposal(p)' <=> PolicyOfProposal(p)
      /\ \A p : PolicyAccepted(p)' <=> PolicyAccepted(p)
  BY <1>1 DEF PolicyOfProposal, PolicyAccepted, ReviewedPolicy
<1>3. CASE WriteTriage
  <2> DEFINE new == TriageReceipt
  <2>1. /\ job.op = "triage" /\ job.stage = "digest" /\ job' = Nothing
        /\ triages' = triages \cup {new} /\ UNCHANGED <<proposals, acceptance>>
    BY <1>3 DEF WriteTriage, Doing
  <2>2. new.candidate = candidates["first"] /\ (new.findings = "admitted" => job.admitted)
    BY DEF TriageReceipt
  <2>3. new.findings = "admitted" => tree = new.candidate.tree \/ edits >= 1
    BY <1>1, <2>1, <2>2 DEF PolicyOfCommand
  <2> HIDE DEF new
  <2>4. PoliciesOnDisk'
    BY <1>1, <1>2, <2>1, <2>3 DEF PoliciesOnDisk
  <2> QED
    BY <2>1, <2>4 DEF PolicyInv
<1>4. CASE WriteProposal
  <2> DEFINE new == Decision
             of == job.triage.candidate.tree
  <2>1. /\ job.op = "review" /\ job.stage = "decision" /\ job' = Nothing
        /\ proposals' = proposals \cup {new} /\ UNCHANGED <<triages, acceptance>>
    BY <1>4 DEF WriteProposal, Doing
  <2>2. job.triage \in triages /\ job.triage.findings = "admitted"
    BY <1>1, <2>1 DEF CommandInputs, ReviewCommands
  <2>3. job.tree = Files[of].policy \/ edits >= 2
    BY <1>1, <2>1, <2>2 DEF PolicyOfCommand, Verified
  <2>4. tree = of \/ edits >= 1
    BY <1>1, <2>2 DEF PoliciesOnDisk
  <2>5. PolicyOfProposal(new)
    BY <2>3, <2>4 DEF PolicyOfProposal, ReviewedPolicy, Decision, DispositionPolicy
  <2> HIDE DEF new
  <2>6. PoliciesOnDisk'
    BY <1>1, <1>2, <2>1, <2>5 DEF PoliciesOnDisk
  <2> QED
    BY <2>1, <2>6 DEF PolicyInv
<1>5. CASE WriteArtifact
  <2>1. /\ job.op = "accept" /\ job.stage = "artifact" /\ job' = [job EXCEPT !.stage = "policy"]
        /\ acceptance' = [kind |-> "boundary", proposal |-> job.proposal, policy |-> FALSE]
        /\ UNCHANGED <<triages, proposals>>
    BY <1>5 DEF WriteArtifact, Doing, Goes
  <2>2. /\ job'.op = "accept" /\ job'.stage = "policy"
        /\ job'.proposal = job.proposal /\ job'.triage = job.triage
    BY <1>1, <2>1 DEF IsCommand, Idle
  <2>3. PolicyAccepted(job.proposal) /\ job.triage = job.proposal.triage
    BY <1>1, <2>1 DEF PolicyOfCommand
  <2>4. acceptance'.proposal = job.proposal
    BY <2>1
  <2>5. PoliciesOnDisk'
    BY <1>1, <1>2, <2>1, <2>3, <2>4 DEF PoliciesOnDisk
  <2>6. PolicyOfCommand'
    BY <1>1, <1>2, <2>2, <2>3 DEF PolicyOfCommand, Verified
  <2> QED
    BY <2>5, <2>6 DEF PolicyInv
<1>6. CASE WriteAcceptedPolicy
  <2>1. /\ job.op = "accept" /\ job.stage = "policy" /\ job' = Nothing
        /\ acceptance' = [acceptance EXCEPT !.policy = TRUE]
        /\ UNCHANGED <<triages, proposals>>
    BY <1>6 DEF WriteAcceptedPolicy, Doing
  <2>2. /\ acceptance \in Acceptances /\ acceptance.proposal = job.proposal
        /\ PolicyAccepted(job.proposal)
    BY <1>1, <2>1 DEF CommandInputs, PolicyOfCommand
  <2>3. acceptance'.proposal = job.proposal
    BY <2>1, <2>2 DEF Acceptances
  <2>4. PoliciesOnDisk'
    BY <1>1, <1>2, <2>1, <2>2, <2>3 DEF PoliciesOnDisk
  <2> QED
    BY <2>1, <2>4 DEF PolicyInv
<1> QED
  BY <1>3, <1>4, <1>5, <1>6

\* What reads no policy.
LEMMA PolicyElsewhere ==
    ASSUME PolicyInv, ReviewInv',
           \/ StartPreflight \/ ReadGates \/ ReadImages \/ WritePreflight
           \/ \E pf \in preflights : StartTriage(pf)
           \/ \E t \in triages : StartConfirm(t)
           \/ WriteConfirmation \/ \E p \in proposals : AcceptSource(p)
           \/ Packaging \/ Stop
    PROVE  PolicyInv'
<1>1. ReviewInv /\ PoliciesOnDisk
  BY DEF PolicyInv
<1>2. CASE StartPreflight \/ \E pf \in preflights : StartTriage(pf)
  <2>1. /\ JobOnly /\ job'.stage \in {"gates", "results"}
        /\ job'.op \in {"preflight", "triage"}
    BY <1>2 DEF StartPreflight, StartTriage, Starts, Idle, JobOnly
  <2> QED
    BY <2>1, PolicyStarts
<1>3. CASE ReadGates \/ ReadImages
  <2>1. JobOnly /\ IsCommand(job) /\ job.op = "preflight"
    BY <1>1, <1>3 DEF ReadGates, ReadImages, Doing, JobOnly, ReviewInv
  <2>2. PICK r : \/ job' = [job EXCEPT !.stage = "images", !.read = r]
                 \/ job' = [job EXCEPT !.stage = "catalog", !.read = r]
    BY <1>3, Zenon DEF ReadGates, ReadImages
  <2>3. job'.op = "preflight"
    BY <2>1, <2>2 DEF IsCommand, Idle
  <2> QED
    BY <2>1, <2>3, PolicyStarts
<1>4. CASE \E t \in triages : StartConfirm(t)
  <2>1. JobOnly /\ job'.op = "confirm"
    BY <1>4 DEF StartConfirm, Starts, Idle, JobOnly
  <2> QED
    BY <2>1, PolicyStarts
<1>5. CASE WriteConfirmation \/ Stop
  <2>1. JobOnly /\ job' = Nothing
    BY <1>5 DEF WriteConfirmation, Stop, JobOnly
  <2> QED
    BY <2>1, PolicyStarts
<1>6. CASE \E pf \in preflights, t \in triages \cup {Nothing} : StartPackage(pf, t)
  <2>1. JobOnly /\ job'.op = "package"
    BY <1>6 DEF StartPackage, Starts, Idle, JobOnly
  <2> QED
    BY <2>1, PolicyStarts
<1>7. CASE RecomputePackagedTriage \/ PackageInputs
  <2>1. JobOnly /\ IsCommand(job) /\ job.op = "package"
    BY <1>1, <1>7 DEF RecomputePackagedTriage, Recomputed, PackageInputs, Doing, JobOnly,
                      ReviewInv
  <2>2. job' # Nothing => job'.op = "package"
    BY <1>7, <2>1 DEF RecomputePackagedTriage, Recomputed, PackageInputs, Goes,
                      IsCommand, Idle
  <2> QED
    BY <2>1, <2>2, PolicyStarts
<1>8. CASE WritePreflight \/ RenamePackage \/ RemovePackage
  <2>1. UNCHANGED <<tree, edits, triages, proposals, acceptance>>
    BY <1>8 DEF WritePreflight, RenamePackage, RemovePackage
  <2>2. PoliciesOnDisk'
    BY <1>1, <2>1 DEF PoliciesOnDisk, PolicyOfProposal, PolicyAccepted, ReviewedPolicy
  <2>3. WritePreflight \/ RemovePackage => job' = Nothing
    BY DEF WritePreflight, RemovePackage
  <2>4. RenamePackage => job'.op = "package"
    BY <1>1 DEF RenamePackage, Doing, ReviewInv, IsCommand, Idle
  <2>5. job' # Nothing => PolicyOfCommand'
    BY <1>8, <2>3, <2>4 DEF PolicyOfCommand
  <2> QED
    BY <2>2, <2>5 DEF PolicyInv
<1>9. CASE \E p \in proposals : AcceptSource(p)
  <2>1. /\ job' = job /\ job = Nothing /\ acceptance'.kind = "source"
        /\ UNCHANGED <<tree, edits, triages, proposals>>
    BY <1>9 DEF AcceptSource
  <2>2. PoliciesOnDisk'
    BY <1>1, <2>1 DEF PoliciesOnDisk, PolicyOfProposal, ReviewedPolicy
  <2> QED
    BY <2>1, <2>2 DEF PolicyInv
<1> QED
  BY <1>2, <1>3, <1>4, <1>5, <1>6, <1>7, <1>8, <1>9 DEF Packaging

\* Another edit takes away what a command knew, and is counted; another
\* candidate in a slot is of the same tree.
LEMMA PolicyEnvironment ==
    ASSUME PolicyInv, ReviewInv', Environment
    PROVE  PolicyInv'
<1>1. /\ ReviewInv /\ PoliciesOnDisk /\ edits \in Nat
      /\ job # Nothing => PolicyOfCommand /\ CommandReads
  BY Counters DEF PolicyInv, ReviewInv
<1>2. CASE \E t \in Trees : Edit(t)
  <2>1. /\ edits' = edits + 1 /\ tree' # tree
        /\ UNCHANGED <<candidates, triages, proposals, acceptance, job>>
    BY <1>2 DEF Edit
  <2>2. \A p : PolicyOfProposal(p) => PolicyOfProposal(p)'
    BY <1>1, <2>1 DEF PolicyOfProposal, ReviewedPolicy
  <2>3. \A p : PolicyAccepted(p) => PolicyAccepted(p)'
    BY <1>1, <2>1 DEF PolicyAccepted, ReviewedPolicy
  <2>4. PoliciesOnDisk'
    BY <1>1, <2>1, <2>2, <2>3 DEF PoliciesOnDisk
  <2>5. job # Nothing => PolicyOfCommand'
    BY <1>1, <2>1, <2>3 DEF PolicyOfCommand, Verified
  <2> QED
    BY <2>1, <2>4, <2>5 DEF PolicyInv
<1>3. ASSUME UNCHANGED <<tree, edits, triages, proposals, acceptance, job>>,
             job # Nothing /\ job.stage \in {"repeat", "projections", "digest"} =>
                candidates'["first"].tree = candidates["first"].tree
      PROVE  PolicyInv'
  <2>1. PoliciesOnDisk'
    BY <1>1, <1>3 DEF PoliciesOnDisk, PolicyOfProposal, PolicyAccepted, ReviewedPolicy
  <2>2. job # Nothing => PolicyOfCommand'
    BY <1>1, <1>3 DEF PolicyOfCommand, Verified, PolicyAccepted, ReviewedPolicy
  <2> QED
    BY <1>3, <2>1, <2>2 DEF PolicyInv
<1>4. CASE \E s \in Slots, pf \in preflights, r \in Results : MakeCandidate(s, pf, r)
  BY <1>3, <1>4 DEF MakeCandidate
<1>5. CASE \E s \in Slots, r \in Results : Swap(s, r)
  <2>1. PICK s \in Slots, r \in Results : Swap(s, r)
    BY <1>5
  <2>2. /\ candidates' = [candidates EXCEPT ![s].results = r]
        /\ UNCHANGED <<tree, edits, triages, proposals, acceptance, job>>
    BY <2>1 DEF Swap
  <2>3. candidates \in [Slots -> Candidates \cup {Nothing}]
    BY <1>1 DEF ReviewInv, ReviewTypeOK
  <2>4. job # Nothing /\ job.stage \in {"repeat", "projections", "digest"} =>
          candidates["first"] \in Candidates
    BY <1>1 DEF CommandReads, TriageStages
  <2>5. candidates["first"] \in Candidates =>
          candidates'["first"].tree = candidates["first"].tree
    BY <2>2, <2>3 DEF Candidates, Slots
  <2> QED
    BY <1>3, <2>2, <2>4, <2>5
<1>6. CASE Tick
  BY <1>3, <1>6 DEF Tick
<1> QED
  BY <1>2, <1>4, <1>5, <1>6, PolicyElsewhere DEF Environment

\* Every step of the pipeline keeps what is known of the policy.
LEMMA PolicyStep ==
    ASSUME PolicyInv, ReviewInv', ReviewNext
    PROVE  PolicyInv'
BY PolicyBegins, PolicyVerifies, PolicyReads, PolicyReproduced, PolicyWrites,
   PolicyElsewhere, PolicyEnvironment
DEF ReviewNext, Preflighting, Triaging, Reviewing

\* So does a step that leaves the pipeline and its commands alone.
LEMMA PolicyRests ==
    ASSUME PolicyInv, ReviewInv', UNCHANGED <<reviewVars, job>>
    PROVE  PolicyInv'
<1>1. /\ JobOnly /\ job' = job /\ UNCHANGED <<tree, edits, candidates>>
      /\ job # Nothing => PolicyOfCommand
  BY DEF PolicyInv, JobOnly, reviewVars
<1>2. job # Nothing => PolicyOfCommand'
  BY <1>1 DEF PolicyOfCommand, Verified, PolicyAccepted, ReviewedPolicy
<1> QED
  BY <1>1, <1>2, PolicyJobOnly

\* Nothing has been read at the start.
LEMMA PolicyInit == ReviewInit /\ ReviewInv => PolicyInv
BY DEF ReviewInit, PolicyInv, PoliciesOnDisk

\* Two edits do not deceive an acceptance.
LEMMA PolicyBinds == PolicyInv => PolicyFromOneTree
<1> SUFFICES ASSUME PolicyInv, edits <= 2, acceptance # Nothing, acceptance.kind = "boundary"
             PROVE  LET d == acceptance.proposal
                    IN  {d.policy, d.digest} = {Files[d.triage.candidate.tree].policy}
  BY DEF PolicyFromOneTree
<1>1. edits \in Nat /\ PolicyAccepted(acceptance.proposal)
  BY Counters DEF PolicyInv, PoliciesOnDisk
<1> QED
  BY <1>1 DEF PolicyAccepted, ReviewedPolicy
-----------------------------------------------------------------------------
(* The theorems.                                                           *)

\* The invariant holds at the start.
LEMMA ReviewStarts == ReviewInit => ReviewInv
BY GradeReviewConstants
DEF ReviewInit, ReviewInv, ReviewTypeOK, EvidenceBound, Slots

\* Every step of the pipeline preserves it.
LEMMA ReviewStep == ReviewInv /\ ReviewNext => ReviewInv'
<1> SUFFICES ASSUME ReviewInv, ReviewNext PROVE ReviewInv'
  OBVIOUS
<1>1. Triaging => ReviewInv'
  BY TriageReadStep, TriageWriteStep DEF Triaging
<1>2. Reviewing => ReviewInv'
  BY ReviewStartStep, ReviewReadStep, ReviewWriteStep DEF Reviewing
<1>3. Packaging => ReviewInv'
  BY PackageReadStep, PackageWriteStep DEF Packaging
<1> QED
  BY PreflightStep, <1>1, <1>2, <1>3, EnvironmentStep DEF ReviewNext

\* A step that leaves the pipeline and its commands alone preserves it.
LEMMA ReviewStutters == ReviewInv /\ UNCHANGED <<reviewVars, job>> => ReviewInv'
<1> SUFFICES ASSUME ReviewInv, UNCHANGED <<reviewVars, job>> PROVE ReviewInv'
  OBVIOUS
<1>1. JobOnly
  BY DEF JobOnly
<1>2. job # Nothing => /\ IsCommand(job') /\ CommandInputs' /\ CommandReads'
                       /\ job'.pass = 3 => package = PackageOf(job')
  BY DEF ReviewInv, ReviewTypeOK, CommandInputs, CommandReads, reviewVars, PackageOf,
         IsCommand, MadeFrom
<1> QED
  BY <1>1, <1>2, CommandStep

\* What an acceptance or a package binds is of one tree.
LEMMA ReviewInvBinds == ReviewInv => ReviewTypeOK /\ EvidenceFromOneTree
BY DEF ReviewInv, ReviewTypeOK, EvidenceBound, EvidenceFromOneTree

\* Whatever is edited and replaced while the commands of the pipeline run, an
\* acceptance and a package bind evidence of one tree; it takes more than three
\* replacements to accept two candidates as one, and more than two edits to
\* accept the policy of another tree.
THEOREM ReviewInvariant ==
    ReviewSpec => [](/\ ReviewTypeOK /\ EvidenceFromOneTree
                     /\ AcceptedDescribesOne /\ PolicyFromOneTree)
<1> DEFINE Known == AgreementInv /\ PolicyInv
<1>1. ReviewInit => Known
  BY ReviewStarts, AgreementInit, PolicyInit
<1>2. Known /\ [ReviewNext]_<<reviewVars, job>> => Known'
  <2> SUFFICES ASSUME Known, [ReviewNext]_<<reviewVars, job>> PROVE Known'
    OBVIOUS
  <2>1. ReviewInv'
    BY ReviewStep, ReviewStutters DEF AgreementInv
  <2>2. CASE ReviewNext
    BY <2>1, <2>2, AgreementStep, PolicyStep
  <2>3. CASE UNCHANGED <<reviewVars, job>>
    BY <2>1, <2>3, AgreementRests, PolicyRests
  <2> QED
    BY <2>2, <2>3
<1>3. Known => /\ ReviewTypeOK /\ EvidenceFromOneTree
               /\ AcceptedDescribesOne /\ PolicyFromOneTree
  BY ReviewInvBinds, AgreementDescribes, PolicyBinds DEF AgreementInv
<1> HIDE DEF Known
<1> QED
  BY <1>1, <1>2, <1>3, PTL DEF ReviewSpec
=============================================================================
