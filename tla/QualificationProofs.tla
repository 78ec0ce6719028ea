------------------------ MODULE QualificationProofs ------------------------
(***************************************************************************)
(* Theorems about the image qualifier, for any number of processes, sets,  *)
(* cohorts, capacity receipts and source changes, and any faults.          *)
(***************************************************************************)
EXTENDS Qualification, TLAPS

\* The tagged-image markers are no images, and whatever a build makes is one.
LEMMA ImageFacts ==
    /\ NoImage \notin Images
    /\ Prior \in Images
    /\ \A c \in Cohorts, v \in Sources, b \in Builds :
          <<c, v, b>> \in Images /\ <<c, v, b>> # NoImage
BY QualificationConstants DEF Images

\* What a process remembers, with one field replaced.
LEMMA RunFields ==
    ASSUME NEW r \in Runs
    PROVE  /\ \A i \in Images \cup {NoImage} : /\ [r EXCEPT !.prev = i] \in Runs
                                               /\ [r EXCEPT !.first = i] \in Runs
                                               /\ [r EXCEPT !.second = i] \in Runs
           /\ \A v \in Sources : [r EXCEPT !.bound = v] \in Runs
           /\ \A b \in BOOLEAN : [r EXCEPT !.ok = b] \in Runs
           /\ \A i \in Images \cup {NoImage}, b \in BOOLEAN :
                 [r EXCEPT !.second = i, !.ok = b] \in Runs
<1>1. /\ r.bound \in Sources /\ r.prev \in Images \cup {NoImage}
      /\ r.first \in Images \cup {NoImage} /\ r.second \in Images \cup {NoImage}
      /\ r.ok \in BOOLEAN
      /\ r = [bound |-> r.bound, prev |-> r.prev, first |-> r.first,
              second |-> r.second, ok |-> r.ok]
  BY DEF Runs
<1> QED
  BY <1>1 DEF Runs

\* A cleanup that picks its target keeps the rest of its job.
LEMMA JobTarget ==
    ASSUME NEW j \in Jobs, NEW k \in Caps
    PROVE  /\ [j EXCEPT !.target = k] \in Jobs
           /\ [j EXCEPT !.target = k] # NoJob
           /\ LET u == [j EXCEPT !.target = k]
              IN  /\ u.set = j.set /\ u.cohort = j.cohort /\ u.op = j.op
                  /\ u.cap = j.cap /\ u.target = k
BY DEF Jobs, NoJob, Operations

\* A process is running exactly while it has a job, and then the job is a
\* record of real values.
LEMMA RunningJob ==
    ASSUME TypeOK, NEW p \in Procs, pc[p] # "idle"
    PROVE  /\ job[p].set \in Sets /\ job[p].cohort \in Cohorts
           /\ job[p].op \in Operations /\ job[p].cap \in Caps
           /\ job[p].target \in Caps \cup {NoCap}
           /\ job[p] \in Jobs
BY DEF TypeOK, Jobs

\* A process that has just started remembers values of the right types.
LEMMA NoRunType == NoRun \in Runs
BY QualificationConstants DEF NoRun, Runs, Sources

\* Leaving _main_locked keeps the processes well typed.
LEMMA ReturnType ==
    ASSUME TypeOK, NEW p \in Procs, Return(p)
    PROVE  /\ pc' \in [Procs -> Labels]
           /\ job' \in [Procs -> Jobs \cup {NoJob}]
           /\ run' \in [Procs -> Runs]
           /\ \A q \in Procs : pc'[q] = "idle" <=> job'[q] = NoJob
<1>1. "idle" \in Labels
  BY DEF Labels
<1> QED
  BY <1>1, NoRunType DEF TypeOK, Return, Goto

\* An exception keeps the processes well typed.
LEMMA UnwindType ==
    ASSUME TypeOK, NEW p \in Procs, Unwind(p), pc[p] # "idle"
    PROVE  /\ pc' \in [Procs -> Labels]
           /\ job' \in [Procs -> Jobs \cup {NoJob}]
           /\ run' \in [Procs -> Runs]
           /\ \A q \in Procs : pc'[q] = "idle" <=> job'[q] = NoJob
<1>1. CASE pc[p] = "manifest"
  BY <1>1, ReturnType DEF Unwind
<1>2. CASE pc[p] # "manifest"
  <2>1. [run[p] EXCEPT !.ok = FALSE] \in Runs
    BY RunFields DEF TypeOK
  <2>2. run' = [run EXCEPT ![p] = [run[p] EXCEPT !.ok = FALSE]] /\ UNCHANGED job
    BY <1>2 DEF Unwind
  <2>3. run' \in [Procs -> Runs]
    BY <2>1, <2>2 DEF TypeOK
  <2> QED
    BY <1>2, <2>2, <2>3 DEF Unwind, Goto, TypeOK, Labels
<1> QED
  BY <1>1, <1>2

\* Removing or replacing a file of tmp/qualification leaves files of attempts.
LEMMA OutputsType ==
    ASSUME tmp \subseteq Outputs
    PROVE  /\ \A c, files : Without(c, files) \subseteq Outputs
           /\ \A c \in Cohorts, file \in OutputFiles, k \in Caps,
                 image \in Images \cup {NoImage} :
                    With(c, file, k, image) \subseteq Outputs
BY DEF Without, With, Outputs

\* A step that writes or removes files of tmp/qualification and otherwise only
\* moves a process on keeps the types.
LEMMA OutputStepType ==
    ASSUME TypeOK, NEW p \in Procs, pc[p] # "idle",
           NEW l \in Labels, l # "idle", pc' = [pc EXCEPT ![p] = l],
           tmp' \subseteq Outputs,
           UNCHANGED <<envVars, fileVars, dockerVars, tools, job, run>>
    PROVE  TypeOK'
BY DEF TypeOK, envVars, fileVars, dockerVars

\* Every variable of the qualifier keeps to the values the script can write,
\* and a process has a job exactly while it runs.
THEOREM TypeCorrect == Spec => []TypeOK
<1>1. Init => TypeOK
  BY QualificationConstants, NoRunType DEF Init, TypeOK, Sources, Images, Labels
<1>2. TypeOK /\ [Next]_vars => TypeOK'
  <2> SUFFICES ASSUME TypeOK, [Next]_vars PROVE TypeOK'
    OBVIOUS
  <2> USE DEF envVars, fileVars, dockerVars, tmpVars
  <2>1. CASE SourceChanges
    BY <2>1, QualificationConstants DEF SourceChanges, TypeOK, Sources
  <2>2. CASE \E k \in Caps : CapacityExpires(k)
    BY <2>2 DEF CapacityExpires, TypeOK
  <2>3. ASSUME NEW p \in Procs, Advance(p) PROVE TypeOK'
    <3> USE DEF Goto
    <3>1. CASE CreateSet(p)
      <4>1. /\ run' = [run EXCEPT ![p] = [run[p] EXCEPT !.bound = src]]
            /\ [run[p] EXCEPT !.bound = src] \in Runs
        BY <3>1, RunFields DEF CreateSet, TypeOK
      <4>2. run' \in [Procs -> Runs]
        BY <4>1 DEF TypeOK
      <4> QED
        BY <3>1, <4>2, RunningJob DEF CreateSet, TypeOK, Labels, WriteLabels
    <3>2. CASE WriteManifest(p)
      BY <3>2, RunningJob, ReturnType DEF WriteManifest, TypeOK, Runs, Labels, WriteLabels
    <3>3. CASE AbandonSet(p)
      BY <3>3, RunningJob, ReturnType DEF AbandonSet, TypeOK
    <3>4. CASE OpenSet(p)
      BY <3>4, ReturnType DEF OpenSet, TypeOK, Labels
    <3>5. CASE AdmitQualification(p)
      BY <3>5, ReturnType DEF AdmitQualification, TypeOK, Labels
    <3>6. CASE AdmitCleanup(p)
      <4>1. /\ tmp' \subseteq Outputs /\ tools' \in {"none", "partial", "full"}
        BY <3>6, OutputsType DEF AdmitCleanup, RemoveAttemptOutputs, TypeOK
      <4>2. CASE Return(p)
        BY <3>6, <4>1, <4>2, ReturnType DEF AdmitCleanup, TypeOK
      <4>3. CASE ~Return(p)
        <5>1. PICK k \in UnresolvedAttempts(job[p].set, job[p].cohort) :
                 job' = [job EXCEPT ![p].target = k]
          BY <3>6, <4>3 DEF AdmitCleanup
        <5>2. k \in Caps
          BY <5>1 DEF UnresolvedAttempts, AttemptsOf, TypeOK
        <5>3. pc' = [pc EXCEPT ![p] = "snapshot"] /\ UNCHANGED run
          BY <3>6, <4>3 DEF AdmitCleanup
        <5>4. pc[p] # "idle"
          BY <3>6 DEF AdmitCleanup
        <5>5. job'[p] \in Jobs /\ job'[p] # NoJob /\ job[p] # NoJob
          BY <5>1, <5>2, <5>4, RunningJob, JobTarget DEF TypeOK
        <5>6. job' \in [Procs -> Jobs \cup {NoJob}]
          BY <5>1, <5>5 DEF TypeOK
        <5>7. \A q \in Procs : pc'[q] = "idle" <=> job'[q] = NoJob
          BY <5>1, <5>3, <5>4, <5>5 DEF TypeOK
        <5> QED
          BY <3>6, <4>1, <5>3, <5>6, <5>7 DEF AdmitCleanup, TypeOK, Labels
      <4> QED
        BY <4>2, <4>3
    <3>7. CASE SnapshotTools(p)
      BY <3>7 DEF SnapshotTools, TypeOK, Labels, FailLabels, BuildLabels, WriteLabels
    <3>8. CASE SnapshotRefused(p)
      BY <3>8, ReturnType DEF SnapshotRefused, TypeOK
    <3>9. CASE Probe(p)
      <4>1. finalTag[job[p].cohort] \in Images \cup {NoImage}
        BY <3>9, RunningJob DEF Probe, TypeOK
      <4>2. /\ run' = [run EXCEPT ![p] = [run[p] EXCEPT !.prev = finalTag[job[p].cohort]]]
            /\ [run[p] EXCEPT !.prev = finalTag[job[p].cohort]] \in Runs
        BY <3>9, <4>1, RunFields DEF Probe, TypeOK
      <4>3. run' \in [Procs -> Runs]
        BY <4>2 DEF TypeOK
      <4> QED
        BY <3>9, <4>3 DEF Probe, TypeOK, Labels, WriteLabels
    <3>10. CASE CaptureCapacity(p)
      BY <3>10, RunningJob DEF CaptureCapacity, TypeOK, Labels, WriteLabels
    <3>11. CASE WriteIntent(p)
      BY <3>11, RunningJob DEF WriteIntent, TypeOK, Runs, Labels, BuildLabels
    <3>12. ASSUME NEW b \in Builds, NEW ok \in BOOLEAN, BuildFirst(p, b, ok)
           PROVE  TypeOK'
      <4>1. <<job[p].cohort, src, b>> \in Images /\ pc[p] # "idle"
        BY <3>12, RunningJob, ImageFacts DEF BuildFirst, TypeOK
      <4>2. tmp' \subseteq Outputs
        BY <3>12, <4>1, RunningJob, OutputsType DEF BuildFirst, TypeOK, OutputFiles
      <4> QED
        BY <3>12, <4>1, <4>2, OutputStepType DEF BuildFirst, Labels, BuildLabels
    <3>13. ASSUME NEW ok \in BOOLEAN, LoadFirst(p, ok) PROVE TypeOK'
      <4>1. PICK o \in tmp :
               /\ tempTag' = [tempTag EXCEPT ![o.by] = o.image]
               /\ run' = [run EXCEPT ![p].first = tempTag'[job[p].cap]]
               /\ pc' = [pc EXCEPT ![p] =
                            IF ok /\ tempTag'[job[p].cap] # NoImage
                            THEN "build2" ELSE "sweep"]
        BY <3>13 DEF LoadFirst
      <4>2. tempTag' \in [Caps -> Images \cup {NoImage}]
        BY <4>1 DEF TypeOK, Outputs
      <4>3. pc[p] = "load1" /\ job[p].cap \in Caps
        BY <3>13, RunningJob DEF LoadFirst
      <4>4. [run[p] EXCEPT !.first = tempTag'[job[p].cap]] \in Runs
        BY <4>2, <4>3, RunFields DEF TypeOK
      <4>5. run' \in [Procs -> Runs]
        BY <4>1, <4>4 DEF TypeOK
      <4> QED
        BY <3>13, <4>1, <4>2, <4>3, <4>5 DEF LoadFirst, TypeOK, Labels, BuildLabels
    <3>14. ASSUME NEW b \in Builds, NEW ok \in BOOLEAN, BuildSecond(p, b, ok)
           PROVE  TypeOK'
      <4>1. <<job[p].cohort, src, b>> \in Images /\ pc[p] # "idle"
        BY <3>14, RunningJob, ImageFacts DEF BuildSecond, TypeOK
      <4>2. tmp' \subseteq Outputs
        BY <3>14, <4>1, RunningJob, OutputsType DEF BuildSecond, TypeOK, OutputFiles
      <4> QED
        BY <3>14, <4>1, <4>2, OutputStepType DEF BuildSecond, Labels, BuildLabels
    <3>15. CASE WriteOwnership(p)
      BY <3>15, RunningJob DEF WriteOwnership, TypeOK, Runs, Labels, BuildLabels
    <3>16. ASSUME NEW ok \in BOOLEAN, LoadSecond(p, ok) PROVE TypeOK'
      <4>1. finalTag' \in [Cohorts -> Images \cup {NoImage}]
        BY <3>16 DEF LoadSecond, TypeOK, Outputs
      <4> QED
        BY <3>16, <4>1 DEF LoadSecond, TypeOK, Labels, BuildLabels
    <3>17. CASE CompareImages(p)
      <4> DEFINE seen == finalTag[job[p].cohort]
                 r == [run[p] EXCEPT !.second = seen, !.ok = seen = run[p].first]
      <4>1. seen \in Images \cup {NoImage}
        BY <3>17, RunningJob DEF CompareImages, TypeOK
      <4>2. run' = [run EXCEPT ![p] = r] /\ r \in Runs
        BY <3>17, <4>1, RunFields DEF CompareImages, TypeOK
      <4>3. run' \in [Procs -> Runs]
        BY <4>2 DEF TypeOK
      <4> QED
        BY <3>17, <4>3 DEF CompareImages, TypeOK, Labels
    <3>18. CASE SweepOutputs(p)
      BY <3>18, OutputsType, OutputStepType DEF SweepOutputs, TypeOK, Labels
    <3>19. CASE RemoveTemporaryTag(p)
      BY <3>19, RunningJob DEF RemoveTemporaryTag, TypeOK, Labels
    <3>20. ASSUME NEW whole \in BOOLEAN, ValidatePayload(p, whole) PROVE TypeOK'
      <4>1. tmp' \subseteq Outputs
        BY <3>20, RunningJob, OutputsType DEF ValidatePayload, TypeOK, OutputFiles
      <4> QED
        BY <3>20, <4>1, OutputStepType DEF ValidatePayload, Labels, WriteLabels
    <3>21. ASSUME NEW valid \in BOOLEAN, WriteCompletion(p, valid) PROVE TypeOK'
      <4>1. tmp' \subseteq Outputs
        BY <3>21, OutputsType DEF WriteCompletion, TypeOK
      <4> QED
        BY <3>21, <4>1, RunningJob DEF WriteCompletion, TypeOK, Labels, WriteLabels
    <3>22. CASE WriteReceipt(p)
      BY <3>22, RunningJob DEF WriteReceipt, TypeOK, Runs, Labels
    <3>23. CASE CaptureCleanupCapacity(p)
      BY <3>23, RunningJob DEF CaptureCleanupCapacity, TypeOK, Labels
    <3>24. CASE RemoveTargetTag(p)
      BY <3>24 DEF RemoveTargetTag, TypeOK, Labels
    <3>25. CASE ReadBackCleanup(p)
      BY <3>25 DEF ReadBackCleanup, TypeOK, Labels, WriteLabels
    <3>26. CASE WriteCleanup(p)
      BY <3>26, RunningJob DEF WriteCleanup, TypeOK, Labels
    <3>27. CASE StepFails(p)
      <4>1. pc[p] # "idle"
        BY <3>27 DEF StepFails, FailLabels, BuildLabels
      <4> QED
        BY <3>27, <4>1, UnwindType DEF StepFails, TypeOK
    <3>28. CASE Teardown(p)
      BY <3>28, ReturnType DEF Teardown, TypeOK
    <3> QED
      BY <2>3, <3>1, <3>2, <3>3, <3>4, <3>5, <3>6, <3>7, <3>8, <3>9, <3>10,
         <3>11, <3>12, <3>13, <3>14, <3>15, <3>16, <3>17, <3>18, <3>19, <3>20,
         <3>21, <3>22, <3>23, <3>24, <3>25, <3>26, <3>27, <3>28 DEF Advance
  <2>4. ASSUME NEW p \in Procs, WriteFails(p) PROVE TypeOK'
    <3>1. pc[p] # "idle"
      BY <2>4 DEF WriteFails, Torn, WriteLabels
    <3>2. /\ tmp' \subseteq Outputs
          /\ setSrc' \in [Sets -> Sources \cup {Absent, Broken}]
      BY <2>4, <3>1, RunningJob, OutputsType DEF WriteFails, Torn, TypeOK
    <3> QED
      BY <2>4, <3>1, <3>2, UnwindType DEF WriteFails, TypeOK
  <2>5. ASSUME NEW p \in Procs, Crash(p) PROVE TypeOK'
    <3>1. /\ tmp' \subseteq Outputs
          /\ setSrc' \in [Sets -> Sources \cup {Absent, Broken}]
          /\ tools' \in {"none", "partial", "full"}
      BY <2>5, RunningJob, OutputsType DEF Crash, Torn, TypeOK
    <3> QED
      BY <2>5, <3>1, ReturnType DEF Crash, TypeOK
  <2>6. ASSUME NEW p \in Procs, NEW s \in Sets, NEW c \in Cohorts,
               NEW op \in Operations, NEW k \in Caps, Invoke(p, s, c, op, k)
        PROVE  TypeOK'
    <3>1. [set |-> s, cohort |-> c, op |-> op, cap |-> k, target |-> NoCap] # NoJob
      BY DEF NoJob, Operations
    <3> QED
      BY <2>6, <3>1, NoRunType DEF Invoke, Goto, TypeOK, Jobs, Labels
  <2>7. CASE UNCHANGED vars
    BY <2>7 DEF vars, TypeOK
  <2> QED
    BY <2>1, <2>2, <2>3, <2>4, <2>5, <2>6, <2>7 DEF Next
<1> QED
  BY <1>1, <1>2, PTL DEF Spec

-----------------------------------------------------------------------------
\* The parts of the state the attempt invariant speaks of, besides the
\* processes.
attemptVars == <<scope, capFiles, intent, owner, completed, cleaned, receipt>>

\* Where a cleanup may be once it has picked its target.
CleanupLabels == {"snapshot", "ccapture", "cuntag", "cread", "cwrite", "teardown"}

\* The capacity receipt of a running process has the scope of its job
\* (require_scope).
LEMMA JobScope ==
    ASSUME TypeOK, AttemptInv, NEW p \in Procs, pc[p] # "idle"
    PROVE  /\ scope[job[p].cap].set = job[p].set
           /\ scope[job[p].cap].cohort = job[p].cohort
           /\ scope[job[p].cap] # NoScope
<1>1. scope[job[p].cap] = [set |-> job[p].set, cohort |-> job[p].cohort,
                           op |-> job[p].op]
  BY DEF AttemptInv, JobScoped
<1>2. job[p].op # "none"
  BY RunningJob DEF Operations
<1> QED
  BY <1>1, <1>2 DEF NoScope

\* Leaving, in good order or not, preserves the invariant: an idle process is
\* under no obligation.
LEMMA ReturnInv ==
    ASSUME TypeOK, AttemptInv, NEW p \in Procs, pc[p] # "idle", Return(p),
           UNCHANGED attemptVars,
           \/ UNCHANGED setSrc
           \/ \E v \in Sources \cup {Broken} :
                 setSrc' = [setSrc EXCEPT ![job[p].set] = v]
    PROVE  AttemptInv'
<1> USE DEF attemptVars, TypeOK, Return, Goto
<1>1. \A q \in Procs : q # p => pc'[q] = pc[q] /\ job'[q] = job[q] /\ run'[q] = run[q]
  OBVIOUS
<1>2. pc'[p] = "idle" /\ job'[p] = NoJob
  OBVIOUS
<1>3. OneProcessPerSet' /\ JobScoped'
  BY <1>1, <1>2 DEF AttemptInv, OneProcessPerSet, JobScoped
<1>4. FilesOrdered' /\ OneOpenAttempt' /\ NoConflictingResolution'
  BY DEF AttemptInv, FilesOrdered, OneOpenAttempt, SameCohort, NoConflictingResolution
<1>5. NewSetsEmpty'
  <2>1. \A s \in Sets : setSrc'[s] = Absent => setSrc[s] = Absent
    BY RunningJob, QualificationConstants
  <2>2. \A q \in Procs : pc[q] # "idle" => job[q].set \in Sets
    BY RunningJob
  <2> QED
    BY <1>1, <1>2, <2>1, <2>2 DEF AttemptInv, NewSetsEmpty, CapFilesOf
<1>6. AttemptOpen'
  BY <1>1, <1>2 DEF AttemptInv, AttemptOpen, AttemptLabels, BuildLabels
<1>7. CleanupTargetOpen'
  BY <1>1, <1>2 DEF AttemptInv, CleanupTargetOpen, CompletionsOf, NoJob
<1> QED
  BY <1>3, <1>4, <1>5, <1>6, <1>7 DEF AttemptInv

\* A step of a running process that keeps its job and touches no file of an
\* attempt only has to meet the obligations of its new label.
LEMMA MoveInv ==
    ASSUME TypeOK, AttemptInv, NEW p \in Procs, pc[p] # "idle",
           NEW l \in Labels, l # "idle", pc' = [pc EXCEPT ![p] = l],
           UNCHANGED <<attemptVars, job>>,
           \A q \in Procs : q # p => run'[q] = run[q],
           \/ UNCHANGED setSrc
           \/ \E v \in Sources \cup {Broken} :
                 setSrc' = [setSrc EXCEPT ![job[p].set] = v],
           l \notin {"manifest", "intent", "open"},
           pc[p] = "open" => setSrc[job[p].set] # Absent,
           l \in AttemptLabels => pc[p] \in AttemptLabels,
           l \in {"build2", "own"} => run'[p].first # NoImage,
           l \in {"load2", "compare"} => pc[p] \in {"load2", "compare"},
           l = "admit" => \A k \in CompletionsOf(job[p].set) :
              receipt[job[p].set][scope[k].cohort] # NoImage,
           l = "snapshot" => job[p].op # "cleanup",
           pc[p] \in CleanupLabels /\ job[p].target # NoCap =>
              l \in CleanupLabels \ {"snapshot"},
           l \in {"ccapture", "cuntag", "cread", "cwrite"} => job[p].target # NoCap
    PROVE  AttemptInv'
<1> USE DEF attemptVars, TypeOK
<1>1. \A q \in Procs : q # p => pc'[q] = pc[q]
  OBVIOUS
<1>2. pc'[p] = l
  OBVIOUS
<1>3. OneProcessPerSet' /\ JobScoped'
  BY <1>1, <1>2 DEF AttemptInv, OneProcessPerSet, JobScoped
<1>4. FilesOrdered' /\ OneOpenAttempt' /\ NoConflictingResolution'
  BY DEF AttemptInv, FilesOrdered, OneOpenAttempt, SameCohort, NoConflictingResolution
<1>5. NewSetsEmpty'
  <2>1. \A s \in Sets : setSrc'[s] = Absent => setSrc[s] = Absent
    BY RunningJob, QualificationConstants
  <2>2. \A q \in Procs : pc[q] # "idle" => job[q].set \in Sets
    BY RunningJob
  <2> QED
    BY <1>1, <1>2, <2>1, <2>2 DEF AttemptInv, NewSetsEmpty, CapFilesOf
<1>6. AttemptOpen'
  BY <1>1, <1>2 DEF AttemptInv, AttemptOpen, AttemptLabels, BuildLabels
<1>7. CleanupTargetOpen'
  BY <1>1, <1>2 DEF AttemptInv, CleanupTargetOpen, CompletionsOf, CleanupLabels
<1> QED
  BY <1>3, <1>4, <1>5, <1>6, <1>7 DEF AttemptInv

\* An exception unwinds to the sweep of an open attempt or to the teardown.
LEMMA UnwindInv ==
    ASSUME TypeOK, AttemptInv, NEW p \in Procs, pc[p] \notin {"idle", "open"},
           Unwind(p), UNCHANGED attemptVars,
           \/ UNCHANGED setSrc
           \/ \E v \in Sources \cup {Broken} :
                 setSrc' = [setSrc EXCEPT ![job[p].set] = v]
    PROVE  AttemptInv'
<1>1. CASE pc[p] = "manifest"
  BY <1>1, ReturnInv DEF Unwind
<1>2. CASE pc[p] # "manifest"
  <2> DEFINE l == IF pc[p] \in BuildLabels THEN "sweep" ELSE "teardown"
  <2>1. /\ l \in {"sweep", "teardown"} /\ (l = "sweep" => pc[p] \in BuildLabels)
        /\ pc' = [pc EXCEPT ![p] = l] /\ UNCHANGED job
        /\ \A q \in Procs : q # p => run'[q] = run[q]
    BY <1>2 DEF Unwind, Goto, TypeOK
  <2> HIDE DEF l
  <2> QED
    BY <2>1, MoveInv DEF Labels, AttemptLabels, BuildLabels, CleanupLabels
<1> QED
  BY <1>1, <1>2

\* The process part of Next: every action of a running process.
LEMMA AdvanceInv ==
    ASSUME TypeOK, TypeOK', AttemptInv, NEW p \in Procs, Advance(p)
    PROVE  AttemptInv'
<1> USE DEF envVars, fileVars, dockerVars, tmpVars, Goto
<1>1. CASE CreateSet(p)
  BY <1>1, RunningJob, QualificationConstants
     DEF CreateSet, TypeOK, AttemptInv, OneProcessPerSet, JobScoped, FilesOrdered,
         NewSetsEmpty, CapFilesOf, AttemptOpen, AttemptLabels, BuildLabels,
         CleanupTargetOpen, CompletionsOf, OneOpenAttempt, SameCohort,
         NoConflictingResolution
<1>2. CASE WriteManifest(p)
  <2>1. run[p].bound \in Sources
    BY DEF TypeOK, Runs
  <2>2. CompletionsOf(job[p].set) = {}
    BY <1>2 DEF WriteManifest, AttemptInv, NewSetsEmpty, FilesOrdered, CapFilesOf,
                CompletionsOf
  <2>3. CASE run[p].bound = src
    <3>1. /\ pc' = [pc EXCEPT ![p] = "admit"] /\ pc[p] = "manifest"
          /\ UNCHANGED <<attemptVars, job, run>>
          /\ setSrc' = [setSrc EXCEPT ![job[p].set] = run[p].bound]
      BY <1>2, <2>3 DEF WriteManifest, attemptVars
    <3>2. "admit" \in Labels /\ "admit" \notin AttemptLabels
      BY DEF Labels, AttemptLabels, BuildLabels
    <3> QED
      BY <2>1, <2>2, <3>1, <3>2, MoveInv DEF CleanupLabels
  <2>4. CASE run[p].bound # src
    BY <1>2, <2>1, <2>4, ReturnInv DEF WriteManifest, attemptVars
  <2> QED
    BY <2>3, <2>4
<1>3. CASE AbandonSet(p)
  BY <1>3, RunningJob, QualificationConstants
     DEF AbandonSet, Return, NoJob, TypeOK, AttemptInv, OneProcessPerSet, JobScoped,
         FilesOrdered, NewSetsEmpty, CapFilesOf, AttemptOpen, AttemptLabels,
         BuildLabels, CleanupTargetOpen, CompletionsOf, OneOpenAttempt, SameCohort,
         NoConflictingResolution
<1>4. CASE OpenSet(p)
  <2>1. CASE SetOpens(job[p].set)
    <3>1. \A k \in CompletionsOf(job[p].set) :
              receipt[job[p].set][scope[k].cohort] # NoImage
      <4> SUFFICES ASSUME NEW k \in CompletionsOf(job[p].set)
                   PROVE  receipt[job[p].set][scope[k].cohort] # NoImage
        OBVIOUS
      <4>1. scope[k].cohort \in Cohorts
        BY DEF CompletionsOf, TypeOK, AttemptInv, FilesOrdered
      <4> QED
        BY <2>1, <4>1 DEF SetOpens, ValidSetGraph
    <3> QED
      BY <1>4, <2>1, <3>1, MoveInv
         DEF OpenSet, attemptVars, Labels, AttemptLabels, CleanupLabels, BuildLabels
  <2>2. CASE ~SetOpens(job[p].set)
    BY <1>4, <2>2, ReturnInv DEF OpenSet, attemptVars
  <2> QED
    BY <2>1, <2>2
<1>5. CASE AdmitQualification(p)
  <2>1. CASE Return(p)
    BY <1>5, <2>1, ReturnInv DEF AdmitQualification, attemptVars
  <2>2. CASE ~Return(p)
    BY <1>5, <2>2, MoveInv
       DEF AdmitQualification, attemptVars, Labels, AttemptLabels, CleanupLabels, BuildLabels
  <2> QED
    BY <2>1, <2>2
<1>6. CASE AdmitCleanup(p)
  <2>1. CASE Return(p)
    BY <1>6, <2>1, ReturnInv DEF AdmitCleanup, attemptVars
  <2>2. CASE ~Return(p)
    <3>1. /\ job[p].op = "cleanup"
          /\ \E k \in UnresolvedAttempts(job[p].set, job[p].cohort) :
                job' = [job EXCEPT ![p].target = k]
      BY <1>6, <2>2 DEF AdmitCleanup
    <3> PICK k \in UnresolvedAttempts(job[p].set, job[p].cohort) :
             job' = [job EXCEPT ![p].target = k]
      BY <3>1
    <3>2. k \in intent /\ scope[k].set = job[p].set /\ scope[k].cohort = job[p].cohort
      BY <3>1 DEF UnresolvedAttempts, AttemptsOf
    <3>3. k \notin completed
      <4>1. pc[p] = "admit" /\ ~AttemptResolved(k)
        BY <1>6 DEF AdmitCleanup, UnresolvedAttempts
      <4>2. k \in completed => receipt[job[p].set][scope[k].cohort] # NoImage
        BY <3>2, <4>1 DEF AttemptInv, CleanupTargetOpen, CompletionsOf
      <4> QED
        BY <3>2, <4>1, <4>2 DEF AttemptResolved
    <3>4. k \in Caps /\ k # NoCap
      BY <3>2, QualificationConstants DEF TypeOK
    <3>5. /\ pc' = [pc EXCEPT ![p] = "snapshot"]
          /\ UNCHANGED <<run, setSrc, attemptVars>>
      BY <1>6, <2>2 DEF AdmitCleanup, attemptVars
    <3>6. pc[p] = "admit"
      BY <1>6 DEF AdmitCleanup
    <3>7. \A q \in Procs : /\ job'[q].set = job[q].set
                            /\ job'[q].cohort = job[q].cohort
                            /\ job'[q].op = job[q].op /\ job'[q].cap = job[q].cap
                            /\ job'[q].target = IF q = p THEN k ELSE job[q].target
      BY <3>1, <3>4, <3>6, RunningJob DEF TypeOK, NoJob
    <3>8. \A q \in Procs : pc'[q] = IF q = p THEN "snapshot" ELSE pc[q]
      BY <3>5 DEF TypeOK
    <3>9. OneProcessPerSet' /\ JobScoped'
      BY <3>5, <3>6, <3>7, <3>8 DEF AttemptInv, OneProcessPerSet, JobScoped, attemptVars
    <3>10. FilesOrdered' /\ OneOpenAttempt' /\ NoConflictingResolution'
      BY <3>5 DEF attemptVars, AttemptInv, FilesOrdered, OneOpenAttempt, SameCohort,
                  NoConflictingResolution
    <3>11. NewSetsEmpty' /\ AttemptOpen'
      BY <3>5, <3>6, <3>7, <3>8 DEF attemptVars, AttemptInv, NewSetsEmpty, CapFilesOf,
         AttemptOpen, AttemptLabels, BuildLabels
    <3>12. CleanupTargetOpen'
      BY <3>1, <3>2, <3>3, <3>4, <3>5, <3>7, <3>8
         DEF attemptVars, AttemptInv, CleanupTargetOpen, CompletionsOf
    <3> QED
      BY <3>9, <3>10, <3>11, <3>12 DEF AttemptInv
  <2> QED
    BY <2>1, <2>2
<1>7. CASE SnapshotTools(p)
  <2>1. job[p].op \in Operations
    BY <1>7, RunningJob DEF SnapshotTools
  <2>2. job[p].op # "qualification" => job[p].target # NoCap
    BY <1>7, <2>1 DEF SnapshotTools, Operations, AttemptInv, CleanupTargetOpen
  <2> DEFINE l == IF job[p].op = "qualification" THEN "probe" ELSE "ccapture"
  <2>3. l \in {"probe", "ccapture"} /\ (l = "ccapture" <=> job[p].target # NoCap)
    BY <2>2 DEF AttemptInv, CleanupTargetOpen
  <2>4. /\ pc' = [pc EXCEPT ![p] = l] /\ pc[p] = "snapshot"
        /\ UNCHANGED <<attemptVars, job, run, setSrc>>
    BY <1>7 DEF SnapshotTools, attemptVars
  <2> HIDE DEF l
  <2> QED
    BY <2>3, <2>4, MoveInv DEF Labels, AttemptLabels, CleanupLabels, BuildLabels, WriteLabels
<1>8. CASE SnapshotRefused(p)
  BY <1>8, ReturnInv DEF SnapshotRefused, attemptVars
<1>9. CASE Probe(p)
  BY <1>9, MoveInv DEF Probe, attemptVars, Labels, AttemptLabels, CleanupLabels, BuildLabels,
     WriteLabels, TypeOK
<1>10. CASE CaptureCapacity(p)
  <2> DEFINE k == job[p].cap
             s == job[p].set
             c == job[p].cohort
  <2>1. k \in Caps /\ s \in Sets /\ c \in Cohorts
    BY <1>10, RunningJob DEF CaptureCapacity
  <2>2. /\ scope[k].set = s /\ scope[k].cohort = c /\ scope[k] # NoScope
    BY <1>10, JobScope DEF CaptureCapacity
  <2>3. \A a \in intent : scope[a].set = s /\ scope[a].cohort = c => cleaned[a] # NoCap
    BY <1>10 DEF CaptureCapacity, UnresolvedAttempts, AttemptsOf, AttemptResolved
  <2>4. k \notin intent
    BY <1>10 DEF CaptureCapacity, AttemptInv, FilesOrdered
  <2>5. /\ capFiles' = capFiles \cup {k} /\ pc[p] = "capture"
        /\ pc' = [pc EXCEPT ![p] = "intent"]
        /\ UNCHANGED <<scope, intent, owner, completed, cleaned, receipt, setSrc,
                       job, run>>
    BY <1>10 DEF CaptureCapacity
  <2>6. \A q \in Procs : pc'[q] = IF q = p THEN "intent" ELSE pc[q]
    BY <2>5 DEF TypeOK
  <2> HIDE DEF k, s, c
  <2>7. OneProcessPerSet' /\ JobScoped'
    BY <2>5, <2>6 DEF AttemptInv, OneProcessPerSet, JobScoped
  <2>8. FilesOrdered' /\ OneOpenAttempt' /\ NoConflictingResolution'
    BY <2>2, <2>5 DEF AttemptInv, FilesOrdered, OneOpenAttempt, SameCohort,
       NoConflictingResolution
  <2>9. setSrc[s] # Absent /\ \A q \in Procs : pc'[q] = "manifest" => job[q].set # s
    BY <2>5, <2>6 DEF AttemptInv, OneProcessPerSet, NewSetsEmpty, s
  <2>10. NewSetsEmpty'
    BY <2>2, <2>5, <2>6, <2>9 DEF AttemptInv, NewSetsEmpty, CapFilesOf
  <2>11. AttemptOpen'
    BY <2>3, <2>4, <2>5, <2>6 DEF AttemptInv, AttemptOpen, AttemptLabels, BuildLabels,
       k, s, c
  <2>12. CleanupTargetOpen'
    BY <2>5, <2>6 DEF AttemptInv, CleanupTargetOpen, CompletionsOf
  <2> QED
    BY <2>7, <2>8, <2>10, <2>11, <2>12 DEF AttemptInv
<1>11. CASE WriteIntent(p)
  <2> DEFINE k == job[p].cap
  <2>1. k \in Caps
    BY <1>11, RunningJob DEF WriteIntent
  <2>2. /\ k \in capFiles \ intent /\ cleaned[k] = NoCap /\ k \notin completed
    BY <1>11, <2>1 DEF WriteIntent, AttemptInv, AttemptOpen, FilesOrdered
  <2>3. /\ intent' = intent \cup {k} /\ pc[p] = "intent"
        /\ pc' = [pc EXCEPT ![p] = "build1"]
        /\ UNCHANGED <<scope, capFiles, owner, completed, cleaned, receipt, setSrc,
                       job, run>>
    BY <1>11 DEF WriteIntent
  <2>4. \A q \in Procs : pc'[q] = IF q = p THEN "build1" ELSE pc[q]
    BY <2>3 DEF TypeOK
  <2>5. scope[k].set = job[p].set /\ scope[k].cohort = job[p].cohort
    BY <2>3, JobScope
  <2>6. \A q \in Procs : q # p /\ pc[q] # "idle" =>
            job[q].cap # k /\ job[q].set # scope[k].set
    BY <2>3, <2>5, JobScope DEF AttemptInv, OneProcessPerSet
  <2>7. \A a \in intent : SameCohort(a, k) => cleaned[a] # NoCap
    BY <2>3, <2>5 DEF AttemptInv, AttemptOpen, SameCohort
  <2> HIDE DEF k
  <2>8. OneProcessPerSet' /\ JobScoped' /\ NewSetsEmpty'
    BY <2>3, <2>4 DEF AttemptInv, OneProcessPerSet, JobScoped, NewSetsEmpty, CapFilesOf
  <2>9. FilesOrdered' /\ NoConflictingResolution'
    BY <2>2, <2>3 DEF AttemptInv, FilesOrdered, NoConflictingResolution
  <2>10. OneOpenAttempt'
    BY <2>3, <2>7 DEF AttemptInv, OneOpenAttempt, SameCohort
  <2>11. AttemptOpen'
    BY <2>2, <2>3, <2>4, <2>6 DEF AttemptInv, AttemptOpen, AttemptLabels, BuildLabels, k
  <2>12. CleanupTargetOpen'
    BY <2>3, <2>4 DEF AttemptInv, CleanupTargetOpen, CompletionsOf
  <2> QED
    BY <2>8, <2>9, <2>10, <2>11, <2>12 DEF AttemptInv
<1>12. ASSUME NEW b \in Builds, NEW ok \in BOOLEAN, BuildFirst(p, b, ok)
       PROVE  AttemptInv'
  BY <1>12, MoveInv DEF BuildFirst, attemptVars, Labels, AttemptLabels,
     CleanupLabels, BuildLabels
<1>13. ASSUME NEW ok \in BOOLEAN, LoadFirst(p, ok) PROVE AttemptInv'
  <2>1. /\ run' = [run EXCEPT ![p] = [run[p] EXCEPT !.first = tempTag'[job[p].cap]]]
        /\ pc' = [pc EXCEPT ![p] = IF ok /\ tempTag'[job[p].cap] # NoImage
                                   THEN "build2" ELSE "sweep"]
        /\ pc[p] = "load1"
        /\ UNCHANGED <<attemptVars, setSrc, job>>
    BY <1>13 DEF LoadFirst, attemptVars
  <2>2. /\ run'[p].first = tempTag'[job[p].cap]
        /\ \A q \in Procs : q # p => run'[q] = run[q]
    BY <2>1 DEF TypeOK, Runs
  <2>3. CASE pc' = [pc EXCEPT ![p] = "build2"] /\ tempTag'[job[p].cap] # NoImage
    BY <2>1, <2>2, <2>3, MoveInv DEF Labels, AttemptLabels, CleanupLabels, BuildLabels
  <2>4. CASE pc' = [pc EXCEPT ![p] = "sweep"]
    BY <2>1, <2>2, <2>4, MoveInv DEF Labels, AttemptLabels, CleanupLabels, BuildLabels
  <2> QED
    BY <2>1, <2>3, <2>4
<1>14. ASSUME NEW b \in Builds, NEW ok \in BOOLEAN, BuildSecond(p, b, ok)
       PROVE  AttemptInv'
  <2>1. run'[p].first # NoImage /\ \A q \in Procs : q # p => run'[q] = run[q]
    BY <1>14 DEF BuildSecond, TypeOK, AttemptInv, AttemptOpen
  <2> QED
    BY <1>14, <2>1, MoveInv DEF BuildSecond, attemptVars, Labels, AttemptLabels, CleanupLabels,
       BuildLabels
<1>15. CASE WriteOwnership(p)
  <2> DEFINE k == job[p].cap
  <2>1. /\ owner' = [owner EXCEPT ![k] = run[p].first] /\ pc[p] = "own"
        /\ pc' = [pc EXCEPT ![p] = "load2"]
        /\ UNCHANGED <<scope, capFiles, intent, completed, cleaned, receipt, setSrc,
                       job, run>>
    BY <1>15 DEF WriteOwnership
  <2>2. k \in Caps /\ run[p].first # NoImage
    BY <2>1, RunningJob DEF AttemptInv, AttemptOpen
  <2>3. owner'[k] # NoImage /\ \A a \in Caps : a # k => owner'[a] = owner[a]
    BY <2>1, <2>2 DEF TypeOK
  <2>4. \A q \in Procs : pc'[q] = IF q = p THEN "load2" ELSE pc[q]
    BY <2>1 DEF TypeOK
  <2>5. \A q \in Procs : pc[q] # "idle" => job[q].cap \in Caps
    BY RunningJob
  <2>6. k \in intent \ completed /\ cleaned[k] = NoCap
    BY <2>1 DEF AttemptInv, AttemptOpen, AttemptLabels, BuildLabels
  <2>7. OneProcessPerSet' /\ JobScoped' /\ NewSetsEmpty'
    BY <2>1, <2>4 DEF AttemptInv, OneProcessPerSet, JobScoped, NewSetsEmpty, CapFilesOf
  <2>8. FilesOrdered' /\ NoConflictingResolution' /\ OneOpenAttempt'
    BY <2>1 DEF AttemptInv, FilesOrdered, NoConflictingResolution, OneOpenAttempt,
       SameCohort
  <2>9. AttemptOpen'
    BY <2>1, <2>3, <2>4, <2>5, <2>6
       DEF AttemptInv, AttemptOpen, AttemptLabels, BuildLabels
  <2>10. CleanupTargetOpen'
    BY <2>1, <2>4 DEF AttemptInv, CleanupTargetOpen, CompletionsOf
  <2> QED
    BY <2>7, <2>8, <2>9, <2>10 DEF AttemptInv
<1>16. ASSUME NEW ok \in BOOLEAN, LoadSecond(p, ok) PROVE AttemptInv'
  BY <1>16, MoveInv DEF LoadSecond, attemptVars, Labels, AttemptLabels, CleanupLabels, BuildLabels
<1>17. CASE CompareImages(p)
  BY <1>17, MoveInv DEF CompareImages, attemptVars, Labels, AttemptLabels, CleanupLabels, BuildLabels,
     TypeOK
<1>18. CASE SweepOutputs(p)
  BY <1>18, MoveInv DEF SweepOutputs, attemptVars, Labels, AttemptLabels, CleanupLabels, BuildLabels
<1>19. CASE RemoveTemporaryTag(p)
  BY <1>19, MoveInv DEF RemoveTemporaryTag, attemptVars, Labels, AttemptLabels, CleanupLabels,
     BuildLabels
<1>20. ASSUME NEW whole \in BOOLEAN, ValidatePayload(p, whole) PROVE AttemptInv'
  BY <1>20, MoveInv DEF ValidatePayload, attemptVars, Labels, AttemptLabels, CleanupLabels,
     BuildLabels, WriteLabels
<1>21. ASSUME NEW valid \in BOOLEAN, WriteCompletion(p, valid) PROVE AttemptInv'
  <2>1. CASE ~valid
    BY <1>21, <2>1, MoveInv DEF WriteCompletion, attemptVars, Labels, AttemptLabels, CleanupLabels,
       BuildLabels
  <2>2. CASE valid
    <3> DEFINE k == job[p].cap
    <3>1. k \in intent /\ cleaned[k] = NoCap
      BY <1>21 DEF WriteCompletion, AttemptInv, AttemptOpen, AttemptLabels
    <3>2. /\ completed' = completed \cup {k} /\ pc[p] = "complete"
          /\ pc' = [pc EXCEPT ![p] = "receipt"]
          /\ UNCHANGED <<scope, capFiles, intent, owner, cleaned, receipt, setSrc,
                         job, run>>
      BY <1>21, <2>2 DEF WriteCompletion
    <3>3. \A q \in Procs : pc'[q] = IF q = p THEN "receipt" ELSE pc[q]
      BY <3>2 DEF TypeOK
    <3>4. scope[k].set = job[p].set
      BY <3>2, JobScope
    <3>5. \A q \in Procs : q # p /\ pc[q] # "idle" =>
              job[q].cap # k /\ job[q].set # scope[k].set
      BY <3>2, <3>4, JobScope DEF AttemptInv, OneProcessPerSet
    <3>6. \A q \in Procs : q # p /\ job[q].target # NoCap => job[q].target # k
      <4>1. \A q \in Procs : job[q].target # NoCap => pc[q] # "idle"
        BY DEF TypeOK, NoJob
      <4> QED
        BY <3>5, <4>1 DEF AttemptInv, CleanupTargetOpen
    <3>7. job[p].target = NoCap
      BY <3>2 DEF AttemptInv, CleanupTargetOpen
    <3> HIDE DEF k
    <3>8. OneProcessPerSet' /\ JobScoped' /\ NewSetsEmpty' /\ OneOpenAttempt'
      BY <3>2, <3>3 DEF AttemptInv, OneProcessPerSet, JobScoped, NewSetsEmpty,
         CapFilesOf, OneOpenAttempt, SameCohort
    <3>9. FilesOrdered' /\ NoConflictingResolution'
      BY <3>1, <3>2 DEF AttemptInv, FilesOrdered, NoConflictingResolution
    <3>10. AttemptOpen'
      BY <3>2, <3>3, <3>5 DEF AttemptInv, AttemptOpen, AttemptLabels, BuildLabels, k
    <3>11. CleanupTargetOpen'
      BY <3>2, <3>3, <3>5, <3>6, <3>7
         DEF AttemptInv, CleanupTargetOpen, CompletionsOf
    <3> QED
      BY <3>8, <3>9, <3>10, <3>11 DEF AttemptInv
  <2> QED
    BY <2>1, <2>2
<1>22. CASE WriteReceipt(p)
  BY <1>22, RunningJob
     DEF WriteReceipt, TypeOK, AttemptInv, OneProcessPerSet, JobScoped, FilesOrdered,
         NewSetsEmpty, CapFilesOf, AttemptOpen, AttemptLabels, BuildLabels,
         CleanupTargetOpen, CompletionsOf, OneOpenAttempt, SameCohort,
         NoConflictingResolution
<1>23. CASE CaptureCleanupCapacity(p)
  <2> DEFINE k == job[p].cap
             s == job[p].set
  <2>1. k \in Caps /\ s \in Sets
    BY <1>23, RunningJob DEF CaptureCleanupCapacity
  <2>2. scope[k].set = s /\ scope[k] # NoScope
    BY <1>23, JobScope DEF CaptureCleanupCapacity
  <2>3. /\ capFiles' = capFiles \cup {k} /\ pc[p] = "ccapture"
        /\ pc' = [pc EXCEPT ![p] = "cuntag"]
        /\ UNCHANGED <<scope, intent, owner, completed, cleaned, receipt, setSrc,
                       job, run>>
    BY <1>23 DEF CaptureCleanupCapacity
  <2>4. \A q \in Procs : pc'[q] = IF q = p THEN "cuntag" ELSE pc[q]
    BY <2>3 DEF TypeOK
  <2>5. setSrc[s] # Absent /\ \A q \in Procs : pc'[q] = "manifest" => job[q].set # s
    BY <2>3, <2>4 DEF AttemptInv, OneProcessPerSet, NewSetsEmpty, s
  <2> HIDE DEF k, s
  <2>6. OneProcessPerSet' /\ JobScoped'
    BY <2>3, <2>4 DEF AttemptInv, OneProcessPerSet, JobScoped
  <2>7. FilesOrdered' /\ OneOpenAttempt' /\ NoConflictingResolution'
    BY <2>2, <2>3 DEF AttemptInv, FilesOrdered, OneOpenAttempt, SameCohort,
       NoConflictingResolution
  <2>8. NewSetsEmpty'
    BY <2>2, <2>3, <2>4, <2>5 DEF AttemptInv, NewSetsEmpty, CapFilesOf
  <2>9. AttemptOpen'
    BY <2>3, <2>4 DEF AttemptInv, AttemptOpen, AttemptLabels, BuildLabels
  <2>10. CleanupTargetOpen'
    BY <2>3, <2>4 DEF AttemptInv, CleanupTargetOpen, CompletionsOf
  <2> QED
    BY <2>6, <2>7, <2>8, <2>9, <2>10 DEF AttemptInv
<1>24. CASE RemoveTargetTag(p)
  <2>1. job[p].target # NoCap
    BY <1>24 DEF RemoveTargetTag, AttemptInv, CleanupTargetOpen
  <2> QED
    BY <1>24, <2>1, MoveInv DEF RemoveTargetTag, attemptVars, Labels, AttemptLabels,
       CleanupLabels, BuildLabels
<1>25. CASE ReadBackCleanup(p)
  <2>1. job[p].target # NoCap
    BY <1>25 DEF ReadBackCleanup, AttemptInv, CleanupTargetOpen
  <2> QED
    BY <1>25, <2>1, MoveInv DEF ReadBackCleanup, attemptVars, Labels, AttemptLabels,
       CleanupLabels, BuildLabels, WriteLabels
<1>26. CASE WriteCleanup(p)
  <2> DEFINE t == job[p].target
  <2>1. /\ t \in intent \ completed /\ scope[t].set = job[p].set /\ t \in Caps
        /\ job[p].cap \in Caps /\ job[p].cap # NoCap
    BY <1>26, RunningJob, QualificationConstants
       DEF WriteCleanup, AttemptInv, CleanupTargetOpen, TypeOK
  <2>2. /\ cleaned' = [cleaned EXCEPT ![t] = job[p].cap] /\ pc[p] = "cwrite"
        /\ pc' = [pc EXCEPT ![p] = "teardown"]
        /\ UNCHANGED <<scope, capFiles, intent, owner, completed, receipt, setSrc,
                       job, run>>
    BY <1>26 DEF WriteCleanup
  <2>3. \A q \in Procs : pc'[q] = IF q = p THEN "teardown" ELSE pc[q]
    BY <2>2 DEF TypeOK
  <2>4. \A k \in Caps : cleaned'[k] = IF k = t THEN job[p].cap ELSE cleaned[k]
    BY <2>1, <2>2 DEF TypeOK
  <2>5. \A q \in Procs : q # p /\ pc[q] # "idle" => job[q].cap # t
    BY <2>1, <2>2, JobScope DEF AttemptInv, OneProcessPerSet
  <2>6. \A q \in Procs : pc[q] # "idle" => job[q].cap \in Caps
    BY RunningJob
  <2> HIDE DEF t
  <2>7. OneProcessPerSet' /\ JobScoped' /\ NewSetsEmpty'
    BY <2>2, <2>3 DEF AttemptInv, OneProcessPerSet, JobScoped, NewSetsEmpty, CapFilesOf
  <2>8. FilesOrdered' /\ NoConflictingResolution' /\ OneOpenAttempt'
    BY <2>1, <2>2, <2>4 DEF AttemptInv, FilesOrdered, NoConflictingResolution,
       OneOpenAttempt, SameCohort, TypeOK
  <2>9. AttemptOpen'
    BY <2>1, <2>2, <2>3, <2>4, <2>5, <2>6
       DEF AttemptInv, AttemptOpen, AttemptLabels, BuildLabels, TypeOK
  <2>10. CleanupTargetOpen'
    BY <2>2, <2>3 DEF AttemptInv, CleanupTargetOpen, CompletionsOf
  <2> QED
    BY <2>7, <2>8, <2>9, <2>10 DEF AttemptInv
<1>27. CASE StepFails(p)
  <2>1. pc[p] # "idle" /\ pc[p] # "manifest" /\ pc[p] # "open" /\ Unwind(p)
    BY <1>27 DEF StepFails, FailLabels, BuildLabels
  <2> QED
    BY <1>27, <2>1, UnwindInv DEF StepFails, attemptVars
<1>28. CASE Teardown(p)
  BY <1>28, ReturnInv DEF Teardown, attemptVars
<1> QED
  BY <1>1, <1>2, <1>3, <1>4, <1>5, <1>6, <1>7, <1>8, <1>9, <1>10, <1>11, <1>12,
     <1>13, <1>14, <1>15, <1>16, <1>17, <1>18, <1>19, <1>20, <1>21, <1>22, <1>23,
     <1>24, <1>25, <1>26, <1>27, <1>28 DEF Advance

\* The attempt invariant holds of every behaviour of the qualifier.
THEOREM AttemptInvariant == Spec => []AttemptInv
<1>1. Init => AttemptInv
  BY QualificationConstants
     DEF Init, NoJob, AttemptInv, OneProcessPerSet, JobScoped, FilesOrdered,
         NewSetsEmpty, CapFilesOf, AttemptOpen, AttemptLabels, BuildLabels,
         CleanupTargetOpen, CompletionsOf, OneOpenAttempt, NoConflictingResolution
<1>2. TypeOK /\ TypeOK' /\ AttemptInv /\ [Next]_vars => AttemptInv'
  <2> SUFFICES ASSUME TypeOK, TypeOK', AttemptInv, [Next]_vars PROVE AttemptInv'
    OBVIOUS
  <2> USE DEF envVars, fileVars, dockerVars, tmpVars
  <2>1. CASE UNCHANGED <<setSrc, attemptVars, pc, job, run>>
    BY <2>1 DEF attemptVars, AttemptInv, OneProcessPerSet, JobScoped, FilesOrdered,
       NewSetsEmpty, CapFilesOf, AttemptOpen, CleanupTargetOpen, CompletionsOf,
       OneOpenAttempt, SameCohort, NoConflictingResolution
  <2>2. CASE SourceChanges
    BY <2>1, <2>2 DEF SourceChanges, attemptVars
  <2>3. CASE \E k \in Caps : CapacityExpires(k)
    BY <2>1, <2>3 DEF CapacityExpires, attemptVars
  <2>4. CASE \E p \in Procs : Advance(p)
    BY <2>4, AdvanceInv
  <2>5. ASSUME NEW p \in Procs, WriteFails(p) PROVE AttemptInv'
    <3>1. pc[p] # "idle" /\ pc[p] # "open" /\ Unwind(p)
      BY <2>5 DEF WriteFails, Torn, WriteLabels
    <3> QED
      BY <2>5, <3>1, UnwindInv DEF WriteFails, Torn, attemptVars
  <2>6. ASSUME NEW p \in Procs, Crash(p) PROVE AttemptInv'
    BY <2>6, ReturnInv DEF Crash, Torn, attemptVars
  <2>7. ASSUME NEW p \in Procs, NEW s \in Sets, NEW c \in Cohorts,
               NEW op \in Operations, NEW k \in Caps, Invoke(p, s, c, op, k)
        PROVE  AttemptInv'
    <3> DEFINE sc == [set |-> s, cohort |-> c, op |-> op]
               j == [set |-> s, cohort |-> c, op |-> op, cap |-> k, target |-> NoCap]
    <3>1. /\ scope' = [scope EXCEPT ![k] = sc] /\ job' = [job EXCEPT ![p] = j]
          /\ pc[p] = "idle" /\ pc' = [pc EXCEPT ![p] = "open"]
          /\ scope[k] \in {NoScope, sc}
          /\ \A q \in Procs : pc[q] # "idle" => job[q].set # s
          /\ UNCHANGED <<setSrc, capFiles, intent, owner, completed, cleaned, receipt>>
          /\ run' = [run EXCEPT ![p] = NoRun]
      BY <2>7 DEF Invoke, Goto
    <3>2. sc # NoScope
      BY DEF NoScope, Operations
    <3>3. /\ \A q \in Procs : pc'[q] = IF q = p THEN "open" ELSE pc[q]
          /\ \A q \in Procs : q # p => job'[q] = job[q] /\ run'[q] = run[q]
          /\ job'[p] = j
      BY <3>1 DEF TypeOK
    <3>4. \A a \in Caps : a # k => scope'[a] = scope[a]
      BY <3>1 DEF TypeOK
    <3>5. scope'[k] = sc
      BY <3>1 DEF TypeOK
    <3>6. \A a \in capFiles : scope'[a] = scope[a]
      BY <3>1, <3>4, <3>5 DEF TypeOK, AttemptInv, FilesOrdered
    <3>7. /\ j.set = s /\ j.cohort = c /\ j.op = op /\ j.cap = k /\ j.target = NoCap
      OBVIOUS
    <3>8. \A q \in Procs : pc[q] # "idle" => job[q].cap # k
      BY <3>1, JobScope
    <3>9. \A q \in Procs : pc[q] # "idle" => job[q].cap \in Caps
      BY RunningJob
    <3> HIDE DEF sc, j
    <3>10. OneProcessPerSet'
      BY <3>1, <3>3, <3>7 DEF AttemptInv, OneProcessPerSet
    <3>11. JobScoped'
      <4>1. scope'[job'[p].cap] = [set |-> job'[p].set, cohort |-> job'[p].cohort,
                                   op |-> job'[p].op]
        BY <3>3, <3>5, <3>7 DEF sc
      <4> QED
        BY <3>3, <3>4, <3>8, <3>9, <4>1 DEF AttemptInv, JobScoped
    <3>12. FilesOrdered' /\ NoConflictingResolution'
      BY <3>1, <3>6 DEF AttemptInv, FilesOrdered, NoConflictingResolution
    <3>13. OneOpenAttempt'
      BY <3>1, <3>6 DEF AttemptInv, FilesOrdered, OneOpenAttempt, SameCohort
    <3>14. NewSetsEmpty'
      BY <3>1, <3>3, <3>6 DEF AttemptInv, NewSetsEmpty, CapFilesOf
    <3>15. AttemptOpen'
      BY <3>1, <3>3, <3>6 DEF AttemptInv, FilesOrdered, AttemptOpen, AttemptLabels,
         BuildLabels
    <3>16. CleanupTargetOpen'
      BY <3>1, <3>3, <3>6, <3>7 DEF AttemptInv, FilesOrdered, CleanupTargetOpen,
         CompletionsOf
    <3> QED
      BY <3>10, <3>11, <3>12, <3>13, <3>14, <3>15, <3>16 DEF AttemptInv
  <2>8. CASE UNCHANGED vars
    BY <2>1, <2>8 DEF vars, attemptVars
  <2> QED
    BY <2>2, <2>3, <2>4, <2>5, <2>6, <2>7, <2>8 DEF Next
<1> QED
  BY <1>1, <1>2, TypeCorrect, PTL DEF Spec

-----------------------------------------------------------------------------
\* At most one attempt on a cohort of a set is not cleaned up: a retry waits
\* for the cleanup of the interrupted attempt, however processes interleave,
\* fail or are killed.
THEOREM OneOpenAttemptHolds == Spec => []OneOpenAttempt
<1>1. AttemptInv => OneOpenAttempt
  BY DEF AttemptInv
<1> QED
  BY <1>1, AttemptInvariant, PTL

\* No attempt is both completed and cleaned up.
THEOREM NoConflictingResolutionHolds == Spec => []NoConflictingResolution
<1>1. AttemptInv => NoConflictingResolution
  BY DEF AttemptInv
<1> QED
  BY <1>1, AttemptInvariant, PTL

\* The final tag of a cohort moves only under an open attempt whose ownership
\* receipt is on disk.
THEOREM FinalTagAuthorizedHolds == Spec => FinalTagAuthorized
<1> DEFINE Authorized ==
      \A c \in Cohorts : finalTag'[c] # finalTag[c] =>
          \E k \in intent \ completed :
             scope[k].cohort = c /\ owner[k] # NoImage /\ cleaned[k] = NoCap
<1>1. TypeOK /\ AttemptInv /\ [Next]_vars => [Authorized]_vars
  <2> SUFFICES ASSUME TypeOK, AttemptInv, Next PROVE Authorized
    OBVIOUS
  <2>1. CASE finalTag' = finalTag
    BY <2>1
  <2>2. ASSUME NEW p \in Procs, NEW ok \in BOOLEAN, LoadSecond(p, ok)
        PROVE  Authorized
    <3>1. /\ job[p].cap \in intent \ completed /\ cleaned[job[p].cap] = NoCap
          /\ owner[job[p].cap] # NoImage
      BY <2>2 DEF LoadSecond, AttemptInv, AttemptOpen, AttemptLabels, BuildLabels
    <3>2. scope[job[p].cap].cohort = job[p].cohort
      BY <2>2, JobScope DEF LoadSecond
    <3>3. \A c \in Cohorts : finalTag'[c] # finalTag[c] => c = job[p].cohort
      BY <2>2 DEF LoadSecond, TypeOK
    <3> QED
      BY <3>1, <3>2, <3>3
  <2>3. CASE \A p \in Procs, ok \in BOOLEAN : ~LoadSecond(p, ok)
    <3> USE DEF dockerVars
    <3>1. ASSUME NEW p \in Procs, Advance(p) PROVE finalTag' = finalTag
      <4>1. \A b \in Builds, ok \in BOOLEAN :
               /\ BuildFirst(p, b, ok) => UNCHANGED finalTag
               /\ BuildSecond(p, b, ok) => UNCHANGED finalTag
        BY DEF BuildFirst, BuildSecond
      <4>2. /\ CreateSet(p) \/ WriteManifest(p) \/ AbandonSet(p) \/ OpenSet(p)
                  => UNCHANGED finalTag
            /\ AdmitQualification(p) \/ AdmitCleanup(p) \/ SnapshotTools(p)
                  \/ SnapshotRefused(p) => UNCHANGED finalTag
        BY DEF CreateSet, WriteManifest, AbandonSet, OpenSet, AdmitQualification,
           AdmitCleanup, SnapshotTools, SnapshotRefused
      <4>3. Probe(p) \/ CaptureCapacity(p) \/ WriteIntent(p) \/ WriteOwnership(p)
               \/ CompareImages(p) \/ SweepOutputs(p) \/ RemoveTemporaryTag(p)
               \/ WriteReceipt(p) => UNCHANGED finalTag
        BY DEF Probe, CaptureCapacity, WriteIntent, WriteOwnership, CompareImages,
           SweepOutputs, RemoveTemporaryTag, WriteReceipt
      <4>4. CaptureCleanupCapacity(p) \/ RemoveTargetTag(p) \/ ReadBackCleanup(p)
               \/ WriteCleanup(p) \/ StepFails(p) \/ Teardown(p) => UNCHANGED finalTag
        BY DEF CaptureCleanupCapacity, RemoveTargetTag, ReadBackCleanup, WriteCleanup,
           StepFails, Teardown
      <4>5. \A whole \in BOOLEAN : /\ ValidatePayload(p, whole) => UNCHANGED finalTag
                                   /\ WriteCompletion(p, whole) => UNCHANGED finalTag
                                   /\ LoadFirst(p, whole) => UNCHANGED finalTag
        BY DEF ValidatePayload, WriteCompletion, LoadFirst
      <4> QED
        BY <2>3, <3>1, <4>1, <4>2, <4>3, <4>4, <4>5 DEF Advance
    <3>2. ASSUME NEW p \in Procs, WriteFails(p) \/ Crash(p) PROVE finalTag' = finalTag
      BY <3>2 DEF WriteFails, Crash
    <3>3. \A p \in Procs, s \in Sets, c \in Cohorts, op \in Operations, k \in Caps :
             Invoke(p, s, c, op, k) => finalTag' = finalTag
      BY DEF Invoke
    <3>4. SourceChanges \/ (\E k \in Caps : CapacityExpires(k)) => finalTag' = finalTag
      BY DEF SourceChanges, CapacityExpires
    <3>5. finalTag' = finalTag
      BY <3>1, <3>2, <3>3, <3>4 DEF Next
    <3> QED
      BY <2>1, <3>5
  <2> QED
    BY <2>2, <2>3
<1> QED
  BY <1>1, TypeCorrect, AttemptInvariant, PTL DEF Spec, FinalTagAuthorized

-----------------------------------------------------------------------------
\* A step of one process: what it does to the others' processes and to the
\* files of the other sets is nothing.
Undisturbed(p) ==
    /\ UNCHANGED <<src, scope>>
    /\ \A q \in Procs : q # p => pc'[q] = pc[q] /\ job'[q] = job[q] /\ run'[q] = run[q]
    /\ \A s \in Sets : s # job[p].set => setSrc'[s] = setSrc[s] /\ receipt'[s] = receipt[s]
    /\ \A k \in Caps : scope[k].set # job[p].set =>
          /\ owner'[k] = owner[k] /\ cleaned'[k] = cleaned[k]
          /\ k \in completed' <=> k \in completed
    /\ capFiles \subseteq capFiles' /\ intent \subseteq intent'
    /\ completed \subseteq completed'

\* An invocation that returns or unwinds leaves the other processes where they are.
LEMMA ReturnFrame ==
    ASSUME TypeOK, NEW p \in Procs, Return(p) \/ Unwind(p)
    PROVE  \A q \in Procs : q # p => pc'[q] = pc[q] /\ job'[q] = job[q] /\ run'[q] = run[q]
BY DEF TypeOK, Return, Unwind, Goto

\* The processes share no receipt set: a step leaves the state of the other
\* processes and of the other sets as it is.
LEMMA StepFrame ==
    ASSUME TypeOK, AttemptInv, NEW p \in Procs,
           Advance(p) \/ WriteFails(p) \/ Crash(p)
    PROVE  pc[p] # "idle" /\ Undisturbed(p)
<1> USE DEF envVars, fileVars, dockerVars, tmpVars, Goto, TypeOK
<1>1. pc[p] # "idle"
  BY DEF Advance, WriteFails, Crash, Torn, WriteLabels, CreateSet, WriteManifest, AbandonSet, OpenSet,
     AdmitQualification, AdmitCleanup, SnapshotTools, SnapshotRefused, Probe, CaptureCapacity, WriteIntent,
     BuildFirst, LoadFirst, BuildSecond, WriteOwnership, LoadSecond, CompareImages, SweepOutputs,
     RemoveTemporaryTag, ValidatePayload, WriteCompletion, WriteReceipt, CaptureCleanupCapacity,
     RemoveTargetTag, ReadBackCleanup, WriteCleanup, StepFails, FailLabels, BuildLabels, Teardown
<1>2. /\ job[p].set \in Sets /\ job[p].cap \in Caps
      /\ scope[job[p].cap].set = job[p].set
      /\ job[p].target # NoCap => scope[job[p].target].set = job[p].set
  BY <1>1, RunningJob, JobScope DEF AttemptInv, CleanupTargetOpen
<1>3. CASE CreateSet(p) \/ WriteManifest(p) \/ AbandonSet(p) \/ OpenSet(p)
  BY <1>2, <1>3, ReturnFrame DEF CreateSet, WriteManifest, AbandonSet, OpenSet, Undisturbed
<1>4. CASE AdmitQualification(p) \/ AdmitCleanup(p) \/ SnapshotTools(p) \/ SnapshotRefused(p)
  BY <1>2, <1>4, ReturnFrame DEF AdmitQualification, AdmitCleanup, SnapshotTools, SnapshotRefused, Undisturbed
<1>5. CASE Probe(p) \/ CaptureCapacity(p) \/ WriteIntent(p) \/ WriteOwnership(p)
  BY <1>2, <1>5 DEF Probe, CaptureCapacity, WriteIntent, WriteOwnership, Undisturbed
<1>6. ASSUME NEW b \in Builds, NEW ok \in BOOLEAN,
             BuildFirst(p, b, ok) \/ BuildSecond(p, b, ok)
      PROVE  Undisturbed(p)
  BY <1>2, <1>6 DEF BuildFirst, BuildSecond, Undisturbed
<1>11. ASSUME NEW ok \in BOOLEAN, LoadFirst(p, ok) \/ LoadSecond(p, ok)
       PROVE  Undisturbed(p)
  BY <1>2, <1>11 DEF LoadFirst, LoadSecond, Undisturbed
<1>7. CASE CompareImages(p) \/ SweepOutputs(p) \/ RemoveTemporaryTag(p) \/ WriteReceipt(p)
  BY <1>2, <1>7 DEF CompareImages, SweepOutputs, RemoveTemporaryTag, WriteReceipt, Undisturbed
<1>8. ASSUME NEW b \in BOOLEAN, ValidatePayload(p, b) \/ WriteCompletion(p, b)
      PROVE  Undisturbed(p)
  BY <1>2, <1>8 DEF ValidatePayload, WriteCompletion, Undisturbed
<1>9. CASE CaptureCleanupCapacity(p) \/ RemoveTargetTag(p) \/ ReadBackCleanup(p) \/ WriteCleanup(p)
  <2>1. WriteCleanup(p) => job[p].target # NoCap
    BY DEF WriteCleanup, AttemptInv, CleanupTargetOpen
  <2> QED
    BY <1>2, <1>9, <2>1 DEF CaptureCleanupCapacity, RemoveTargetTag, ReadBackCleanup, WriteCleanup, Undisturbed
<1>10. CASE StepFails(p) \/ Teardown(p) \/ WriteFails(p) \/ Crash(p)
  <2>1. \A q \in Procs : q # p => pc'[q] = pc[q] /\ job'[q] = job[q] /\ run'[q] = run[q]
    BY <1>10, ReturnFrame DEF StepFails, Teardown, WriteFails, Crash
  <2>2. /\ UNCHANGED <<src, scope, receipt, owner, cleaned, completed, capFiles, intent>>
        /\ setSrc' = setSrc \/ setSrc' = [setSrc EXCEPT ![job[p].set] = Broken]
    <3>1. CASE StepFails(p) \/ Teardown(p)
      BY <3>1 DEF StepFails, Teardown
    <3>2. CASE WriteFails(p)
      BY <3>2 DEF WriteFails, Torn
    <3>3. CASE Crash(p)
      BY <3>3 DEF Crash, Torn
    <3> QED
      BY <1>10, <3>1, <3>2, <3>3
  <2>3. \A s \in Sets : s # job[p].set => setSrc'[s] = setSrc[s]
    BY <2>2
  <2> HIDE DEF TypeOK
  <2> QED
    BY <1>1, <2>1, <2>2, <2>3 DEF Undisturbed
<1> HIDE DEF envVars, fileVars, dockerVars, tmpVars, Goto, TypeOK
<1> QED
  BY <1>1, <1>3, <1>4, <1>5, <1>6, <1>7, <1>8, <1>9, <1>10, <1>11 DEF Advance

\* What another process's step leaves true of a process.
LEMMA BuildsAgreeOthers ==
    ASSUME TypeOK, AttemptInv, NEW p \in Procs, pc[p] # "idle", Undisturbed(p),
           NEW q \in Procs, q # p, BuildsAgree(q)
    PROVE  BuildsAgree(q)'
<1>1. pc'[q] = pc[q] /\ job'[q] = job[q] /\ run'[q] = run[q]
  BY DEF Undisturbed
<1>2. CASE pc[q] = "idle"
  <2>1. ~run[q].ok
    BY <1>2 DEF BuildsAgree
  <2> QED
    BY <1>1, <1>2, <2>1 DEF BuildsAgree
<1>3. CASE pc[q] # "idle"
  <2>1. job[q].cap \in Caps /\ scope[job[q].cap].set # job[p].set
    BY <1>3, RunningJob, JobScope DEF AttemptInv, OneProcessPerSet
  <2>2. /\ owner'[job[q].cap] = owner[job[q].cap]
        /\ job[q].cap \in completed' <=> job[q].cap \in completed
        /\ capFiles \subseteq capFiles'
    BY <2>1 DEF Undisturbed
  <2> QED
    BY <1>1, <2>2 DEF BuildsAgree
<1> QED
  BY <1>2, <1>3

\* A process that has not built, or gives up, has nothing to agree on.
LEMMA NothingBuilt ==
    ASSUME NEW p \in Procs,
           \/ pc'[p] = "idle" /\ ~run'[p].ok
           \/ /\ pc'[p] \in Labels \ {"load2", "compare", "validate", "complete", "receipt",
                                      "cuntag", "cread", "cwrite"}
              /\ ~run'[p].ok \/ pc'[p] = "teardown"
    PROVE  BuildsAgree(p)'
BY DEF BuildsAgree

\* Receipts, completions and cleanups stay what they are while the files that
\* hold them do.
LEMMA ResolutionsKept ==
    ASSUME TypeOK, AttemptInv, ReceiptInv, UNCHANGED <<scope, owner, completed, cleaned, receipt>>,
           capFiles \subseteq capFiles'
    PROVE  ResolutionsFiled' /\ ReceiptRepeatable'
BY DEF ReceiptInv, ResolutionsFiled, ReceiptRepeatable, TypeOK

\* The actions of a running process keep the evidence behind the receipts.
LEMMA ReceiptAdvance ==
    ASSUME TypeOK, TypeOK', AttemptInv, ReceiptInv, NEW p \in Procs, Advance(p)
    PROVE  BuildsAgree(p)' /\ ResolutionsFiled' /\ ReceiptRepeatable'
<1> USE DEF envVars, fileVars, dockerVars, tmpVars, Goto
<1>0. /\ BuildsAgree(p) /\ run[p] \in Runs /\ NoRun.ok = FALSE
      /\ \A l : (pc' = [pc EXCEPT ![p] = l]) => pc'[p] = l
      /\ \A r : (run' = [run EXCEPT ![p] = r]) => run'[p] = r
      /\ \A j : (job' = [job EXCEPT ![p] = j]) => job'[p] = j
  BY DEF ReceiptInv, TypeOK, NoRun
<1>r. Return(p) => BuildsAgree(p)'
  BY <1>0, NothingBuilt DEF Return
<1>1. CASE CreateSet(p)
  <2>1. run' = [run EXCEPT ![p] = [run[p] EXCEPT !.bound = src]]
    BY <1>1 DEF CreateSet
  <2>2. ~run[p].ok
    BY <1>0, <1>1 DEF CreateSet, BuildsAgree
  <2>3. ~run'[p].ok
    BY <1>0, <2>1, <2>2 DEF Runs
  <2> QED
    BY <1>0, <1>1, <2>3, NothingBuilt, ResolutionsKept DEF CreateSet, Labels, WriteLabels
<1>2. CASE WriteManifest(p) \/ AbandonSet(p) \/ OpenSet(p) \/ AdmitQualification(p)
  <2>1. \/ Return(p)
        \/ pc'[p] \in {"admit", "snapshot"} /\ UNCHANGED run /\ ~run[p].ok
    BY <1>0, <1>2 DEF WriteManifest, AbandonSet, OpenSet, AdmitQualification, BuildsAgree
  <2>2. BuildsAgree(p)'
    BY <1>r, <2>1, NothingBuilt DEF Labels
  <2> QED
    BY <1>2, <2>2, ResolutionsKept DEF WriteManifest, AbandonSet, OpenSet, AdmitQualification
<1>3. CASE AdmitCleanup(p)
  <2>1. ~run[p].ok /\ (Return(p) \/ (pc'[p] = "snapshot" /\ UNCHANGED run))
    BY <1>0, <1>3 DEF AdmitCleanup, BuildsAgree
  <2>2. BuildsAgree(p)'
    BY <1>r, <2>1, NothingBuilt DEF Labels
  <2>3. UNCHANGED <<scope, owner, completed, cleaned, receipt, capFiles>>
    BY <1>3 DEF AdmitCleanup
  <2> QED
    BY <2>2, <2>3, ResolutionsKept
<1>4. CASE SnapshotTools(p) \/ SnapshotRefused(p) \/ Teardown(p)
  BY <1>0, <1>r, <1>4, NothingBuilt, ResolutionsKept
     DEF SnapshotTools, SnapshotRefused, Teardown, Labels, WriteLabels, BuildsAgree
<1>5. CASE Probe(p)
  <2>1. run' = [run EXCEPT ![p] = [run[p] EXCEPT !.prev = finalTag[job[p].cohort]]]
    BY <1>5 DEF Probe
  <2>2. ~run[p].ok
    BY <1>0, <1>5 DEF Probe, BuildsAgree
  <2>3. ~run'[p].ok
    BY <1>0, <2>1, <2>2 DEF Runs
  <2> QED
    BY <1>0, <1>5, <2>3, NothingBuilt, ResolutionsKept DEF Probe, Labels, WriteLabels
<1>6. CASE CaptureCapacity(p) \/ WriteIntent(p)
  BY <1>0, <1>6, NothingBuilt, ResolutionsKept
     DEF CaptureCapacity, WriteIntent, Labels, WriteLabels, BuildLabels, BuildsAgree
<1>7. ASSUME NEW b \in Builds, NEW ok \in BOOLEAN, BuildFirst(p, b, ok) \/ BuildSecond(p, b, ok)
      PROVE  BuildsAgree(p)' /\ ResolutionsFiled' /\ ReceiptRepeatable'
  <2>1. /\ pc[p] \in {"build1", "build2"} /\ run' = run
        /\ \E l \in {"load1", "own", "sweep"} : pc' = [pc EXCEPT ![p] = l]
        /\ UNCHANGED <<scope, owner, completed, cleaned, receipt, capFiles>>
    BY <1>7 DEF BuildFirst, BuildSecond
  <2>2. ~run'[p].ok /\ pc'[p] \in {"load1", "own", "sweep"}
    BY <1>0, <2>1 DEF BuildsAgree
  <2>3. BuildsAgree(p)'
    BY <2>2, NothingBuilt DEF Labels, BuildLabels
  <2> QED
    BY <2>1, <2>3, ResolutionsKept
<1>8. ASSUME NEW ok \in BOOLEAN, LoadFirst(p, ok)
      PROVE  BuildsAgree(p)' /\ ResolutionsFiled' /\ ReceiptRepeatable'
  <2>1. run' = [run EXCEPT ![p] = [run[p] EXCEPT !.first = tempTag'[job[p].cap]]]
    BY <1>8 DEF LoadFirst
  <2>2. ~run[p].ok
    BY <1>0, <1>8 DEF LoadFirst, BuildsAgree
  <2>3. ~run'[p].ok
    BY <1>0, <2>1, <2>2 DEF Runs
  <2>4. pc'[p] \in {"build2", "sweep"}
    BY <1>0, <1>8 DEF LoadFirst
  <2> QED
    BY <1>8, <2>3, <2>4, NothingBuilt, ResolutionsKept DEF LoadFirst, Labels, BuildLabels
<1>9. CASE WriteOwnership(p)
  <2> DEFINE k == job[p].cap
  <2>1. /\ owner' = [owner EXCEPT ![k] = run[p].first] /\ pc[p] = "own" /\ pc'[p] = "load2"
        /\ UNCHANGED <<scope, completed, cleaned, receipt, capFiles, job, run>>
    BY <1>0, <1>9 DEF WriteOwnership
  <2>2. k \in Caps /\ k \notin completed
    BY <2>1, RunningJob DEF AttemptInv, AttemptOpen, AttemptLabels, BuildLabels
  <2>3. owner'[k] = run[p].first /\ \A a \in Caps : a # k => owner'[a] = owner[a]
    BY <2>1, <2>2 DEF TypeOK
  <2>4. BuildsAgree(p)'
    BY <1>0, <2>1, <2>3 DEF BuildsAgree
  <2>5. ResolutionsFiled' /\ ReceiptRepeatable'
    BY <2>1, <2>2, <2>3 DEF ReceiptInv, ResolutionsFiled, ReceiptRepeatable, TypeOK
  <2> QED
    BY <2>4, <2>5
<1>10. ASSUME NEW ok \in BOOLEAN, LoadSecond(p, ok)
       PROVE  BuildsAgree(p)' /\ ResolutionsFiled' /\ ReceiptRepeatable'
  <2>1. BuildsAgree(p)'
    BY <1>0, <1>10 DEF LoadSecond, BuildsAgree
  <2> QED
    BY <1>10, <2>1, ResolutionsKept DEF LoadSecond
<1>11. CASE CompareImages(p)
  <2> DEFINE seen == finalTag[job[p].cohort]
             same == seen = run[p].first
  <2>0. same \in BOOLEAN
    OBVIOUS
  <2>1. run' = [run EXCEPT ![p] = [run[p] EXCEPT !.second = seen, !.ok = same]]
    BY <1>11 DEF CompareImages
  <2> HIDE DEF same
  <2>5. run'[p].second = seen /\ run'[p].ok = same
    <3>1. \A r \in Runs : \A i, b :
              /\ [r EXCEPT !.second = i, !.ok = b].second = i
              /\ [r EXCEPT !.second = i, !.ok = b].ok = b
      BY DEF Runs
    <3>2. run'[p] = [run[p] EXCEPT !.second = seen, !.ok = same]
      BY <1>0, <2>1
    <3> HIDE DEF seen
    <3> QED
      BY <1>0, <3>1, <3>2
  <2>2. run'[p].second = seen /\ (run'[p].ok => seen = run[p].first)
    <3>1. CASE seen = run[p].first
      BY <2>5, <3>1
    <3>2. CASE seen # run[p].first
      <4>1. same = FALSE
        BY <3>2 DEF same
      <4>2. run'[p].ok = FALSE
        BY <2>5, <4>1
      <4> QED
        BY <2>5, <4>2
    <3> QED
      BY <3>1, <3>2
  <2>3. owner[job[p].cap] = run[p].first /\ owner[job[p].cap] # NoImage
    BY <1>0, <1>11 DEF CompareImages, BuildsAgree, AttemptInv, AttemptOpen
  <2>4. /\ pc'[p] = "sweep" /\ UNCHANGED <<scope, owner, completed, cleaned, receipt, capFiles, job>>
    BY <1>0, <1>11 DEF CompareImages
  <2>6. BuildsAgree(p)'
    BY <2>2, <2>3, <2>4 DEF BuildsAgree
  <2> QED
    BY <2>4, <2>6, ResolutionsKept
<1>12. CASE SweepOutputs(p) \/ RemoveTemporaryTag(p)
  <2>1. BuildsAgree(p)'
    BY <1>0, <1>12 DEF SweepOutputs, RemoveTemporaryTag, BuildsAgree
  <2> QED
    BY <1>12, <2>1, ResolutionsKept DEF SweepOutputs, RemoveTemporaryTag
<1>13. ASSUME NEW whole \in BOOLEAN, ValidatePayload(p, whole)
       PROVE  BuildsAgree(p)' /\ ResolutionsFiled' /\ ReceiptRepeatable'
  <2>1. BuildsAgree(p)'
    BY <1>0, <1>13 DEF ValidatePayload, BuildsAgree
  <2> QED
    BY <1>13, <2>1, ResolutionsKept DEF ValidatePayload
<1>14. ASSUME NEW valid \in BOOLEAN, WriteCompletion(p, valid)
       PROVE  BuildsAgree(p)' /\ ResolutionsFiled' /\ ReceiptRepeatable'
  <2> DEFINE k == job[p].cap
  <2>1. /\ pc[p] = "complete" /\ pc'[p] = IF valid THEN "receipt" ELSE "teardown"
        /\ completed' = IF valid THEN completed \cup {k} ELSE completed
        /\ UNCHANGED <<scope, owner, cleaned, receipt, capFiles, job, run>>
    BY <1>0, <1>14 DEF WriteCompletion
  <2>2. owner[k] # NoImage
    BY <1>0, <2>1 DEF BuildsAgree
  <2>3. BuildsAgree(p)'
    BY <1>0, <2>1 DEF BuildsAgree
  <2>4. ResolutionsFiled' /\ ReceiptRepeatable'
    BY <2>1, <2>2 DEF ReceiptInv, ResolutionsFiled, ReceiptRepeatable
  <2> QED
    BY <2>3, <2>4
<1>15. CASE WriteReceipt(p)
  <2> DEFINE k == job[p].cap
             s == job[p].set
             c == job[p].cohort
  <2>1. /\ pc[p] = "receipt" /\ pc'[p] = "teardown"
        /\ receipt' = [receipt EXCEPT ![s][c] = run[p].second]
        /\ UNCHANGED <<scope, owner, cleaned, completed, capFiles, job, run>>
    BY <1>0, <1>15 DEF WriteReceipt
  <2>2. k \in completed /\ owner[k] = run[p].second
    BY <1>0, <2>1 DEF BuildsAgree
  <2>3. scope[k].set = s /\ scope[k].cohort = c /\ s \in Sets /\ c \in Cohorts
    BY <2>1, JobScope, RunningJob
  <2>4. \A a \in Sets, d \in Cohorts :
           receipt'[a][d] = IF a = s /\ d = c THEN run[p].second ELSE receipt[a][d]
    BY <2>1, <2>3 DEF TypeOK
  <2> HIDE DEF k, s, c
  <2>5. ReceiptRepeatable'
    BY <2>1, <2>2, <2>3, <2>4 DEF ReceiptInv, ReceiptRepeatable
  <2>6. ResolutionsFiled'
    BY <2>1 DEF ReceiptInv, ResolutionsFiled
  <2>7. BuildsAgree(p)'
    BY <1>0, <2>1 DEF BuildsAgree
  <2> QED
    BY <2>5, <2>6, <2>7
<1>16. CASE CaptureCleanupCapacity(p) \/ RemoveTargetTag(p) \/ ReadBackCleanup(p)
  <2>1. BuildsAgree(p)'
    BY <1>0, <1>16 DEF CaptureCleanupCapacity, RemoveTargetTag, ReadBackCleanup, BuildsAgree
  <2> QED
    BY <1>16, <2>1, ResolutionsKept DEF CaptureCleanupCapacity, RemoveTargetTag, ReadBackCleanup
<1>17. CASE WriteCleanup(p)
  <2> DEFINE t == job[p].target
             k == job[p].cap
  <2>1. /\ cleaned' = [cleaned EXCEPT ![t] = k] /\ pc[p] = "cwrite" /\ pc'[p] = "teardown"
        /\ UNCHANGED <<scope, capFiles, owner, completed, receipt, job, run>>
    BY <1>0, <1>17 DEF WriteCleanup
  <2>2. k \in capFiles
    BY <1>0, <2>1 DEF BuildsAgree
  <2>3. scope[t].set = job[p].set /\ job[p].op = "cleanup" /\ t \in Caps
    BY <2>1 DEF AttemptInv, CleanupTargetOpen, TypeOK
  <2>4. scope[k].set = job[p].set /\ scope[k].op = "cleanup"
    <3>1. scope[k] = [set |-> job[p].set, cohort |-> job[p].cohort, op |-> job[p].op]
      BY <2>1 DEF AttemptInv, JobScoped
    <3> QED
      BY <2>3, <3>1
  <2>5. \A a \in Caps : cleaned'[a] = IF a = t THEN k ELSE cleaned[a]
    BY <2>1, <2>3 DEF TypeOK
  <2> HIDE DEF t, k
  <2>6. ResolutionsFiled' /\ ReceiptRepeatable'
    BY <2>1, <2>2, <2>3, <2>4, <2>5 DEF ReceiptInv, ResolutionsFiled, ReceiptRepeatable
  <2>7. BuildsAgree(p)'
    BY <1>0, <2>1 DEF BuildsAgree
  <2> QED
    BY <2>6, <2>7
<1>18. CASE StepFails(p)
  <2>1. pc[p] # "manifest"
    BY <1>18 DEF StepFails, FailLabels, BuildLabels
  <2>2. run' = [run EXCEPT ![p] = [run[p] EXCEPT !.ok = FALSE]] /\ pc'[p] \in {"sweep", "teardown"}
    BY <1>0, <1>18, <2>1 DEF StepFails, Unwind
  <2>3. ~run'[p].ok
    <3>1. \A r \in Runs : ~[r EXCEPT !.ok = FALSE].ok
      BY DEF Runs
    <3>2. run'[p] = [run[p] EXCEPT !.ok = FALSE]
      BY <1>0, <2>2
    <3> QED
      BY <1>0, <3>1, <3>2
  <2> QED
    BY <1>18, <2>2, <2>3, NothingBuilt, ResolutionsKept DEF StepFails, Labels
<1> QED
  BY <1>1, <1>2, <1>3, <1>4, <1>5, <1>6, <1>7, <1>8, <1>9, <1>10, <1>11, <1>12,
     <1>13, <1>14, <1>15, <1>16, <1>17, <1>18 DEF Advance

\* Every step keeps the evidence behind the receipts.
LEMMA ReceiptStep ==
    ASSUME TypeOK, TypeOK', AttemptInv, ReceiptInv, [Next]_vars
    PROVE  ReceiptInv'
<1> USE DEF envVars, fileVars, dockerVars, tmpVars
<1>1. CASE UNCHANGED <<scope, capFiles, owner, completed, cleaned, receipt, pc, job, run>>
  BY <1>1, ResolutionsKept DEF ReceiptInv, BuildsAgree
<1>2. CASE SourceChanges \/ UNCHANGED vars \/ \E k \in Caps : CapacityExpires(k)
  BY <1>1, <1>2 DEF SourceChanges, CapacityExpires, vars
<1>3. ASSUME NEW p \in Procs, Advance(p) PROVE ReceiptInv'
  <2>1. pc[p] # "idle" /\ Undisturbed(p)
    BY <1>3, StepFrame
  <2>2. \A q \in Procs : q # p => BuildsAgree(q)'
    BY <2>1, BuildsAgreeOthers DEF ReceiptInv
  <2> QED
    BY <1>3, <2>2, ReceiptAdvance DEF ReceiptInv
<1>4. ASSUME NEW p \in Procs, WriteFails(p) \/ Crash(p) PROVE ReceiptInv'
  <2>1. pc[p] # "idle" /\ Undisturbed(p)
    BY <1>4, StepFrame
  <2>2. \A q \in Procs : q # p => BuildsAgree(q)'
    BY <2>1, BuildsAgreeOthers DEF ReceiptInv
  <2>3. Return(p) => BuildsAgree(p)'
    BY NothingBuilt DEF Return, Goto, TypeOK, NoRun
  <2>4. ASSUME WriteFails(p), pc[p] # "manifest" PROVE BuildsAgree(p)'
    <3>1. run' = [run EXCEPT ![p] = [run[p] EXCEPT !.ok = FALSE]]
          /\ pc'[p] \in {"sweep", "teardown"}
      BY <2>4 DEF WriteFails, Unwind, Goto, TypeOK
    <3>2. run[p] \in Runs
      BY DEF TypeOK
    <3>3. ~run'[p].ok
      BY <3>1, <3>2 DEF Runs, TypeOK
    <3> QED
      BY <3>1, <3>3, NothingBuilt DEF Labels
  <2>5. BuildsAgree(p)'
    BY <1>4, <2>3, <2>4 DEF WriteFails, Unwind, Crash
  <2>6. ResolutionsFiled' /\ ReceiptRepeatable'
    BY <1>4, ResolutionsKept DEF WriteFails, Crash
  <2> QED
    BY <2>2, <2>5, <2>6 DEF ReceiptInv
<1>5. ASSUME NEW p \in Procs, NEW s \in Sets, NEW c \in Cohorts,
             NEW op \in Operations, NEW k \in Caps, Invoke(p, s, c, op, k)
      PROVE  ReceiptInv'
  <2>1. /\ scope' = [scope EXCEPT ![k] = [set |-> s, cohort |-> c, op |-> op]]
        /\ scope[k] \in {NoScope, [set |-> s, cohort |-> c, op |-> op]}
        /\ \A q \in Procs : q # p => pc'[q] = pc[q] /\ job'[q] = job[q] /\ run'[q] = run[q]
        /\ pc'[p] = "open" /\ run'[p] = NoRun
        /\ UNCHANGED <<capFiles, owner, completed, cleaned, receipt>>
    BY <1>5 DEF Invoke, Goto, TypeOK
  <2>2. \A a \in capFiles : scope'[a] = scope[a]
    BY <2>1 DEF TypeOK, AttemptInv, FilesOrdered
  <2>3. BuildsAgree(p)'
    BY <2>1, NothingBuilt DEF NoRun, Labels
  <2>4. \A q \in Procs : q # p => BuildsAgree(q)'
    BY <2>1 DEF ReceiptInv, BuildsAgree
  <2>5. completed \subseteq capFiles /\ \A a \in Caps : cleaned[a] # NoCap => a \in capFiles
    BY DEF AttemptInv, FilesOrdered
  <2>6. ResolutionsFiled'
    BY <2>1, <2>2, <2>5 DEF ReceiptInv, ResolutionsFiled
  <2>7. ReceiptRepeatable'
    BY <2>1, <2>2, <2>5 DEF ReceiptInv, ReceiptRepeatable
  <2> QED
    BY <2>3, <2>4, <2>6, <2>7 DEF ReceiptInv
<1> QED
  BY <1>2, <1>3, <1>4, <1>5 DEF Next

\* The evidence behind the receipts is kept by every behaviour.
THEOREM ReceiptInvariant == Spec => []ReceiptInv
<1>1. Init => ReceiptInv
  BY QualificationConstants DEF Init, ReceiptInv, BuildsAgree, ResolutionsFiled, ReceiptRepeatable, NoRun
<1> QED
  BY <1>1, ReceiptStep, TypeCorrect, AttemptInvariant, PTL DEF Spec

\* Whatever a qualification receipt names, both builds of one completed attempt
\* produced it and the attempt's ownership receipt announced it.
THEOREM ReceiptRepeatableHolds == Spec => []ReceiptRepeatable
<1>1. ReceiptInv => ReceiptRepeatable
  BY DEF ReceiptInv
<1> QED
  BY <1>1, ReceiptInvariant, PTL

\* What _validate_set_graph refuses in a readable set is the trace of an
\* interruption: a capacity file nothing refers to or a completion without
\* its receipt.
THEOREM RefusalHasOrphanHolds == Spec => []RefusalHasOrphan
<1>1. TypeOK /\ AttemptInv /\ ReceiptInv => RefusalHasOrphan
  <2> SUFFICES ASSUME TypeOK, AttemptInv, ReceiptInv, NEW s \in Sets,
                      \A k \in CapFilesOf(s) \ intent : \E a \in Caps : cleaned[a] = k,
                      \A k \in CompletionsOf(s) : receipt[s][scope[k].cohort] # NoImage
               PROVE  ValidSetGraph(s)
    BY DEF RefusalHasOrphan
  <2>1. /\ completed \subseteq intent /\ intent \subseteq capFiles /\ capFiles \subseteq Caps
        /\ \A k \in Caps : cleaned[k] # NoCap => k \in intent
        /\ \A k \in completed : cleaned[k] = NoCap
    BY DEF AttemptInv, FilesOrdered, NoConflictingResolution, TypeOK
  <2>2. /\ \A k \in completed : owner[k] # NoImage
        /\ \A k \in Caps : cleaned[k] # NoCap =>
              /\ cleaned[k] \in capFiles
              /\ scope[cleaned[k]].op = "cleanup"
              /\ scope[cleaned[k]].set = scope[k].set
    BY DEF ReceiptInv, ResolutionsFiled
  <2>3. CompletionsOf(s) \cup CleanupsOf(s) \subseteq AttemptsOf(s)
    BY <2>1 DEF CompletionsOf, CleanupsOf, AttemptsOf
  <2>4. CompletionsOf(s) \cap CleanupsOf(s) = {}
    BY <2>1 DEF CompletionsOf, CleanupsOf
  <2>5. \A k \in CompletionsOf(s) : owner[k] # NoImage
    BY <2>2 DEF CompletionsOf
  <2>6. \A k \in CompletionsOf(s) \cup CleanupsOf(s) : AttemptResolved(k)
    BY <2>2 DEF CompletionsOf, CleanupsOf, AttemptResolved
  <2>7. ASSUME NEW c \in Cohorts
        PROVE  LET matching == {k \in CompletionsOf(s) : scope[k].cohort = c}
               IN  IF receipt[s][c] = NoImage
                   THEN matching = {}
                   ELSE \E k \in matching : matching = {k}
    <3> DEFINE matching == {k \in CompletionsOf(s) : scope[k].cohort = c}
    <3>1. receipt[s][c] = NoImage => matching = {}
      OBVIOUS
    <3>2. ASSUME receipt[s][c] # NoImage PROVE \E k \in matching : matching = {k}
      <4>1. PICK k \in completed : scope[k].set = s /\ scope[k].cohort = c
        BY <3>2 DEF ReceiptInv, ReceiptRepeatable
      <4>2. k \in matching
        BY <4>1 DEF CompletionsOf
      <4>3. \A a \in matching : a = k
        BY <2>1, <4>1 DEF CompletionsOf, AttemptInv, OneOpenAttempt, SameCohort
      <4> QED
        BY <4>2, <4>3
    <3> QED
      BY <3>1, <3>2
  <2>8. CapFilesOf(s) = AttemptsOf(s) \cup {cleaned[k] : k \in CleanupsOf(s)}
    <3>1. ASSUME NEW k \in CapFilesOf(s), k \notin intent
          PROVE  k \in {cleaned[a] : a \in CleanupsOf(s)}
      <4>1. PICK a \in Caps : cleaned[a] = k
        BY <3>1
      <4>2. k # NoCap /\ scope[k].set = s
        BY <2>1, <3>1, QualificationConstants DEF CapFilesOf
      <4> QED
        BY <2>2, <4>1, <4>2 DEF CleanupsOf
    <3>2. \A k \in CapFilesOf(s) : k \in intent => k \in AttemptsOf(s)
      BY DEF CapFilesOf, AttemptsOf
    <3>3. AttemptsOf(s) \subseteq CapFilesOf(s)
      BY <2>1 DEF CapFilesOf, AttemptsOf
    <3>4. \A a \in CleanupsOf(s) : cleaned[a] \in CapFilesOf(s)
      BY <2>2 DEF CleanupsOf, CapFilesOf
    <3> QED
      BY <3>1, <3>2, <3>3, <3>4
  <2> QED
    BY <2>3, <2>4, <2>5, <2>6, <2>7, <2>8 DEF ValidSetGraph
<1> QED
  BY <1>1, TypeCorrect, AttemptInvariant, ReceiptInvariant, PTL

-----------------------------------------------------------------------------
\* Every archive and every temporary tag is of an open attempt.
ResidueOpen ==
    /\ \A k \in Caps : tempTag[k] # NoImage => k \in OpenAttempts
    /\ \A o \in tmp : o.by \in OpenAttempts /\ scope[o.by].cohort = o.cohort

\* What a step may do to the archives and the temporary tags: remove some,
\* write archives of the attempt it works on, load a first archive.
ResidueMoves(p) ==
    /\ \A o \in tmp' : o \in tmp \/ o.by = job[p].cap
    /\ \A k \in Caps : \/ tempTag'[k] \in {tempTag[k], NoImage}
                       \/ \E o \in tmp : o.by = k /\ o.file = "first"

\* What another process's step leaves true of a process: it writes files of
\* its own attempt only.
LEMMA ResidueGoneOthers ==
    ASSUME TypeOK, AttemptInv, NEW p \in Procs, pc[p] # "idle", Undisturbed(p),
           ResidueMoves(p), NEW q \in Procs, q # p, ResidueGone(q)
    PROVE  ResidueGone(q)'
<1>1. pc'[q] = pc[q] /\ job'[q] = job[q]
  BY DEF Undisturbed
<1>2. CASE pc[q] = "idle"
  BY <1>1, <1>2 DEF ResidueGone
<1>3. CASE pc[q] # "idle"
  <2>1. /\ job[p].cap \in Caps /\ job[q].cap \in Caps /\ job[q].cap # job[p].cap
        /\ scope[job[p].cap].set = job[p].set /\ job[q].set # job[p].set
    BY <1>3, RunningJob, JobScope DEF AttemptInv, OneProcessPerSet
  <2>2. job[q].target # job[p].cap
    BY <2>1, QualificationConstants DEF AttemptInv, CleanupTargetOpen
  <2>3. pc[q] \in {"cread", "cwrite"} => job[q].target \in Caps
    BY DEF AttemptInv, CleanupTargetOpen, TypeOK
  <2> QED
    BY <1>1, <2>1, <2>2, <2>3 DEF ResidueGone, ResidueMoves
<1> QED
  BY <1>2, <1>3

\* Nothing new is left lying about and no attempt is closed.
LEMMA ResidueKept ==
    ASSUME ResidueOpen, UNCHANGED <<scope, completed, cleaned>>, intent \subseteq intent',
           tmp' \subseteq tmp, \A k \in Caps : tempTag'[k] \in {tempTag[k], NoImage}
    PROVE  ResidueOpen'
BY DEF ResidueOpen, OpenAttempts

\* A process that is elsewhere need not have got rid of anything.
LEMMA NothingToRemove ==
    ASSUME NEW p \in Procs,
           pc'[p] \notin {"untag", "validate", "complete", "snapshot", "ccapture",
                          "cuntag", "cread", "cwrite"}
    PROVE  ResidueGone(p)'
BY DEF ResidueGone

\* The actions of a running process leave residue of open attempts only.
LEMMA ResidueAdvance ==
    ASSUME TypeOK, TypeOK', AttemptInv, ResidueInv, NEW p \in Procs, Advance(p)
    PROVE  ResidueOpen' /\ ResidueGone(p)' /\ ResidueMoves(p)
<1> USE DEF envVars, fileVars, dockerVars, tmpVars, Goto
<1> DEFINE Goal == ResidueOpen' /\ ResidueGone(p)' /\ ResidueMoves(p)
<1>0. /\ ResidueGone(p) /\ ResidueOpen /\ \A o \in tmp : o.by \in Caps
      /\ \A o \in tmp \cup tmp' : o.file \in {"first", "second", "validation"}
      /\ \A c, files : Without(c, files) \subseteq tmp
      /\ \A l : (pc' = [pc EXCEPT ![p] = l]) => pc'[p] = l
      /\ \A j : (job' = [job EXCEPT ![p] = j]) => job'[p] = j
  BY DEF ResidueInv, ResidueOpen, TypeOK, Outputs, OutputFiles, Without
<1>k. /\ pc[p] \in AttemptLabels => job[p].cap \in OpenAttempts
      /\ pc[p] # "idle" => job[p].cap \in Caps /\ scope[job[p].cap].cohort = job[p].cohort
  BY RunningJob, JobScope DEF AttemptInv, AttemptOpen, OpenAttempts
<1>q. ASSUME tmp' \subseteq tmp, UNCHANGED <<tempTag, scope, completed, cleaned>>,
             intent \subseteq intent',
             pc'[p] \notin {"untag", "validate", "complete", "snapshot", "ccapture",
                            "cuntag", "cread", "cwrite"}
      PROVE  Goal
  BY <1>0, <1>q, ResidueKept, NothingToRemove DEF ResidueMoves
<1>1. CASE CreateSet(p) \/ WriteManifest(p) \/ AbandonSet(p) \/ OpenSet(p)
  BY <1>0, <1>q, <1>1 DEF CreateSet, WriteManifest, AbandonSet, OpenSet, Return
<1>2. CASE AdmitQualification(p)
  <2>1. /\ pc'[p] \in {"snapshot", "idle"} /\ pc[p] = "admit"
        /\ UNCHANGED <<tmp, tempTag, scope, completed, cleaned, intent>>
        /\ pc'[p] = "snapshot" => UNCHANGED job
    BY <1>0, <1>2 DEF AdmitQualification, Return
  <2>2. job[p].target = NoCap
    BY <2>1 DEF AttemptInv, CleanupTargetOpen
  <2>3. ResidueGone(p)'
    BY <1>0, <2>1, <2>2, QualificationConstants DEF ResidueGone
  <2> QED
    BY <1>0, <2>1, <2>3, ResidueKept DEF ResidueMoves
<1>3. CASE AdmitCleanup(p)
  <2>1. /\ tmp' \subseteq tmp /\ pc[p] = "admit"
        /\ UNCHANGED <<tempTag, scope, completed, cleaned, intent>>
    BY <1>0, <1>3 DEF AdmitCleanup, RemoveAttemptOutputs
  <2>2. CASE Return(p)
    BY <1>0, <1>q, <2>1, <2>2 DEF Return
  <2>3. CASE ~Return(p)
    <3>1. PICK k \in UnresolvedAttempts(job[p].set, job[p].cohort) :
             job' = [job EXCEPT ![p] = [job[p] EXCEPT !.target = k]]
      BY <1>3, <2>3 DEF AdmitCleanup
    <3>2. pc'[p] = "snapshot" /\ tmp' = Without(job[p].cohort, OutputFiles)
      BY <1>0, <1>3, <2>3 DEF AdmitCleanup, RemoveAttemptOutputs
    <3>3. k \in Caps /\ scope[k].cohort = job[p].cohort
      BY <3>1 DEF UnresolvedAttempts, AttemptsOf, TypeOK
    <3>4. job'[p].target = k
      <4>1. job[p] \in Jobs /\ job'[p] = [job[p] EXCEPT !.target = k]
        BY <1>0, <2>1, <3>1, RunningJob
      <4> QED
        BY <3>3, <4>1, JobTarget
    <3>5. \A o \in tmp' : o.cohort # job[p].cohort
      BY <1>0, <3>2 DEF Without, OutputFiles
    <3>6. ResidueGone(p)'
      BY <1>0, <2>1, <3>2, <3>3, <3>4, <3>5 DEF ResidueGone, ResidueOpen
    <3> QED
      BY <1>0, <2>1, <3>6, ResidueKept DEF ResidueMoves
  <2> QED
    BY <2>2, <2>3
<1>4. CASE SnapshotTools(p)
  <2>1. ResidueGone(p)'
    BY <1>0, <1>4 DEF SnapshotTools, ResidueGone
  <2> QED
    BY <1>0, <1>4, <2>1, ResidueKept DEF SnapshotTools, ResidueMoves
<1>5. CASE SnapshotRefused(p) \/ Teardown(p)
  BY <1>0, <1>q, <1>5 DEF SnapshotRefused, Teardown, Return
<1>6. CASE Probe(p) \/ CaptureCapacity(p) \/ WriteIntent(p) \/ WriteOwnership(p)
  BY <1>0, <1>q, <1>6 DEF Probe, CaptureCapacity, WriteIntent, WriteOwnership
<1>7. ASSUME NEW b \in Builds, NEW ok \in BOOLEAN, BuildFirst(p, b, ok) \/ BuildSecond(p, b, ok)
      PROVE  Goal
  <2>1. PICK file \in {"first", "second"} :
           tmp' = With(job[p].cohort, file, job[p].cap, <<job[p].cohort, src, b>>)
    BY <1>7 DEF BuildFirst, BuildSecond
  <2>2. /\ pc[p] \in {"build1", "build2"} /\ pc'[p] \in {"load1", "own", "sweep"}
        /\ UNCHANGED <<tempTag, scope, completed, cleaned, intent>>
    BY <1>0, <1>7 DEF BuildFirst, BuildSecond
  <2>3. \A o \in tmp' : o \in tmp \/ (o.by = job[p].cap /\ o.cohort = job[p].cohort)
    BY <1>0, <2>1 DEF With
  <2>4. job[p].cap \in OpenAttempts /\ scope[job[p].cap].cohort = job[p].cohort
    BY <1>k, <2>2 DEF AttemptLabels, BuildLabels
  <2>5. ResidueOpen'
    BY <1>0, <2>2, <2>3, <2>4 DEF ResidueOpen, OpenAttempts
  <2> QED
    BY <2>2, <2>3, <2>5, NothingToRemove DEF ResidueMoves
<1>8. ASSUME NEW ok \in BOOLEAN, LoadFirst(p, ok) PROVE Goal
  <2>1. PICK o \in tmp : /\ o.file = "first"
                         /\ tempTag' = [tempTag EXCEPT ![o.by] = o.image]
                         /\ pc'[p] \in {"build2", "sweep"}
    BY <1>0, <1>8 DEF LoadFirst
  <2>2. UNCHANGED <<tmp, scope, completed, cleaned, intent>>
    BY <1>8 DEF LoadFirst
  <2>3. \A k \in Caps : k # o.by => tempTag'[k] = tempTag[k]
    BY <2>1 DEF TypeOK
  <2>4. ResidueOpen'
    BY <1>0, <2>1, <2>2, <2>3 DEF ResidueOpen, OpenAttempts
  <2> QED
    BY <2>1, <2>2, <2>3, <2>4, NothingToRemove DEF ResidueMoves
<1>9. ASSUME NEW ok \in BOOLEAN, LoadSecond(p, ok) PROVE Goal
  BY <1>0, <1>q, <1>9 DEF LoadSecond
<1>10. CASE CompareImages(p) \/ WriteReceipt(p)
  BY <1>0, <1>q, <1>10 DEF CompareImages, WriteReceipt
<1>11. CASE SweepOutputs(p)
  <2>1. /\ tmp' = Without(job[p].cohort, {"first", "second"})
        /\ pc[p] = "sweep" /\ pc'[p] = "untag"
        /\ UNCHANGED <<tempTag, scope, completed, cleaned, intent, job>>
    BY <1>0, <1>11 DEF SweepOutputs
  <2>2. \A o \in tmp' : o \in tmp /\ (o.cohort = job[p].cohort => o.file = "validation")
    BY <1>0, <2>1 DEF Without
  <2>3. ResidueGone(p)'
    BY <1>0, <1>k, <2>1, <2>2 DEF ResidueGone, ResidueOpen
  <2> QED
    BY <1>0, <2>1, <2>2, <2>3, ResidueKept DEF ResidueMoves
<1>12. CASE RemoveTemporaryTag(p)
  <2>1. /\ tempTag' = [tempTag EXCEPT ![job[p].cap] = NoImage]
        /\ pc[p] = "untag" /\ pc'[p] \in {"validate", "teardown"}
        /\ UNCHANGED <<tmp, scope, completed, cleaned, intent, job>>
    BY <1>0, <1>12 DEF RemoveTemporaryTag
  <2>2. /\ tempTag'[job[p].cap] = NoImage
        /\ \A k \in Caps : tempTag'[k] \in {tempTag[k], NoImage}
    BY <1>k, <2>1 DEF TypeOK
  <2>3. ResidueGone(p)'
    BY <1>0, <2>1, <2>2 DEF ResidueGone
  <2> QED
    BY <1>0, <2>1, <2>2, <2>3, ResidueKept DEF ResidueMoves
<1>13. ASSUME NEW whole \in BOOLEAN, ValidatePayload(p, whole) PROVE Goal
  <2>1. /\ tmp' = With(job[p].cohort, "validation", job[p].cap, NoImage)
        /\ pc[p] = "validate" /\ pc'[p] \in {"complete", "teardown"}
        /\ UNCHANGED <<tempTag, scope, completed, cleaned, intent, job>>
    BY <1>0, <1>13 DEF ValidatePayload
  <2>2. \A o \in tmp' : o \in tmp \/ (/\ o.by = job[p].cap /\ o.cohort = job[p].cohort
                                      /\ o.file = "validation")
    BY <1>0, <2>1 DEF With
  <2>3. job[p].cap \in OpenAttempts /\ scope[job[p].cap].cohort = job[p].cohort
    BY <1>k, <2>1 DEF AttemptLabels
  <2>4. ResidueOpen'
    BY <1>0, <2>1, <2>2, <2>3 DEF ResidueOpen, OpenAttempts
  <2>5. ResidueGone(p)'
    BY <1>0, <2>1, <2>2 DEF ResidueGone
  <2> QED
    BY <2>1, <2>2, <2>4, <2>5 DEF ResidueMoves
<1>14. ASSUME NEW valid \in BOOLEAN, WriteCompletion(p, valid) PROVE Goal
  <2>1. /\ tmp' = Without(job[p].cohort, {"validation"})
        /\ completed' = IF valid THEN completed \cup {job[p].cap} ELSE completed
        /\ pc[p] = "complete" /\ pc'[p] \in {"receipt", "teardown"}
        /\ UNCHANGED <<tempTag, scope, cleaned, intent, job>>
    BY <1>0, <1>14 DEF WriteCompletion
  <2>2. \A o \in tmp' : o \in tmp /\ (o.cohort = job[p].cohort => o.file # "validation")
    BY <1>0, <2>1 DEF Without
  <2>3. /\ \A o \in tmp' : o.by # job[p].cap
        /\ tempTag[job[p].cap] = NoImage
    BY <1>0, <1>k, <2>1, <2>2 DEF ResidueGone, ResidueOpen
  <2>4. ResidueOpen'
    BY <1>0, <2>1, <2>2, <2>3 DEF ResidueOpen, OpenAttempts
  <2> QED
    BY <2>1, <2>2, <2>4, NothingToRemove DEF ResidueMoves
<1>15. CASE CaptureCleanupCapacity(p) \/ ReadBackCleanup(p)
  <2>1. ResidueGone(p)'
    BY <1>0, <1>15 DEF CaptureCleanupCapacity, ReadBackCleanup, ResidueGone
  <2> QED
    BY <1>0, <1>15, <2>1, ResidueKept DEF CaptureCleanupCapacity, ReadBackCleanup, ResidueMoves
<1>16. CASE RemoveTargetTag(p)
  <2>1. /\ tempTag' = [tempTag EXCEPT ![job[p].target] = NoImage]
        /\ pc[p] = "cuntag" /\ pc'[p] = "cread"
        /\ UNCHANGED <<tmp, scope, completed, cleaned, intent, job>>
    BY <1>0, <1>16 DEF RemoveTargetTag
  <2>2. job[p].target \in Caps
    BY <2>1 DEF AttemptInv, CleanupTargetOpen, TypeOK
  <2>3. /\ tempTag'[job[p].target] = NoImage
        /\ \A k \in Caps : tempTag'[k] \in {tempTag[k], NoImage}
    BY <2>1, <2>2 DEF TypeOK
  <2>4. ResidueGone(p)'
    BY <1>0, <2>1, <2>3 DEF ResidueGone
  <2> QED
    BY <1>0, <2>1, <2>3, <2>4, ResidueKept DEF ResidueMoves
<1>17. CASE WriteCleanup(p)
  <2> DEFINE t == job[p].target
  <2>1. /\ cleaned' = [cleaned EXCEPT ![t] = job[p].cap]
        /\ pc[p] = "cwrite" /\ pc'[p] = "teardown"
        /\ UNCHANGED <<tempTag, tmp, scope, completed, intent, job>>
    BY <1>0, <1>17 DEF WriteCleanup
  <2>2. tempTag[t] = NoImage /\ \A o \in tmp : o.by # t
    BY <1>0, <2>1 DEF ResidueGone
  <2>3. \A k \in Caps : k # t => cleaned'[k] = cleaned[k]
    BY <2>1 DEF TypeOK
  <2> HIDE DEF t
  <2>4. ResidueOpen'
    BY <1>0, <2>1, <2>2, <2>3 DEF ResidueOpen, OpenAttempts
  <2> QED
    BY <2>1, <2>4, NothingToRemove DEF ResidueMoves
<1>18. CASE StepFails(p)
  <2>1. pc'[p] \in {"idle", "sweep", "teardown"}
    BY <1>0, <1>18 DEF StepFails, Unwind, Return
  <2> QED
    BY <1>q, <1>18, <2>1 DEF StepFails
<1> QED
  BY <1>1, <1>2, <1>3, <1>4, <1>5, <1>6, <1>7, <1>8, <1>9, <1>10, <1>11, <1>12,
     <1>13, <1>14, <1>15, <1>16, <1>17, <1>18 DEF Advance

\* Every step leaves residue of open attempts only.
LEMMA ResidueStep ==
    ASSUME TypeOK, TypeOK', AttemptInv, ResidueInv, [Next]_vars
    PROVE  ResidueInv'
<1> USE DEF envVars, fileVars, dockerVars, tmpVars
<1>0. ResidueInv <=> ResidueOpen /\ \A p \in Procs : ResidueGone(p)
  BY DEF ResidueInv, ResidueOpen
<1>n. (ResidueOpen /\ \A p \in Procs : ResidueGone(p))' => ResidueInv'
  BY DEF ResidueInv, ResidueOpen
<1>1. CASE SourceChanges \/ UNCHANGED vars \/ \E k \in Caps : CapacityExpires(k)
  <2>1. UNCHANGED <<scope, intent, completed, cleaned, tempTag, tmp, pc, job>>
    BY <1>1 DEF SourceChanges, CapacityExpires, vars
  <2> QED
    BY <2>1 DEF ResidueInv, ResidueGone, OpenAttempts
<1>2. ASSUME NEW p \in Procs, Advance(p) \/ WriteFails(p) \/ Crash(p),
             ResidueOpen', ResidueGone(p)', ResidueMoves(p)
      PROVE  ResidueInv'
  <2>1. pc[p] # "idle" /\ Undisturbed(p)
    BY <1>2, StepFrame
  <2>2. \A q \in Procs : q # p => ResidueGone(q)'
    BY <1>0, <1>2, <2>1, ResidueGoneOthers
  <2> QED
    BY <1>n, <1>2, <2>2
<1>3. ASSUME NEW p \in Procs, Advance(p) PROVE ResidueInv'
  BY <1>2, <1>3, ResidueAdvance
<1>4. ASSUME NEW p \in Procs, WriteFails(p) \/ Crash(p) PROVE ResidueInv'
  <2>1. /\ tmp' \subseteq tmp /\ UNCHANGED <<tempTag, scope, completed, cleaned, intent>>
        /\ pc'[p] \in {"idle", "sweep", "teardown"}
    BY <1>4 DEF WriteFails, Crash, Torn, Unwind, Return, Goto, Without, TypeOK
  <2> QED
    BY <1>0, <1>2, <1>4, <2>1, ResidueKept, NothingToRemove DEF ResidueMoves
<1>5. ASSUME NEW p \in Procs, NEW s \in Sets, NEW c \in Cohorts,
             NEW op \in Operations, NEW k \in Caps, Invoke(p, s, c, op, k)
      PROVE  ResidueInv'
  <2>1. /\ scope' = [scope EXCEPT ![k] = [set |-> s, cohort |-> c, op |-> op]]
        /\ scope[k] \in {NoScope, [set |-> s, cohort |-> c, op |-> op]}
        /\ \A q \in Procs : q # p => pc'[q] = pc[q] /\ job'[q] = job[q]
        /\ pc'[p] = "open"
        /\ UNCHANGED <<intent, completed, cleaned, tempTag, tmp>>
    BY <1>5 DEF Invoke, Goto, TypeOK
  <2>2. \A a \in intent : scope'[a] = scope[a]
    BY <2>1 DEF TypeOK, AttemptInv, FilesOrdered
  <2>3. ResidueOpen'
    BY <1>0, <2>1, <2>2 DEF ResidueOpen, OpenAttempts
  <2>4. \A q \in Procs : ResidueGone(q)'
    <3>1. \A q \in Procs : q # p => ResidueGone(q)'
      BY <1>0, <2>1 DEF ResidueGone
    <3> QED
      BY <2>1, <3>1, NothingToRemove
  <2> QED
    BY <1>n, <2>3, <2>4
<1> QED
  BY <1>1, <1>3, <1>4, <1>5 DEF Next

\* What lies about belongs to open attempts in every behaviour.
THEOREM ResidueInvariant == Spec => []ResidueInv
<1>1. Init => ResidueInv
  BY DEF Init, ResidueInv, ResidueGone
<1> QED
  BY <1>1, ResidueStep, TypeCorrect, AttemptInvariant, PTL DEF Spec

\* Whatever an interrupted build leaves in Docker's temporary tags or in
\* tmp/qualification is announced by an intent that is not resolved.
THEOREM ResidueHasIntentHolds == Spec => []ResidueHasIntent
<1>1. ResidueInv => ResidueHasIntent
  BY DEF ResidueInv, ResidueHasIntent, OpenAttempts
<1> QED
  BY <1>1, ResidueInvariant, PTL

-----------------------------------------------------------------------------
\* Archives are of images that were built from a source up to the present one.
ArchivesBuilt ==
    \A o \in tmp : o.file # "validation" => o.image \in BuiltImages /\ o.image[2] <= src

\* What a step of a process may do to the archives and the final tags: remove
\* archives, write one built from the present source, load a second archive.
SourceMoves ==
    /\ \A o \in tmp' : \/ o \in tmp
                       \/ o.file = "validation"
                       \/ o.image \in BuiltImages /\ o.image[2] = src
    /\ \A c \in Cohorts : \/ finalTag'[c] = finalTag[c]
                          \/ \E o \in tmp : /\ o.cohort = c /\ o.file = "second"
                                            /\ finalTag'[c] = o.image

\* Versions of the source are numbers, and an image has the one it was built from.
LEMMA SourceNumbers ==
    ASSUME TypeOK
    PROVE  /\ src \in Nat /\ \A v \in Sources : v \in Nat
           /\ \A i \in BuiltImages : i[2] \in Nat /\ i \in Images /\ i # NoImage
BY QualificationConstants DEF TypeOK, Sources, BuiltImages, Images

\* A set with an archive-free past has no receipt.
LEMMA NewSetUnqualified ==
    ASSUME TypeOK, AttemptInv, ReceiptInv, NEW s \in Sets, CapFilesOf(s) = {}
    PROVE  \A c \in Cohorts : receipt[s][c] = NoImage
BY DEF AttemptInv, FilesOrdered, CapFilesOf, ReceiptInv, ReceiptRepeatable

\* What another process's step leaves true of a process: it builds from the
\* present source and loads what was built.
LEMMA SourceHeldOthers ==
    ASSUME TypeOK, AttemptInv, ArchivesBuilt, NEW p \in Procs, pc[p] # "idle", Undisturbed(p),
           SourceMoves, NEW q \in Procs, q # p, SourceHeld(q)
    PROVE  SourceHeld(q)'
<1>1. pc'[q] = pc[q] /\ job'[q] = job[q] /\ run'[q] = run[q] /\ src' = src
  BY DEF Undisturbed
<1>2. CASE pc[q] = "idle"
  BY <1>1, <1>2 DEF SourceHeld, BuildLabels
<1>3. CASE pc[q] # "idle"
  <2> DEFINE s == job[q].set
             c == job[q].cohort
  <2>1. c \in Cohorts /\ setSrc'[s] = setSrc[s]
    BY <1>3, RunningJob DEF AttemptInv, OneProcessPerSet, Undisturbed
  <2> HIDE DEF s, c
  <2>2. pc[q] \in {"capture", "intent"} \cup BuildLabels =>
          /\ setSrc'[s] \in Sources /\ setSrc'[s] <= src'
          /\ \A o \in tmp' : o.cohort = c /\ o.file # "validation" => setSrc'[s] <= o.image[2]
    BY <1>1, <2>1 DEF SourceHeld, SourceMoves, s, c
  <2>3. pc[q] = "compare" => BuiltSince(finalTag[c], s)'
    BY <1>1, <2>1 DEF SourceHeld, SourceMoves, ArchivesBuilt, BuiltSince, BuildLabels, s, c
  <2>4. run[q].ok /\ pc[q] \in {"sweep", "untag", "validate"} =>
          setSrc'[s] \in Sources /\ BuiltSince(run[q].second, s)'
    BY <1>1, <2>1 DEF SourceHeld, BuiltSince, s
  <2>5. pc[q] \in {"complete", "receipt"} =>
          setSrc'[s] \in Sources /\ run[q].second[2] = setSrc'[s]
    BY <1>1, <2>1 DEF SourceHeld, s
  <2> QED
    BY <1>1, <2>2, <2>3, <2>4, <2>5 DEF SourceHeld, BuiltSince, s, c
<1> QED
  BY <1>2, <1>3

\* A step that writes no receipt leaves the receipts bound: a manifest is
\* written only where there is none yet.
LEMMA ReceiptsStayBound ==
    ASSUME TypeOK, ReceiptBindsSource, UNCHANGED receipt, NEW s \in Sets, NEW v,
           setSrc' = setSrc \/ setSrc' = [setSrc EXCEPT ![s] = v],
           v = Broken \/ \A c \in Cohorts : receipt[s][c] = NoImage
    PROVE  ReceiptBindsSource'
BY DEF ReceiptBindsSource, TypeOK

\* A process that has no builds under way, or gives up, claims nothing of the
\* source.
LEMMA NothingClaimed ==
    ASSUME NEW p \in Procs,
           pc'[p] \notin {"capture", "intent", "complete", "receipt"} \cup BuildLabels,
           pc'[p] \in {"sweep", "untag", "validate"} => ~run'[p].ok
    PROVE  SourceHeld(p)'
BY DEF SourceHeld, BuildLabels

\* Fewer archives, the same tags.
LEMMA ArchivesKept ==
    ASSUME ArchivesBuilt, tmp' \subseteq tmp, UNCHANGED <<src, finalTag>>
    PROVE  ArchivesBuilt' /\ SourceMoves
BY DEF ArchivesBuilt, SourceMoves

\* The actions of a running process keep the images it works with newer than
\* the source its set binds.
LEMMA SourceAdvance ==
    ASSUME TypeOK, TypeOK', AttemptInv, ReceiptInv, SourceInv, NEW p \in Procs, Advance(p)
    PROVE  ReceiptBindsSource' /\ ArchivesBuilt' /\ SourceHeld(p)' /\ SourceMoves
<1> USE DEF envVars, fileVars, dockerVars, tmpVars, Goto
<1> DEFINE Goal == ReceiptBindsSource' /\ ArchivesBuilt' /\ SourceHeld(p)' /\ SourceMoves
           s == job[p].set
           c == job[p].cohort
<1>0. /\ SourceHeld(p) /\ ReceiptBindsSource /\ ArchivesBuilt /\ BuildsAgree(p)
      /\ \A d, files : Without(d, files) \subseteq tmp
      /\ \A o \in tmp : o.file \in {"first", "second", "validation"}
      /\ \A l : (pc' = [pc EXCEPT ![p] = l]) => pc'[p] = l
      /\ \A r : (run' = [run EXCEPT ![p] = r]) => run'[p] = r
      /\ run[p] \in Runs /\ src \in Sources
  BY DEF SourceInv, ReceiptInv, ArchivesBuilt, TypeOK, Outputs, OutputFiles, Without
<1>j. pc[p] # "idle" => s \in Sets /\ c \in Cohorts
  BY RunningJob
<1>b. UNCHANGED <<receipt, setSrc>> => ReceiptBindsSource'
  BY <1>0 DEF ReceiptBindsSource
<1>q. ASSUME tmp' \subseteq tmp, UNCHANGED <<finalTag, src, receipt, setSrc>>,
             pc'[p] \notin {"capture", "intent", "complete", "receipt"} \cup BuildLabels,
             pc'[p] \in {"sweep", "untag", "validate"} => ~run'[p].ok
      PROVE  Goal
  BY <1>0, <1>b, <1>q, ArchivesKept, NothingClaimed
<1> HIDE DEF s, c
<1>1. CASE CreateSet(p) \/ WriteManifest(p) \/ AbandonSet(p)
  <2>1. PICK v : setSrc' = [setSrc EXCEPT ![s] = v] /\ (v = Broken \/ pc[p] = "manifest")
    BY <1>1 DEF CreateSet, WriteManifest, AbandonSet, s
  <2>2. /\ UNCHANGED <<receipt, tmp, finalTag, src>> /\ pc[p] # "idle"
        /\ pc'[p] \in {"manifest", "admit", "idle"}
    BY <1>0, <1>1 DEF CreateSet, WriteManifest, AbandonSet, Return
  <2>3. pc[p] = "manifest" => \A d \in Cohorts : receipt[s][d] = NoImage
    BY <1>j, NewSetUnqualified DEF AttemptInv, NewSetsEmpty, s
  <2>4. ReceiptBindsSource'
    BY <1>0, <1>j, <2>1, <2>2, <2>3, ReceiptsStayBound
  <2> QED
    BY <1>0, <2>2, <2>4, ArchivesKept, NothingClaimed DEF BuildLabels
<1>2. CASE OpenSet(p) \/ AdmitQualification(p) \/ SnapshotTools(p) \/ SnapshotRefused(p) \/ Teardown(p)
  <2>1. UNCHANGED <<receipt, setSrc, tmp, finalTag, src>>
        /\ pc'[p] \in {"admit", "idle", "snapshot", "probe", "ccapture"}
    BY <1>0, <1>2 DEF OpenSet, AdmitQualification, SnapshotTools, SnapshotRefused, Teardown, Return
  <2> QED
    BY <1>q, <2>1 DEF BuildLabels
<1>3. CASE AdmitCleanup(p)
  <2>1. /\ tmp' \subseteq tmp /\ UNCHANGED <<receipt, setSrc, finalTag, src>>
        /\ pc'[p] \in {"snapshot", "idle"}
    BY <1>0, <1>3 DEF AdmitCleanup, RemoveAttemptOutputs, Return
  <2> QED
    BY <1>q, <2>1 DEF BuildLabels
<1>4. CASE Probe(p)
  <2>1. /\ setSrc[s] = src /\ ~Present(c, {"first", "second"}) /\ pc'[p] = "capture"
        /\ UNCHANGED <<receipt, setSrc, tmp, finalTag, src, job>>
    BY <1>0, <1>4 DEF Probe, s, c
  <2>2. \A o \in tmp : o.cohort = c => o.file = "validation"
    BY <1>0, <2>1 DEF Present
  <2>3. src <= src
    BY SourceNumbers
  <2>4. SourceHeld(p)'
    BY <1>0, <2>1, <2>2, <2>3 DEF SourceHeld, BuildLabels, s, c
  <2> QED
    BY <1>0, <1>b, <2>1, <2>4, ArchivesKept
<1>5. CASE CaptureCapacity(p) \/ WriteIntent(p) \/ WriteOwnership(p)
  <2>1. /\ UNCHANGED <<receipt, setSrc, tmp, finalTag, src, job>>
        /\ pc[p] \in {"capture", "intent", "own"} /\ pc'[p] \in {"intent", "build1", "load2"}
    BY <1>0, <1>5 DEF CaptureCapacity, WriteIntent, WriteOwnership
  <2>2. SourceHeld(p)'
    BY <1>0, <2>1 DEF SourceHeld, BuildLabels
  <2> QED
    BY <1>0, <1>b, <2>1, <2>2, ArchivesKept
<1>6. ASSUME NEW b \in Builds, NEW ok \in BOOLEAN, BuildFirst(p, b, ok) \/ BuildSecond(p, b, ok)
      PROVE  Goal
  <2>1. PICK file \in {"first", "second"} : tmp' = With(c, file, job[p].cap, <<c, src, b>>)
    BY <1>6 DEF BuildFirst, BuildSecond, c
  <2>2. /\ pc[p] \in {"build1", "build2"} /\ pc'[p] \in {"load1", "own", "sweep"}
        /\ UNCHANGED <<receipt, setSrc, finalTag, src, job, run>>
    BY <1>0, <1>6 DEF BuildFirst, BuildSecond
  <2>3. <<c, src, b>> \in BuiltImages /\ <<c, src, b>>[2] = src
    BY <1>0, <1>j, <2>2 DEF BuiltImages
  <2>4. \A o \in tmp' : o \in tmp \/ o.image = <<c, src, b>>
    BY <1>0, <2>1 DEF With
  <2>5. src <= src
    BY SourceNumbers
  <2>6. ArchivesBuilt' /\ SourceMoves
    BY <1>0, <2>2, <2>3, <2>4, <2>5 DEF ArchivesBuilt, SourceMoves, BuiltImages
  <2>7. ~run[p].ok
    BY <1>0, <2>2 DEF BuildsAgree
  <2>8. SourceHeld(p)'
    BY <1>0, <2>2, <2>3, <2>4, <2>7 DEF SourceHeld, BuildLabels, s
  <2> QED
    BY <1>b, <2>2, <2>6, <2>8
<1>7. ASSUME NEW ok \in BOOLEAN, LoadFirst(p, ok) PROVE Goal
  <2>1. /\ run' = [run EXCEPT ![p] = [run[p] EXCEPT !.first = tempTag'[job[p].cap]]]
        /\ pc[p] = "load1" /\ pc'[p] \in {"build2", "sweep"}
        /\ UNCHANGED <<receipt, setSrc, finalTag, src, job, tmp>>
    BY <1>0, <1>7 DEF LoadFirst
  <2>2. ~run[p].ok
    BY <1>0, <2>1 DEF BuildsAgree
  <2>3. ~run'[p].ok
    BY <1>0, <2>1, <2>2 DEF Runs
  <2>4. SourceHeld(p)'
    BY <1>0, <2>1, <2>3 DEF SourceHeld, BuildLabels
  <2> QED
    BY <1>0, <1>b, <2>1, <2>4, ArchivesKept
<1>8. ASSUME NEW ok \in BOOLEAN, LoadSecond(p, ok) PROVE Goal
  <2>1. PICK o \in tmp : /\ o.cohort = c /\ o.file = "second"
                         /\ finalTag' = [finalTag EXCEPT ![c] = o.image]
    BY <1>8 DEF LoadSecond, c
  <2>2. /\ pc[p] = "load2" /\ pc'[p] \in {"compare", "sweep"}
        /\ UNCHANGED <<receipt, setSrc, src, job, tmp, run>>
    BY <1>0, <1>8 DEF LoadSecond
  <2>3. finalTag'[c] = o.image /\ \A d \in Cohorts : d # c => finalTag'[d] = finalTag[d]
    BY <1>j, <2>1, <2>2 DEF TypeOK
  <2>4. ArchivesBuilt' /\ SourceMoves
    BY <1>0, <2>1, <2>2, <2>3 DEF ArchivesBuilt, SourceMoves
  <2>5. BuiltSince(o.image, s) /\ ~run[p].ok
    BY <1>0, <2>1, <2>2 DEF SourceHeld, BuildsAgree, ArchivesBuilt, BuiltSince, BuildLabels, s, c
  <2>6. SourceHeld(p)'
    BY <1>0, <2>2, <2>3, <2>5 DEF SourceHeld, BuildLabels, BuiltSince, s, c
  <2> QED
    BY <1>b, <2>2, <2>4, <2>6
<1>9. CASE CompareImages(p)
  <2> DEFINE seen == finalTag[c]
             same == seen = run[p].first
  <2>1. /\ run' = [run EXCEPT ![p] = [run[p] EXCEPT !.second = seen, !.ok = same]]
        /\ pc[p] = "compare" /\ pc'[p] = "sweep"
        /\ UNCHANGED <<receipt, setSrc, src, job, tmp, finalTag>>
    BY <1>0, <1>9 DEF CompareImages, c
  <2>2. \A r \in Runs : \A i, b : [r EXCEPT !.second = i, !.ok = b].second = i
    BY DEF Runs
  <2>3. run'[p].second = seen
    <3>1. run'[p] = [run[p] EXCEPT !.second = seen, !.ok = same]
      BY <1>0, <2>1
    <3> HIDE DEF seen, same
    <3> QED
      BY <1>0, <2>2, <3>1
  <2>4. BuiltSince(seen, s) /\ setSrc[s] \in Sources
    BY <1>0, <2>1 DEF SourceHeld, BuildLabels, s, c
  <2> HIDE DEF seen, same
  <2>5. SourceHeld(p)'
    BY <2>1, <2>3, <2>4 DEF SourceHeld, BuildLabels, BuiltSince, s
  <2> QED
    BY <1>0, <1>b, <2>1, <2>5, ArchivesKept
<1>10. CASE SweepOutputs(p) \/ RemoveTemporaryTag(p)
  <2>1. /\ tmp' \subseteq tmp /\ UNCHANGED <<receipt, setSrc, src, job, run, finalTag>>
        /\ pc[p] \in {"sweep", "untag"} /\ pc'[p] \in {"untag", "validate", "teardown"}
    BY <1>0, <1>10 DEF SweepOutputs, RemoveTemporaryTag
  <2>2. SourceHeld(p)'
    BY <1>0, <2>1 DEF SourceHeld, BuildLabels, BuiltSince
  <2> QED
    BY <1>0, <1>b, <2>1, <2>2, ArchivesKept
<1>11. ASSUME NEW whole \in BOOLEAN, ValidatePayload(p, whole) PROVE Goal
  <2>1. /\ tmp' = With(c, "validation", job[p].cap, NoImage) /\ setSrc[s] = src
        /\ pc[p] = "validate" /\ pc'[p] \in {"complete", "teardown"}
        /\ UNCHANGED <<receipt, setSrc, src, job, run, finalTag>>
    BY <1>0, <1>11 DEF ValidatePayload, s, c
  <2>2. \A o \in tmp' : o \in tmp \/ o.file = "validation"
    BY <1>0, <2>1 DEF With
  <2>3. ArchivesBuilt' /\ SourceMoves
    BY <1>0, <2>1, <2>2 DEF ArchivesBuilt, SourceMoves
  <2>4. run[p].second[2] = src
    <3>1. BuiltSince(run[p].second, s)
      BY <1>0, <2>1 DEF SourceHeld, BuildsAgree, s
    <3> QED
      BY <2>1, <3>1, SourceNumbers DEF BuiltSince
  <2>5. SourceHeld(p)'
    BY <1>0, <2>1, <2>4 DEF SourceHeld, BuildLabels, s
  <2> QED
    BY <1>b, <2>1, <2>3, <2>5
<1>12. ASSUME NEW valid \in BOOLEAN, WriteCompletion(p, valid) PROVE Goal
  <2>1. /\ tmp' \subseteq tmp /\ pc[p] = "complete" /\ pc'[p] \in {"receipt", "teardown"}
        /\ UNCHANGED <<receipt, setSrc, src, job, run, finalTag>>
    BY <1>0, <1>12 DEF WriteCompletion
  <2>2. SourceHeld(p)'
    BY <1>0, <2>1 DEF SourceHeld, BuildLabels
  <2> QED
    BY <1>0, <1>b, <2>1, <2>2, ArchivesKept
<1>13. CASE WriteReceipt(p)
  <2>1. /\ receipt' = [receipt EXCEPT ![s][c] = run[p].second]
        /\ pc[p] = "receipt" /\ pc'[p] = "teardown"
        /\ UNCHANGED <<tmp, setSrc, src, finalTag>>
    BY <1>0, <1>13 DEF WriteReceipt, s, c
  <2>2. run[p].second[2] = setSrc[s]
    BY <1>0, <2>1 DEF SourceHeld, s
  <2>3. \A a \in Sets, d \in Cohorts :
           receipt'[a][d] = IF a = s /\ d = c THEN run[p].second ELSE receipt[a][d]
    BY <1>j, <2>1 DEF TypeOK
  <2>4. ReceiptBindsSource'
    BY <1>0, <2>1, <2>2, <2>3 DEF ReceiptBindsSource
  <2> QED
    BY <1>0, <2>1, <2>4, ArchivesKept, NothingClaimed DEF BuildLabels
<1>14. CASE CaptureCleanupCapacity(p) \/ RemoveTargetTag(p) \/ ReadBackCleanup(p) \/ WriteCleanup(p)
  <2>1. /\ UNCHANGED <<receipt, setSrc, tmp, finalTag, src>>
        /\ pc'[p] \in {"cuntag", "cread", "cwrite", "teardown"}
    BY <1>0, <1>14 DEF CaptureCleanupCapacity, RemoveTargetTag, ReadBackCleanup, WriteCleanup
  <2> QED
    BY <1>q, <2>1 DEF BuildLabels
<1>15. CASE StepFails(p)
  <2>1. /\ UNCHANGED <<receipt, setSrc, tmp, finalTag, src>> /\ pc[p] # "manifest"
        /\ pc'[p] \in {"sweep", "teardown"}
        /\ run' = [run EXCEPT ![p] = [run[p] EXCEPT !.ok = FALSE]]
    BY <1>0, <1>15 DEF StepFails, Unwind, FailLabels, BuildLabels
  <2>2. ~run'[p].ok
    <3>1. run'[p] = [run[p] EXCEPT !.ok = FALSE]
      BY <1>0, <2>1
    <3>2. \A r \in Runs : ~[r EXCEPT !.ok = FALSE].ok
      BY DEF Runs
    <3> QED
      BY <1>0, <3>1, <3>2
  <2> QED
    BY <1>q, <2>1, <2>2 DEF BuildLabels
<1> QED
  BY <1>1, <1>2, <1>3, <1>4, <1>5, <1>6, <1>7, <1>8, <1>9, <1>10, <1>11, <1>12,
     <1>13, <1>14, <1>15 DEF Advance

\* Every step keeps the source of the images within its bounds.
LEMMA SourceStep ==
    ASSUME TypeOK, TypeOK', AttemptInv, ReceiptInv, SourceInv, [Next]_vars
    PROVE  SourceInv'
<1> USE DEF envVars, fileVars, dockerVars, tmpVars
<1>0. SourceInv <=> ReceiptBindsSource /\ ArchivesBuilt /\ \A p \in Procs : SourceHeld(p)
  BY DEF SourceInv, ArchivesBuilt
<1>n. (ReceiptBindsSource /\ ArchivesBuilt /\ \A p \in Procs : SourceHeld(p))' => SourceInv'
  BY DEF SourceInv, ArchivesBuilt
<1>1. CASE SourceChanges
  <2>1. /\ src' = src + 1 /\ UNCHANGED <<setSrc, receipt, tmp, finalTag, pc, job, run>>
    BY <1>1 DEF SourceChanges
  <2>2. \A v \in Nat : v <= src => v <= src'
    BY <2>1, SourceNumbers
  <2>3. ReceiptBindsSource' /\ ArchivesBuilt'
    BY <1>0, <2>1, <2>2, SourceNumbers DEF ReceiptBindsSource, ArchivesBuilt, BuiltImages
  <2>4. ASSUME NEW p \in Procs PROVE SourceHeld(p)'
    <3>1. SourceHeld(p)
      BY <1>0
    <3>2. \A i : BuiltSince(i, job[p].set) => BuiltSince(i, job[p].set)'
      BY <2>1, <2>2, SourceNumbers DEF BuiltSince, BuiltImages
    <3> QED
      BY <2>1, <2>2, <3>1, <3>2, SourceNumbers DEF SourceHeld
  <2> QED
    BY <1>n, <2>3, <2>4
<1>2. CASE UNCHANGED vars \/ \E k \in Caps : CapacityExpires(k)
  <2>1. UNCHANGED <<src, setSrc, receipt, tmp, finalTag, pc, job, run>>
    BY <1>2 DEF CapacityExpires, vars
  <2> QED
    BY <2>1 DEF SourceInv, SourceHeld, ReceiptBindsSource, BuiltSince
<1>3. ASSUME NEW p \in Procs, Advance(p) \/ WriteFails(p) \/ Crash(p),
             ReceiptBindsSource', ArchivesBuilt', SourceHeld(p)', SourceMoves
      PROVE  SourceInv'
  <2>1. pc[p] # "idle" /\ Undisturbed(p)
    BY <1>3, StepFrame
  <2>2. \A q \in Procs : q # p => SourceHeld(q)'
    BY <1>0, <1>3, <2>1, SourceHeldOthers
  <2> QED
    BY <1>n, <1>3, <2>2
<1>4. ASSUME NEW p \in Procs, Advance(p) PROVE SourceInv'
  BY <1>3, <1>4, SourceAdvance
<1>5. ASSUME NEW p \in Procs, WriteFails(p) \/ Crash(p) PROVE SourceInv'
  <2>1. /\ tmp' \subseteq tmp /\ UNCHANGED <<src, finalTag, receipt>>
        /\ setSrc' = setSrc \/ setSrc' = [setSrc EXCEPT ![job[p].set] = Broken]
    BY <1>5 DEF WriteFails, Crash, Torn, Without
  <2>2. pc[p] # "idle"
    BY <1>5, StepFrame
  <2>3. /\ pc'[p] \in {"idle", "sweep", "teardown"}
        /\ pc'[p] = "sweep" => run' = [run EXCEPT ![p] = [run[p] EXCEPT !.ok = FALSE]]
    BY <1>5 DEF WriteFails, Crash, Unwind, Return, Goto, TypeOK
  <2>4. run[p] \in Runs
    BY DEF TypeOK
  <2>5. pc'[p] = "sweep" => ~run'[p].ok
    BY <2>3, <2>4 DEF Runs, TypeOK
  <2>6. ReceiptBindsSource'
    BY <1>0, <2>1, <2>2, RunningJob, ReceiptsStayBound
  <2> QED
    BY <1>0, <1>3, <1>5, <2>1, <2>3, <2>5, <2>6, ArchivesKept, NothingClaimed DEF BuildLabels
<1>6. ASSUME NEW p \in Procs, NEW s \in Sets, NEW c \in Cohorts,
             NEW op \in Operations, NEW k \in Caps, Invoke(p, s, c, op, k)
      PROVE  SourceInv'
  <2>1. /\ \A q \in Procs : q # p => pc'[q] = pc[q] /\ job'[q] = job[q] /\ run'[q] = run[q]
        /\ pc'[p] = "open"
        /\ UNCHANGED <<src, setSrc, receipt, tmp, finalTag>>
    BY <1>6 DEF Invoke, Goto, TypeOK
  <2>2. ReceiptBindsSource' /\ ArchivesBuilt'
    BY <1>0, <2>1 DEF ReceiptBindsSource, ArchivesBuilt
  <2>3. \A q \in Procs : q # p => SourceHeld(q)'
    BY <1>0, <2>1 DEF SourceHeld, BuiltSince
  <2>4. SourceHeld(p)'
    BY <2>1, NothingClaimed DEF BuildLabels
  <2> QED
    BY <1>n, <2>2, <2>3, <2>4
<1> QED
  BY <1>1, <1>2, <1>4, <1>5, <1>6 DEF Next

\* The source of the images stays within its bounds in every behaviour.
THEOREM SourceInvariant == Spec => []SourceInv
<1>1. Init => SourceInv
  BY DEF Init, SourceInv, SourceHeld, ReceiptBindsSource, BuildLabels
<1> QED
  BY <1>1, SourceStep, TypeCorrect, AttemptInvariant, ReceiptInvariant, PTL DEF Spec

\* A qualified image was built from the source its set's manifest binds,
\* although other sets share tmp/qualification and the final tag and the
\* source is compared only before and after the builds.
THEOREM ReceiptBindsSourceHolds == Spec => []ReceiptBindsSource
<1>1. SourceInv => ReceiptBindsSource
  BY DEF SourceInv
<1> QED
  BY <1>1, SourceInvariant, PTL
=============================================================================
