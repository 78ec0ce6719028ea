---------------------------- MODULE Qualification ----------------------------
(***************************************************************************)
(* The image qualifier: scripts/qualify_refresh_images.py.  One invocation *)
(* of the script qualifies one cohort of a receipt set (build the image    *)
(* twice, compare, append a receipt) or cleans up one interrupted attempt. *)
(* Invocations are operating system processes: they may run at the same    *)
(* time, lose their capacity receipt halfway, fail at any command, or be   *)
(* killed.  What outlives them is modelled here: the append-only files of  *)
(* a receipt set, the tags of the Docker daemon and the shared directory   *)
(* tmp/qualification.                                                      *)
(*                                                                         *)
(* An attempt is named after the scoped capacity receipt that admits it:   *)
(* _attempt_id digests the set, the cohort and that receipt, and the       *)
(* receipt's scope already fixes the first two.                            *)
(***************************************************************************)
EXTENDS Naturals, FiniteSets

CONSTANTS
    Procs,       \* operating system processes running the script
    Sets,        \* receipt-set names
    Cohorts,     \* COHORTS
    Caps,        \* scoped capacity receipts the operator may issue
    MaxSource,   \* bound: how often the tracked source changes
    Builds,      \* what two builds of one source may differ in
    Prior,       \* an image that carries the final tag before any attempt
    NoImage,     \* no tag, no ownership receipt, no qualification receipt
    NoCap,       \* no capacity receipt
    Absent,      \* the receipt-set directory does not exist
    Broken,      \* the set holds a missing manifest or a torn file
    Faults       \* which faults occur: a subset of {"crash", "torn"}

Sources == 0..MaxSource
Images == (Cohorts \X Sources \X Builds) \cup {Prior}
Operations == {"qualification", "cleanup"}
OutputFiles == {"first", "second", "validation"}
\* A file of tmp/qualification: its path is the cohort and the file, and the
\* image in an archive carries the tag of the attempt that built it.
Outputs == [cohort : Cohorts, file : OutputFiles, by : Caps,
            image : Images \cup {NoImage}]

ASSUME QualificationConstants ==
    /\ MaxSource \in Nat
    /\ NoImage \notin Images
    /\ Prior \notin Cohorts \X Sources \X Builds
    /\ NoCap \notin Caps
    /\ Absent \notin Sources \cup {Broken}
    /\ Broken \notin Sources
    /\ Faults \subseteq {"crash", "torn"}

VARIABLES
    src,         \* the version of the tracked source
    expired,     \* capacity receipts older than 120 seconds
    scope,       \* scope[k]: set, cohort and operation receipt k is bound to
    (* files of the receipt sets *)
    setSrc,      \* setSrc[s]: the source qualification-set.json binds
    capFiles,    \* capacity-*.json
    intent,      \* attempt-*.json
    baseline,    \* baseline[k]: previous_final_image_id of attempt k
    owner,       \* owner[k]: owned_final_image_id of ownership-*.json
    completed,   \* complete-*.json
    cleaned,     \* cleaned[k]: the capacity receipt of cleanup-*.json
    receipt,     \* receipt[s][c]: the image <cohort>.json qualifies
    (* the Docker daemon *)
    tempTag,     \* tempTag[k]: image tagged v0-<k>-first
    finalTag,    \* finalTag[c]: image tagged with the cohort's reference
    (* tmp/qualification, shared by every set *)
    tmp,         \* OCI archives and validation receipts
    tools,       \* the snapshot of the docker and buildx executables
    (* the processes *)
    pc,
    job,         \* job[p]: set, cohort, operation, capacity, cleanup target
    run          \* run[p]: what the process read or built on the way

fileVars == <<setSrc, capFiles, intent, baseline, owner, completed, cleaned,
              receipt>>
dockerVars == <<tempTag, finalTag>>
tmpVars == <<tmp, tools>>
envVars == <<src, expired, scope>>
vars == <<envVars, fileVars, dockerVars, tmpVars, pc, job, run>>

NoScope == [set |-> NoCap, cohort |-> NoCap, op |-> "none"]
NoJob == [set |-> NoCap, cohort |-> NoCap, op |-> "none",
          cap |-> NoCap, target |-> NoCap]
NoRun == [bound |-> 0, prev |-> NoImage, first |-> NoImage,
          second |-> NoImage, ok |-> FALSE]

-----------------------------------------------------------------------------
(* Reading a receipt set back.                                             *)

\* scope[k] is the set and cohort of attempt k and of its evidence.
AttemptsOf(s) == {k \in intent : scope[k].set = s}
CompletionsOf(s) == {k \in completed : scope[k].set = s}
CleanupsOf(s) == {k \in Caps : cleaned[k] # NoCap /\ scope[k].set = s}
CapFilesOf(s) == {k \in capFiles : scope[k].set = s}

\* _attempt_resolved: the cleanup's capacity receipt is in the set and has
\* the cleanup scope, or the completion's qualification receipt exists.
AttemptResolved(k) ==
    \/ /\ cleaned[k] # NoCap
       /\ cleaned[k] \in capFiles
       /\ scope[cleaned[k]].op = "cleanup"
    \/ /\ k \in completed
       /\ receipt[scope[k].set][scope[k].cohort] # NoImage

\* Mutant: an attempt counts as unresolved only once it owns an image.
OwnedUnresolvedAttempts(s, c) ==
    {k \in AttemptsOf(s) : /\ scope[k].cohort = c /\ owner[k] # NoImage
                           /\ ~AttemptResolved(k)}

UnresolvedAttempts(s, c) ==
    {k \in AttemptsOf(s) : scope[k].cohort = c /\ ~AttemptResolved(k)}

\* Mutant: completions are not matched with receipts when a set is opened.
SetGraphWithoutReceipts(s) ==
    /\ CompletionsOf(s) \cup CleanupsOf(s) \subseteq AttemptsOf(s)
    /\ CapFilesOf(s) = AttemptsOf(s) \cup {cleaned[k] : k \in CleanupsOf(s)}

\* _validate_set_graph, evaluated whenever a set is opened.
ValidSetGraph(s) ==
    /\ CompletionsOf(s) \cup CleanupsOf(s) \subseteq AttemptsOf(s)
    /\ CompletionsOf(s) \cap CleanupsOf(s) = {}
    /\ \A k \in CompletionsOf(s) : owner[k] # NoImage
    /\ \A k \in CompletionsOf(s) \cup CleanupsOf(s) : AttemptResolved(k)
    /\ \A c \in Cohorts :
          LET matching == {k \in CompletionsOf(s) : scope[k].cohort = c}
          IN  IF receipt[s][c] = NoImage
              THEN matching = {}
              ELSE \E k \in matching : matching = {k}
    /\ CapFilesOf(s) = AttemptsOf(s) \cup {cleaned[k] : k \in CleanupsOf(s)}

\* _open_receipt_set on a directory that exists, and the first
\* _require_current_set_source.
SetOpens(s) == setSrc[s] = src /\ ValidSetGraph(s)

\* The capacity gate and the tool snapshot: every Docker or Buildx command
\* goes through _completed, which revalidates the receipt first and then
\* executes the snapshot's copy of the tool.
CommandRuns(p) == job[p].cap \notin expired /\ tools = "full"

\* What is left of tmp/qualification without some files of a cohort, and with
\* one of them written by the attempt k.
Without(c, files) == {o \in tmp : o.cohort # c \/ o.file \notin files}
With(c, file, k, image) ==
    Without(c, {file}) \cup {[cohort |-> c, file |-> file, by |-> k, image |-> image]}
Present(c, files) == \E o \in tmp : o.cohort = c /\ o.file \in files

Goto(p, label) == pc' = [pc EXCEPT ![p] = label]

\* Mutant: the lock is released while the job is still known.
ReturnKeepsJob(p) == Goto(p, "idle") /\ UNCHANGED <<job, run>>

\* Leaving _main_locked: the lock is released with the descriptor.
Return(p) ==
    /\ Goto(p, "idle")
    /\ job' = [job EXCEPT ![p] = NoJob]
    /\ run' = [run EXCEPT ![p] = NoRun]

-----------------------------------------------------------------------------
(* The environment.                                                        *)

\* The tracked source moves on; versions never come back.
SourceChanges ==
    /\ src < MaxSource
    /\ src' = src + 1
    /\ UNCHANGED <<expired, scope, fileVars, dockerVars, tmpVars, pc, job, run>>

\* The receipt of a running invocation passes its maximum age.
CapacityExpires(k) ==
    /\ k \notin expired
    /\ \E p \in Procs : job[p].cap = k
    /\ expired' = expired \cup {k}
    /\ UNCHANGED <<src, scope, fileVars, dockerVars, tmpVars, pc, job, run>>

-----------------------------------------------------------------------------
(* main and _main_locked.                                                  *)

\* The operator issues capacity receipt k for one operation, or uses one
\* issued for it earlier, and starts the script; _load_capacity_gate checks
\* the scope and _cohort_lock is free: no other process works on the set.
Invoke(p, s, c, op, k) ==
    /\ pc[p] = "idle"
    /\ scope[k] \in {NoScope, [set |-> s, cohort |-> c, op |-> op]}
    /\ \A q \in Procs : pc[q] # "idle" => job[q].set # s
    /\ scope' = [scope EXCEPT ![k] = [set |-> s, cohort |-> c, op |-> op]]
    /\ job' = [job EXCEPT ![p] = [set |-> s, cohort |-> c, op |-> op,
                                  cap |-> k, target |-> NoCap]]
    /\ run' = [run EXCEPT ![p] = NoRun]
    /\ Goto(p, "open")
    /\ UNCHANGED <<src, expired, fileVars, dockerVars, tmpVars>>

\* _open_receipt_set creates the directory of a new set.  Until the manifest
\* is written the directory has none, which no invocation accepts.
CreateSet(p) ==
    /\ pc[p] = "open"
    /\ setSrc[job[p].set] = Absent
    /\ setSrc' = [setSrc EXCEPT ![job[p].set] = Broken]
    /\ run' = [run EXCEPT ![p].bound = src]
    /\ Goto(p, "manifest")
    /\ UNCHANGED <<envVars, capFiles, intent, baseline, owner, completed,
                   cleaned, receipt, dockerVars, tmpVars, job>>

\* The manifest binds the source as it was read before the directory was
\* made; _require_current_set_source then compares it with the source now.
WriteManifest(p) ==
    /\ pc[p] = "manifest"
    /\ setSrc' = [setSrc EXCEPT ![job[p].set] = run[p].bound]
    /\ IF run[p].bound = src
       THEN Goto(p, "admit") /\ UNCHANGED <<job, run>>
       ELSE Return(p)
    /\ UNCHANGED <<envVars, capFiles, intent, baseline, owner, completed,
                   cleaned, receipt, dockerVars, tmpVars>>

\* The manifest file cannot even be created: the empty directory goes again.
AbandonSet(p) ==
    /\ pc[p] = "manifest"
    /\ setSrc' = [setSrc EXCEPT ![job[p].set] = Absent]
    /\ Return(p)
    /\ UNCHANGED <<envVars, capFiles, intent, baseline, owner, completed,
                   cleaned, receipt, dockerVars, tmpVars>>

OpenSet(p) ==
    /\ pc[p] = "open"
    /\ setSrc[job[p].set] # Absent
    /\ IF SetOpens(job[p].set)
       THEN Goto(p, "admit") /\ UNCHANGED <<job, run>>
       ELSE Return(p)
    /\ UNCHANGED <<envVars, fileVars, dockerVars, tmpVars>>

\* A qualification needs a cohort without receipt and without unresolved
\* attempt.
AdmitQualification(p) ==
    LET s == job[p].set
        c == job[p].cohort
    IN  /\ pc[p] = "admit"
        /\ job[p].op = "qualification"
        /\ IF receipt[s][c] = NoImage /\ UnresolvedAttempts(s, c) = {}
           THEN Goto(p, "snapshot") /\ UNCHANGED <<job, run>>
           ELSE Return(p)
        /\ UNCHANGED <<envVars, fileVars, dockerVars, tmpVars>>

\* _remove_attempt_outputs: the archives and the validation receipt of the
\* cohort, then the tool snapshot; a truncated copy of a tool is refused.
RemoveAttemptOutputs(p, toolsGo) ==
    /\ tmp' = Without(job[p].cohort, OutputFiles)
    /\ toolsGo \/ tools = "partial"
    /\ tools' = IF toolsGo THEN "none" ELSE tools

\* A cleanup needs exactly one unresolved attempt and current capacity.
AdmitCleanup(p) ==
    LET open == UnresolvedAttempts(job[p].set, job[p].cohort)
    IN  /\ pc[p] = "admit"
        /\ job[p].op = "cleanup"
        /\ \/ /\ job[p].cap \notin expired
              /\ \E k \in open : open = {k} /\
                    job' = [job EXCEPT ![p].target = k]
              /\ RemoveAttemptOutputs(p, TRUE)
              /\ Goto(p, "snapshot")
              /\ UNCHANGED run
           \/ /\ job[p].cap \notin expired
              /\ \E k \in open : open = {k}
              /\ RemoveAttemptOutputs(p, FALSE)
              /\ Return(p)
           \/ /\ Return(p)
              /\ UNCHANGED tmpVars
        /\ UNCHANGED <<envVars, fileVars, dockerVars>>

\* _cleanup_orphan_tool_snapshot runs for a qualification only and removes a
\* complete snapshot; then tmp/qualification must be empty.
OutputRootReady(p) ==
    /\ tmp = {}
    /\ tools \in IF job[p].op = "qualification" THEN {"none", "full"} ELSE {"none"}

SnapshotTools(p) ==
    /\ pc[p] = "snapshot"
    /\ OutputRootReady(p)
    /\ tools' = "full"
    /\ Goto(p, IF job[p].op = "qualification" THEN "probe" ELSE "ccapture")
    /\ UNCHANGED <<envVars, fileVars, dockerVars, tmp, job, run>>

\* No buildx, a directory that is not empty, or a copy that fails: nothing
\* is left behind, and an orphan snapshot may already be gone.
SnapshotRefused(p) ==
    /\ pc[p] = "snapshot"
    /\ \/ UNCHANGED tools
       \/ job[p].op = "qualification" /\ tools = "full" /\ tools' = "none"
    /\ Return(p)
    /\ UNCHANGED <<envVars, fileVars, dockerVars, tmp>>

\* The finally of _main_locked: the snapshot is removed, whoever made it.
Teardown(p) ==
    /\ pc[p] = "teardown"
    /\ tools' = "none"
    /\ Return(p)
    /\ UNCHANGED <<envVars, fileVars, dockerVars, tmp>>

-----------------------------------------------------------------------------
(* qualify.                                                                *)

\* From the source check to the last read before the intent: the receipt,
\* the archives and the temporary tag are absent, and the final tag's image
\* is read as the baseline.
Probe(p) ==
    LET s == job[p].set
        c == job[p].cohort
    IN  /\ pc[p] = "probe"
        /\ setSrc[s] = src
        /\ receipt[s][c] = NoImage
        /\ CommandRuns(p)
        /\ ~Present(c, {"first", "second"})
        /\ tempTag[job[p].cap] = NoImage
        /\ run' = [run EXCEPT ![p].prev = finalTag[c]]
        /\ Goto(p, "capture")
        /\ UNCHANGED <<envVars, fileVars, dockerVars, tmpVars, job>>

\* Mutant: the builds start before the intent is written.
CaptureSkipsIntent(p) ==
    /\ pc[p] = "capture"
    /\ capFiles' = capFiles \cup {job[p].cap}
    /\ Goto(p, "build1")
    /\ UNCHANGED <<envVars, setSrc, intent, baseline, owner, completed,
                   cleaned, receipt, dockerVars, tmpVars, job, run>>

\* _begin_attempt up to _capacity_snapshot.
CaptureCapacity(p) ==
    LET s == job[p].set
        c == job[p].cohort
        k == job[p].cap
    IN  /\ pc[p] = "capture"
        /\ receipt[s][c] = NoImage
        /\ UnresolvedAttempts(s, c) = {}
        /\ k \notin capFiles
        /\ capFiles' = capFiles \cup {k}
        /\ Goto(p, "intent")
        /\ UNCHANGED <<envVars, setSrc, intent, baseline, owner, completed,
                       cleaned, receipt, dockerVars, tmpVars, job, run>>

\* _begin_attempt writes the pessimistic intent.
WriteIntent(p) ==
    LET k == job[p].cap
    IN  /\ pc[p] = "intent"
        /\ intent' = intent \cup {k}
        /\ baseline' = [baseline EXCEPT ![k] = run[p].prev]
        /\ Goto(p, "build1")
        /\ UNCHANGED <<envVars, setSrc, capFiles, owner, completed, cleaned,
                       receipt, dockerVars, tmpVars, job, run>>

\* A build reads the working tree as it is now.  Like every command it may
\* fail after it took effect: it times out, or the next gate refuses.
BuildFirst(p, b, ok) ==
    LET c == job[p].cohort
    IN  /\ pc[p] = "build1"
        /\ CommandRuns(p)
        /\ tmp' = With(c, "first", job[p].cap, <<c, src, b>>)
        /\ Goto(p, IF ok THEN "load1" ELSE "sweep")
        /\ UNCHANGED <<envVars, fileVars, dockerVars, tools, job, run>>

\* Mutant: the first build already carries the cohort's reference.
LoadFirstAsFinal(p, ok) ==
    /\ pc[p] = "load1"
    /\ CommandRuns(p)
    /\ \E o \in tmp :
          /\ o.cohort = job[p].cohort /\ o.file = "first"
          /\ finalTag' = [finalTag EXCEPT ![o.cohort] = o.image]
          /\ run' = [run EXCEPT ![p].first = o.image]
    /\ Goto(p, IF ok THEN "build2" ELSE "sweep")
    /\ UNCHANGED <<envVars, fileVars, tempTag, tmpVars, job>>

\* docker load gives the image in the archive the tag stored with it: its own,
\* unless a process of another set has written the same path since.  The
\* image is then inspected under this attempt's tag.
LoadFirst(p, ok) ==
    LET k == job[p].cap
    IN  /\ pc[p] = "load1"
        /\ CommandRuns(p)
        /\ \E o \in tmp :
              /\ o.cohort = job[p].cohort /\ o.file = "first"
              /\ tempTag' = [tempTag EXCEPT ![o.by] = o.image]
              /\ run' = [run EXCEPT ![p].first = tempTag'[k]]
              /\ Goto(p, IF ok /\ tempTag'[k] # NoImage THEN "build2" ELSE "sweep")
        /\ UNCHANGED <<envVars, fileVars, finalTag, tmpVars, job>>

BuildSecond(p, b, ok) ==
    LET c == job[p].cohort
    IN  /\ pc[p] = "build2"
        /\ CommandRuns(p)
        /\ tmp' = With(c, "second", job[p].cap, <<c, src, b>>)
        /\ Goto(p, IF ok THEN "own" ELSE "sweep")
        /\ UNCHANGED <<envVars, fileVars, dockerVars, tools, job, run>>

\* _write_ownership, before the load that moves the final tag.
WriteOwnership(p) ==
    /\ pc[p] = "own"
    /\ owner' = [owner EXCEPT ![job[p].cap] = run[p].first]
    /\ Goto(p, "load2")
    /\ UNCHANGED <<envVars, setSrc, capFiles, intent, baseline, completed,
                   cleaned, receipt, dockerVars, tmpVars, job, run>>

\* The tag in this archive is the cohort's final reference, whoever built it.
LoadSecond(p, ok) ==
    LET c == job[p].cohort
    IN  /\ pc[p] = "load2"
        /\ CommandRuns(p)
        /\ \E o \in tmp : /\ o.cohort = c /\ o.file = "second"
                         /\ finalTag' = [finalTag EXCEPT ![c] = o.image]
        /\ Goto(p, IF ok THEN "compare" ELSE "sweep")
        /\ UNCHANGED <<envVars, fileVars, tempTag, tmpVars, job, run>>

\* Mutant: the two images are not compared.
AcceptAnyImage(p) ==
    /\ pc[p] = "compare"
    /\ CommandRuns(p)
    /\ run' = [run EXCEPT ![p].second = finalTag[job[p].cohort], ![p].ok = TRUE]
    /\ Goto(p, "sweep")
    /\ UNCHANGED <<envVars, fileVars, dockerVars, tmpVars, job>>

\* The second image is read from the tag, not from the load.
CompareImages(p) ==
    LET seen == finalTag[job[p].cohort]
    IN  /\ pc[p] = "compare"
        /\ CommandRuns(p)
        /\ run' = [run EXCEPT ![p].second = seen, ![p].ok = seen = run[p].first]
        /\ Goto(p, "sweep")
        /\ UNCHANGED <<envVars, fileVars, dockerVars, tmpVars, job>>

\* The inner finally: the archives are removed whatever happened.
SweepOutputs(p) ==
    /\ pc[p] = "sweep"
    /\ tmp' = Without(job[p].cohort, {"first", "second"})
    /\ Goto(p, "untag")
    /\ UNCHANGED <<envVars, fileVars, dockerVars, tools, job, run>>

\* The temporary tag can only be removed while the capacity is current.
RemoveTemporaryTag(p) ==
    /\ pc[p] = "untag"
    /\ CommandRuns(p)
    /\ tempTag' = [tempTag EXCEPT ![job[p].cap] = NoImage]
    /\ Goto(p, IF run[p].ok THEN "validate" ELSE "teardown")
    /\ UNCHANGED <<envVars, fileVars, finalTag, tmpVars, job, run>>

\* Mutant: the source is not compared again after the builds.
ValidateWithoutSource(p, whole) ==
    /\ pc[p] = "validate"
    /\ whole \/ "torn" \in Faults
    /\ CommandRuns(p)
    /\ ~Present(job[p].cohort, {"validation"})
    /\ tmp' = With(job[p].cohort, "validation", job[p].cap, NoImage)
    /\ Goto(p, IF whole THEN "complete" ELSE "teardown")
    /\ UNCHANGED <<envVars, fileVars, dockerVars, tools, job, run>>

\* The execution boundary and the source are checked again and the payload
\* goes into a private file; a short write (whole = FALSE) leaves it there.
ValidatePayload(p, whole) ==
    /\ pc[p] = "validate"
    /\ whole \/ "torn" \in Faults
    /\ CommandRuns(p)
    /\ setSrc[job[p].set] = src
    /\ ~Present(job[p].cohort, {"validation"})
    /\ tmp' = With(job[p].cohort, "validation", job[p].cap, NoImage)
    /\ Goto(p, IF whole THEN "complete" ELSE "teardown")
    /\ UNCHANGED <<envVars, fileVars, dockerVars, tools, job, run>>

\* The readback accepts (or refuses), the private file goes either way, and
\* _write_completion comes before the receipt it refers to.
WriteCompletion(p, valid) ==
    /\ pc[p] = "complete"
    /\ tmp' = Without(job[p].cohort, {"validation"})
    /\ completed' = IF valid THEN completed \cup {job[p].cap} ELSE completed
    /\ Goto(p, IF valid THEN "receipt" ELSE "teardown")
    /\ UNCHANGED <<envVars, setSrc, capFiles, intent, baseline, owner,
                   cleaned, receipt, dockerVars, tools, job, run>>

WriteReceipt(p) ==
    /\ pc[p] = "receipt"
    /\ receipt' = [receipt EXCEPT ![job[p].set][job[p].cohort] = run[p].second]
    /\ Goto(p, "teardown")
    /\ UNCHANGED <<envVars, setSrc, capFiles, intent, baseline, owner,
                   completed, cleaned, dockerVars, tmpVars, job, run>>

-----------------------------------------------------------------------------
(* cleanup_interrupted.                                                    *)

\* Mutant: the capacity snapshot of a cleanup is not filed.
CleanupCapacityUnfiled(p) ==
    /\ pc[p] = "ccapture"
    /\ UnresolvedAttempts(job[p].set, job[p].cohort) = {job[p].target}
    /\ Goto(p, "cuntag")
    /\ UNCHANGED <<envVars, fileVars, dockerVars, tmpVars, job, run>>

CaptureCleanupCapacity(p) ==
    LET k == job[p].cap
    IN  /\ pc[p] = "ccapture"
        /\ UnresolvedAttempts(job[p].set, job[p].cohort) = {job[p].target}
        /\ k \notin capFiles
        /\ capFiles' = capFiles \cup {k}
        /\ Goto(p, "cuntag")
        /\ UNCHANGED <<envVars, setSrc, intent, baseline, owner, completed,
                       cleaned, receipt, dockerVars, tmpVars, job, run>>

RemoveTargetTag(p) ==
    /\ pc[p] = "cuntag"
    /\ CommandRuns(p)
    /\ tempTag' = [tempTag EXCEPT ![job[p].target] = NoImage]
    /\ Goto(p, "cread")
    /\ UNCHANGED <<envVars, fileVars, finalTag, tmpVars, job, run>>

\* _final_tag_state: the baseline, or the image the attempt owns.
FinalTagAttributable(k, c) ==
    \/ finalTag[c] = baseline[k]
    \/ owner[k] # NoImage /\ finalTag[c] = owner[k]

ReadBackCleanup(p) ==
    LET c == job[p].cohort
    IN  /\ pc[p] = "cread"
        /\ CommandRuns(p)
        /\ FinalTagAttributable(job[p].target, c)
        /\ tempTag[job[p].target] = NoImage
        /\ ~Present(c, {"first", "second"})
        /\ Goto(p, "cwrite")
        /\ UNCHANGED <<envVars, fileVars, dockerVars, tmpVars, job, run>>

WriteCleanup(p) ==
    /\ pc[p] = "cwrite"
    /\ cleaned' = [cleaned EXCEPT ![job[p].target] = job[p].cap]
    /\ Goto(p, "teardown")
    /\ UNCHANGED <<envVars, setSrc, capFiles, intent, baseline, owner,
                   completed, receipt, dockerVars, tmpVars, job, run>>

-----------------------------------------------------------------------------
(* Failures.                                                               *)

BuildLabels == {"build1", "load1", "build2", "own", "load2", "compare"}
WriteLabels == {"manifest", "capture", "intent", "own", "complete", "receipt",
                "ccapture", "cwrite"}
\* Mutant: an expired receipt makes the finally clause wait for the tag.
FailLabelsButUntag == BuildLabels \cup {"probe", "capture", "validate",
                                        "ccapture", "cuntag", "cread"}

FailLabels == BuildLabels \cup {"probe", "capture", "untag", "validate",
                                "ccapture", "cuntag", "cread"}

\* Where an exception raised at a label leads: builds run inside a try whose
\* finally sweeps the archives, everything else only tears the tools down.
\* An exception while the set directory is opened leaves no snapshot behind.
Unwind(p) ==
    IF pc[p] = "manifest"
    THEN Return(p)
    ELSE /\ Goto(p, IF pc[p] \in BuildLabels THEN "sweep" ELSE "teardown")
         /\ run' = [run EXCEPT ![p].ok = FALSE]
         /\ UNCHANGED job

\* A check or a command fails: capacity expired or regressed, the tool is
\* gone, the boundary or the source changed, a timeout without effect.
StepFails(p) ==
    /\ pc[p] \in FailLabels
    /\ Unwind(p)
    /\ UNCHANGED <<envVars, fileVars, dockerVars, tmpVars>>

\* _write_new creates the file exclusively before it writes: a short write
\* leaves a file that no later readback accepts.  The validation receipt is
\* gone before the completion is written.
Torn(p) ==
    /\ pc[p] \in WriteLabels
    /\ setSrc' = [setSrc EXCEPT ![job[p].set] = Broken]
    /\ tmp' = IF pc[p] = "complete" THEN Without(job[p].cohort, {"validation"})
              ELSE tmp

WriteFails(p) ==
    /\ "torn" \in Faults
    /\ Torn(p)
    /\ Unwind(p)
    /\ UNCHANGED <<envVars, capFiles, intent, baseline, owner, completed,
                   cleaned, receipt, dockerVars, tools>>

\* A kill or a power loss.  The lock goes with the process; a write in
\* progress may be torn, a copy or a removal of files half done.
Crash(p) ==
    /\ "crash" \in Faults
    /\ pc[p] # "idle"
    /\ Return(p)
    /\ \/ UNCHANGED <<setSrc, tmpVars>>
       \/ Torn(p) /\ UNCHANGED tools
       \/ /\ pc[p] = "sweep"
          /\ tmp' = Without(job[p].cohort, {"first"})
          /\ UNCHANGED <<setSrc, tools>>
       \/ /\ \/ pc[p] = "snapshot" /\ OutputRootReady(p)
             \/ pc[p] = "teardown"
          /\ tools' \in {"none", "partial"}
          /\ UNCHANGED <<setSrc, tmp>>
    /\ UNCHANGED <<envVars, capFiles, intent, baseline, owner, completed,
                   cleaned, receipt, dockerVars>>

-----------------------------------------------------------------------------
Init ==
    /\ src = 0
    /\ expired = {}
    /\ scope = [k \in Caps |-> NoScope]
    /\ setSrc = [s \in Sets |-> Absent]
    /\ capFiles = {}
    /\ intent = {}
    /\ baseline = [k \in Caps |-> NoImage]
    /\ owner = [k \in Caps |-> NoImage]
    /\ completed = {}
    /\ cleaned = [k \in Caps |-> NoCap]
    /\ receipt = [s \in Sets |-> [c \in Cohorts |-> NoImage]]
    /\ tempTag = [k \in Caps |-> NoImage]
    /\ finalTag \in [Cohorts -> {NoImage, Prior}]
    /\ tmp = {}
    /\ tools = "none"
    /\ pc = [p \in Procs |-> "idle"]
    /\ job = [p \in Procs |-> NoJob]
    /\ run = [p \in Procs |-> NoRun]

\* What the program does by itself; the rest is the operator and the host.
Advance(p) ==
    \/ CreateSet(p) \/ WriteManifest(p) \/ AbandonSet(p) \/ OpenSet(p)
    \/ AdmitQualification(p) \/ AdmitCleanup(p)
    \/ SnapshotTools(p) \/ SnapshotRefused(p)
    \/ Probe(p) \/ CaptureCapacity(p) \/ WriteIntent(p)
    \/ \E b \in Builds, ok \in BOOLEAN : BuildFirst(p, b, ok)
    \/ \E ok \in BOOLEAN : LoadFirst(p, ok)
    \/ \E b \in Builds, ok \in BOOLEAN : BuildSecond(p, b, ok)
    \/ WriteOwnership(p)
    \/ \E ok \in BOOLEAN : LoadSecond(p, ok)
    \/ CompareImages(p) \/ SweepOutputs(p) \/ RemoveTemporaryTag(p)
    \/ \E whole \in BOOLEAN : ValidatePayload(p, whole)
    \/ \E valid \in BOOLEAN : WriteCompletion(p, valid)
    \/ WriteReceipt(p)
    \/ CaptureCleanupCapacity(p) \/ RemoveTargetTag(p)
    \/ ReadBackCleanup(p) \/ WriteCleanup(p)
    \/ StepFails(p) \/ Teardown(p)

Next ==
    \/ SourceChanges
    \/ \E k \in Caps : CapacityExpires(k)
    \/ \E p \in Procs :
          \/ Advance(p)
          \/ WriteFails(p)
          \/ Crash(p)
          \/ \E s \in Sets, c \in Cohorts, op \in Operations, k \in Caps :
                Invoke(p, s, c, op, k)

Spec == Init /\ [][Next]_vars

\* A running process keeps executing; nobody has to start one.
FairSpec == Spec /\ \A p \in Procs : WF_vars(Advance(p))

-----------------------------------------------------------------------------
(* Properties.                                                             *)

Labels == {"idle", "open", "admit", "snapshot", "probe", "sweep", "untag",
           "validate", "cuntag", "cread", "teardown"}
          \cup BuildLabels \cup WriteLabels

Jobs == [set : Sets, cohort : Cohorts, op : Operations, cap : Caps,
         target : Caps \cup {NoCap}]
Runs == [bound : Sources, prev : Images \cup {NoImage},
         first : Images \cup {NoImage}, second : Images \cup {NoImage},
         ok : BOOLEAN]

\* The variables range over the values the script can write, and a process
\* has a job exactly while it runs.
TypeOK ==
    /\ src \in Sources
    /\ expired \subseteq Caps
    /\ scope \in [Caps -> [set : Sets, cohort : Cohorts, op : Operations]
                          \cup {NoScope}]
    /\ setSrc \in [Sets -> Sources \cup {Absent, Broken}]
    /\ capFiles \subseteq Caps
    /\ intent \subseteq Caps
    /\ baseline \in [Caps -> Images \cup {NoImage}]
    /\ owner \in [Caps -> Images \cup {NoImage}]
    /\ completed \subseteq Caps
    /\ cleaned \in [Caps -> Caps \cup {NoCap}]
    /\ receipt \in [Sets -> [Cohorts -> Images \cup {NoImage}]]
    /\ tempTag \in [Caps -> Images \cup {NoImage}]
    /\ finalTag \in [Cohorts -> Images \cup {NoImage}]
    /\ tmp \subseteq Outputs
    /\ tools \in {"none", "partial", "full"}
    /\ pc \in [Procs -> Labels]
    /\ job \in [Procs -> Jobs \cup {NoJob}]
    /\ run \in [Procs -> Runs]
    /\ \A p \in Procs : pc[p] = "idle" <=> job[p] = NoJob

SameCohort(k1, k2) ==
    scope[k1].set = scope[k2].set /\ scope[k1].cohort = scope[k2].cohort

\* Of the attempts on one cohort of one set, all but one have been cleaned
\* up: retry is blocked until the interrupted attempt is resolved, so the
\* "exactly one unresolved attempt" cleanup_interrupted asks for exists.
OneOpenAttempt ==
    \A k1, k2 \in intent :
        SameCohort(k1, k2) /\ k1 # k2 => cleaned[k1] # NoCap \/ cleaned[k2] # NoCap

\* No attempt is both qualified and cleaned up, whatever was interrupted
\* between the completion and the receipt (the conflict _attempt_resolved
\* raises on).
NoConflictingResolution == \A k \in completed : cleaned[k] = NoCap

\* Everything an interrupted build leaves in Docker's temporary tags or in
\* tmp/qualification belongs to an attempt whose intent is on disk and is
\* not resolved: the intent precedes the first mutation.
ResidueHasIntent ==
    /\ \A k \in Caps : tempTag[k] # NoImage =>
          k \in intent \ completed /\ cleaned[k] = NoCap
    /\ \A o \in tmp : \E k \in intent \ completed :
          scope[k].cohort = o.cohort /\ cleaned[k] = NoCap

\* A step moves a cohort's final tag only while an unresolved attempt on the
\* cohort has its ownership receipt on disk.
FinalTagAuthorized ==
    [][\A c \in Cohorts : finalTag'[c] # finalTag[c] =>
          \E k \in intent \ completed :
             scope[k].cohort = c /\ owner[k] # NoImage /\ cleaned[k] = NoCap]_vars

\* A qualification receipt names the image that both builds of one completed
\* attempt produced and that the attempt's ownership receipt announced.
ReceiptRepeatable ==
    \A s \in Sets, c \in Cohorts : receipt[s][c] # NoImage =>
        \E k \in completed : /\ scope[k].set = s /\ scope[k].cohort = c
                             /\ owner[k] = receipt[s][c]

\* The qualified image was built from the source the set's manifest binds,
\* although the source is only compared before and after the builds.
ReceiptBindsSource ==
    \A s \in Sets, c \in Cohorts :
        receipt[s][c] # NoImage /\ setSrc[s] # Broken => receipt[s][c][2] = setSrc[s]

-----------------------------------------------------------------------------
(* The inductive invariant behind the attempt properties, by parts.        *)

\* _cohort_lock: two running processes work on different sets.
OneProcessPerSet ==
    \A p, q \in Procs : p # q /\ pc[p] # "idle" /\ pc[q] # "idle" =>
        job[p].set # job[q].set

\* require_scope: a running process holds the receipt issued for its work.
JobScoped ==
    \A p \in Procs : pc[p] # "idle" =>
        scope[job[p].cap] = [set |-> job[p].set, cohort |-> job[p].cohort,
                             op |-> job[p].op]

\* The order in which an attempt's files appear.
FilesOrdered ==
    /\ completed \subseteq intent
    /\ intent \subseteq capFiles
    /\ \A k \in Caps : cleaned[k] # NoCap => k \in intent
    /\ \A k \in capFiles : scope[k] # NoScope

\* A set that is not there, or has no manifest yet, has no files.
NewSetsEmpty ==
    /\ \A s \in Sets : setSrc[s] = Absent => CapFilesOf(s) = {}
    /\ \A p \in Procs : pc[p] = "manifest" => CapFilesOf(job[p].set) = {}
    /\ \A p \in Procs : pc[p] \notin {"idle", "open"} => setSrc[job[p].set] # Absent

AttemptLabels == BuildLabels \cup {"sweep", "untag", "validate", "complete"}

\* While a process works on its attempt the attempt is open, and the attempts
\* before it are cleaned up.
AttemptOpen ==
    \A p \in Procs : LET k == job[p].cap IN
        /\ pc[p] = "intent" =>
              /\ k \in capFiles \ intent
              /\ \A a \in intent :
                    scope[a].set = job[p].set /\ scope[a].cohort = job[p].cohort
                       => cleaned[a] # NoCap
        /\ pc[p] \in AttemptLabels =>
              k \in intent \ completed /\ cleaned[k] = NoCap
        /\ pc[p] \in {"build2", "own"} => run[p].first # NoImage
        /\ pc[p] \in {"load2", "compare"} => owner[k] # NoImage

\* A set that was opened has a receipt for every completion, so the attempt
\* a cleanup picks is not a completed one.
CleanupTargetOpen ==
    \A p \in Procs :
        /\ pc[p] = "admit" => \A k \in CompletionsOf(job[p].set) :
              receipt[job[p].set][scope[k].cohort] # NoImage
        /\ job[p].target # NoCap =>
              /\ job[p].target \in intent \ completed
              /\ scope[job[p].target].set = job[p].set
              /\ job[p].op = "cleanup"
              /\ pc[p] \in {"snapshot", "ccapture", "cuntag", "cread", "cwrite",
                            "teardown"}
        /\ pc[p] = "snapshot" /\ job[p].op = "cleanup" => job[p].target # NoCap
        /\ pc[p] \in {"ccapture", "cuntag", "cread", "cwrite"} =>
              job[p].target # NoCap

\* What every step of every process preserves; the lock, the receipts' scope
\* and the order of the files together keep an attempt with one owner.
AttemptInv ==
    /\ OneProcessPerSet
    /\ JobScoped
    /\ FilesOrdered
    /\ NewSetsEmpty
    /\ AttemptOpen
    /\ CleanupTargetOpen
    /\ OneOpenAttempt
    /\ NoConflictingResolution

-----------------------------------------------------------------------------
(* The inductive invariants behind the receipts, the residue of            *)
(* interrupted attempts and the source of the images, on top of AttemptInv.*)

\* Two builds that agreed: their image is the one the ownership receipt names.
BuildsAgree(p) ==
    LET k == job[p].cap IN
    /\ run[p].ok => pc[p] \in {"sweep", "untag", "validate", "complete",
                               "receipt", "teardown"}
    /\ pc[p] \in {"load2", "compare"} => owner[k] = run[p].first
    /\ pc[p] \in {"validate", "complete", "receipt"} => run[p].ok
    /\ run[p].ok /\ pc[p] # "teardown" =>
          owner[k] = run[p].second /\ owner[k] # NoImage
    /\ pc[p] = "receipt" => k \in completed
    /\ pc[p] \in {"cuntag", "cread", "cwrite"} => k \in capFiles

\* A completion has an ownership receipt; a cleanup has the filed capacity
\* receipt of a cleanup of the same set.
ResolutionsFiled ==
    /\ \A k \in completed : owner[k] # NoImage
    /\ \A k \in Caps : cleaned[k] # NoCap =>
          /\ cleaned[k] \in capFiles
          /\ scope[cleaned[k]].op = "cleanup"
          /\ scope[cleaned[k]].set = scope[k].set

ReceiptInv ==
    /\ \A p \in Procs : BuildsAgree(p)
    /\ ResolutionsFiled
    /\ ReceiptRepeatable

OpenAttempts == {k \in intent \ completed : cleaned[k] = NoCap}

\* An attempt on its way to a completion or a cleanup has got rid of its files
\* and of its temporary tag.
ResidueGone(p) ==
    /\ pc[p] \in {"untag", "validate", "complete"} =>
          \A o \in tmp : o.by = job[p].cap => o.file = "validation"
    /\ pc[p] \in {"validate", "complete"} => tempTag[job[p].cap] = NoImage
    /\ pc[p] \in {"snapshot", "ccapture", "cuntag", "cread", "cwrite"} =>
          \A o \in tmp : o.by # job[p].target
    /\ pc[p] \in {"cread", "cwrite"} => tempTag[job[p].target] = NoImage

\* Every file and every temporary tag is of an open attempt.
ResidueInv ==
    /\ \A k \in Caps : tempTag[k] # NoImage => k \in OpenAttempts
    /\ \A o \in tmp : o.by \in OpenAttempts /\ scope[o.by].cohort = o.cohort
    /\ \A p \in Procs : ResidueGone(p)

BuiltImages == Cohorts \X Sources \X Builds

\* An image built since the source of set s was bound.
BuiltSince(image, s) ==
    image \in BuiltImages /\ setSrc[s] <= image[2] /\ image[2] <= src

\* Between the comparisons of probe and validate the source only moves on, and
\* what a process can load or read meanwhile was built meanwhile.
SourceHeld(p) ==
    LET s == job[p].set IN
    /\ pc[p] \in {"capture", "intent"} \cup BuildLabels =>
          /\ setSrc[s] \in Sources /\ setSrc[s] <= src
          /\ \A o \in tmp : o.cohort = job[p].cohort /\ o.file # "validation"
                => setSrc[s] <= o.image[2]
    /\ pc[p] = "compare" => BuiltSince(finalTag[job[p].cohort], s)
    /\ run[p].ok /\ pc[p] \in {"sweep", "untag", "validate"} =>
          setSrc[s] \in Sources /\ BuiltSince(run[p].second, s)
    /\ pc[p] \in {"complete", "receipt"} =>
          setSrc[s] \in Sources /\ run[p].second[2] = setSrc[s]

SourceInv ==
    /\ ReceiptBindsSource
    /\ \A o \in tmp : o.file # "validation" =>
          o.image \in BuiltImages /\ o.image[2] <= src
    /\ \A p \in Procs : SourceHeld(p)

-----------------------------------------------------------------------------
SetIdle(s) == \A p \in Procs : job[p].set # s

\* A readable set that _validate_set_graph refuses holds one of two traces
\* of an interruption: a capacity file nothing refers to, or a completion
\* without its receipt.  The other refusals never strike the script's own
\* files.
RefusalHasOrphan ==
    \A s \in Sets : SetIdle(s) /\ setSrc[s] \in Sources /\ ~ValidSetGraph(s) =>
        \/ \E k \in CapFilesOf(s) \ intent : \A a \in Caps : cleaned[a] # k
        \/ \E k \in CompletionsOf(s) : receipt[s][scope[k].cohort] = NoImage

\* Every invocation ends, and with it the lock on its set.
InvocationEnds == \A p \in Procs : pc[p] # "idle" ~> pc[p] = "idle"

\* README: "A per-set process lock and attempt-unique temporary tag prevent
\* concurrent qualification from sharing mutation state."  While a process
\* uses its tool snapshot, no other process removes it.
SnapshotNotShared ==
    \A p \in Procs :
        pc[p] \in (FailLabels \cup WriteLabels) \ {"manifest"} => tools = "full"

\* README: "Before retrying that cohort, issue a new receipt with
\* --operation cleanup and run the qualifier".  When nothing was killed or
\* torn, an idle set whose source is unchanged opens again.
CleanupCanBeRetried ==
    \A s \in Sets : SetIdle(s) /\ setSrc[s] = src => SetOpens(s)
=============================================================================
