----------------------- MODULE RefreshCandidateProofs -----------------------
(***************************************************************************)
(* Proofs about RefreshCandidate, for any commands, names, targets,        *)
(* servers, states of the repository and bounds: type correctness, what is *)
(* staged for a target is what was approved for it, whole, from one tree,  *)
(* with the grades of its own scans, and that staging implements Release.  *)
(*                                                                         *)
(* The argument follows one command.  Until it writes a directory, a       *)
(* create remembers inputs that agree with its tree, and a history from    *)
(* which the masked servers were deleted.  From its capture on, an approve *)
(* or a publish works on the captured directory only, which no edit, swap  *)
(* or damage can reach; whatever PublicationReady found of it stays true.  *)
(***************************************************************************)
EXTENDS RefreshCandidate, WellFoundedInduction, TLAPS

\* What holds of a directory under a candidate name even when it is damaged
\* or swapped: a real candidate agrees with its tree, and nothing is shown or
\* kept that a mask or a failure withholds.
Withheld(c) ==
    /\ c.state # "fixture" => c.inputs = c.tree.inputs
    /\ \A s \in Servers : /\ s \in MaskedBy[c.inputs] => c.latest[s] = "none"
                          /\ c.rows[s] # "fresh" => c.exposed[s] = "none"

\* What the checks of a publication establish of its content at the time at.
Sound(c, at) ==
    /\ c.intact /\ c.state = "complete"
    /\ at < c.created + Lifetime
    /\ \A s \in Servers :
          c.exposed[s] = IF c.rows[s] = "fresh" THEN "own" ELSE "none"
    /\ c.inputs = c.tree.inputs
    /\ Rows(c, "blocked") = BlockedBy[c.inputs]
    /\ Rows(c, "masked") = MaskedBy[c.inputs] \ BlockedBy[c.inputs]

\* A read-only approval covered this content for this target at the time at.
Covered(t, c, at) ==
    \E a \in approvals : /\ a.digest = c /\ a.target = t /\ a.readonly
                         /\ a.from <= at /\ at < a.until

\* What every command knows, and what it knows at each stage.
Known(j) ==
    /\ {"op", "stage", "name", "at", "reviewed"} \subseteq DOMAIN j
    /\ j.op \in {"create", "approve", "publish"}
    /\ j.name \in Names /\ j.reviewed \in Inputs
    /\ j.op = "create" => "fixture" \in DOMAIN j /\ j.fixture \in BOOLEAN
    /\ j.op \in {"approve", "publish"} => "target" \in DOMAIN j /\ j.target \in Targets

Qualified(j) ==
    /\ {"tree", "blocked"} \subseteq DOMAIN j
    /\ j.tree \in Trees
    /\ ~ j.fixture => j.reviewed = j.tree.inputs

Scans(j) ==
    /\ {"history", "rows", "recorded", "files"} \subseteq DOMAIN j
    /\ j.rows \in [Servers -> Settled \cup {"todo"}]
    /\ j.files \subseteq Servers
    /\ \A s \in Servers \cap MaskedBy[j.reviewed] :
          s \notin j.recorded /\ j.history[s] = NoScan

Captured(j) ==
    /\ {"captured", "seen"} \subseteq DOMAIN j
    /\ j.captured \in Directories
    /\ Withheld(j.captured.content)

CommandInv(p) ==
    LET j == job[p]
    IN  /\ Known(j) /\ j.at \in 1..now
        /\ j.stage \in {"qualify", "stage", "scan"} => j.op = "create"
        /\ j.stage \in {"copy", "rename", "sealcopy"} => j.op = "publish"
        /\ j.stage \in {"stage", "scan"} => Qualified(j)
        /\ j.stage = "scan" => Scans(j)
        /\ j.stage \in {"recapture", "copy", "rename"} => Captured(j)
        /\ j.stage \in {"copy", "rename"} =>
              /\ Sound(j.captured.content, j.at)
              /\ Covered(j.target, j.captured.content, j.at)
        /\ j.stage = "sealcopy" => publications[j.target][j.name] # Nothing

PublishedInv ==
    \A t \in Targets, n \in Names :
        publications[t][n] # Nothing =>
            LET q == publications[t][n]
            IN  Sound(q.content, q.at) /\ Covered(t, q.content, q.at)

RefreshInv ==
    /\ TypeOK
    /\ job = [p \in Procs |-> job[p]]
    /\ \A p \in Procs : job[p] # Nothing => CommandInv(p)
    /\ \A n \in Names : candidates[n] # Nothing => Withheld(candidates[n].content)
    /\ PublishedInv

-----------------------------------------------------------------------------
\* The next server of a scan is one that is still to be scanned.
LEMMA NextServerIsTodo ==
    ASSUME NEW p \in Procs, Scanning(p)
    PROVE  NextServer(p) \in Servers /\ job[p].rows[NextServer(p)] = "todo"
<1> DEFINE S == {s \in Servers : job[p].rows[s] = "todo"}
<1>1. S \subseteq Nat /\ S # {}
  BY RefreshConstants DEF Scanning, Servers
<1>2. \E x \in S : \A y \in S : ~ (<<y, x>> \in OpToRel(<, Nat))
  BY <1>1, WFMin, NatLessThanWellFounded
<1>3. PICK x \in S : \A y \in S : ~ (<<y, x>> \in OpToRel(<, Nat))
  BY <1>2
<1>4. \A y \in S : <<y, x>> \in OpToRel(<, Nat) <=> y < x
  BY <1>1 DEF OpToRel
<1>5. \A y \in S : x <= y
  <2> TAKE y \in S
  <2>1. x \in Nat /\ y \in Nat /\ ~ (y < x) BY <1>1, <1>3, <1>4
  <2> QED BY <2>1
<1>6. Min(S) \in S
  BY <1>5 DEF Min
<1> QED BY <1>6 DEF NextServer

\* Remembering new values keeps the old ones under every other name.
LEMMA WithFacts ==
    ASSUME NEW j, NEW new
    PROVE  /\ DOMAIN With(j, new) = DOMAIN j \cup DOMAIN new
           /\ \A f \in DOMAIN new : With(j, new)[f] = new[f]
           /\ \A f \in DOMAIN j \ DOMAIN new : With(j, new)[f] = j[f]
BY DEF With

\* A command that goes on with sound content has sound content.
LEMMA SoundOf ==
    ASSUME NEW p \in Procs, Sound(job[p].captured.content, job[p].at),
           job'[p].captured = job[p].captured, job'[p].at = job[p].at
    PROVE  Sound(job[p].captured.content, job[p].at)'
<1>1. Sound(job'[p].captured.content, job'[p].at)
  OBVIOUS
<1> QED
  BY <1>1 DEF Sound, Rows

\* A step that changes neither what a command knows nor what it depends on
\* leaves the command's part of the invariant alone.  Approvals grow, time
\* passes, and a staged name stays taken.
LEMMA CommandUndisturbed ==
    ASSUME NEW p \in Procs, CommandInv(p), job'[p] = job[p],
           now \in Nat, now' \in Nat, now <= now',
           approvals \subseteq approvals',
           \A t \in Targets, n \in Names :
              publications[t][n] # Nothing => publications'[t][n] # Nothing
    PROVE  CommandInv(p)'
<1>1. \A t, c, at : Covered(t, c, at) => Covered(t, c, at)'
  BY DEF Covered
<1> DEFINE j == job[p]
<1>3. j.at \in 1..now' BY DEF CommandInv
<1>4. j.stage = "sealcopy" => publications'[j.target][j.name] # Nothing
  BY DEF CommandInv, Known
<1>5. j.stage \in {"copy", "rename"} => Covered(j.target, j.captured.content, j.at)'
  BY <1>1 DEF CommandInv
<1>6. Known(job[p])'
  BY DEF CommandInv, Known
<1>7. /\ j.stage \in {"stage", "scan"} => Qualified(job[p])'
      /\ j.stage = "scan" => Scans(job[p])'
  BY DEF CommandInv, Qualified, Scans
<1>8. j.stage \in {"recapture", "copy", "rename"} => Captured(job[p])'
  BY DEF CommandInv, Captured, Withheld
<1>9. j.stage \in {"copy", "rename"} => Sound(job[p].captured.content, job[p].at)'
  BY SoundOf DEF CommandInv
<1>10. j.stage \in {"copy", "rename"} =>
          Covered(job[p].target, job[p].captured.content, job[p].at)'
  BY <1>5 DEF Covered
<1> QED
  BY <1>3, <1>4, <1>6, <1>7, <1>8, <1>9, <1>10 DEF CommandInv

\* What is staged stays sound and covered while approvals only grow.
LEMMA PublishedUndisturbed ==
    ASSUME PublishedInv, approvals \subseteq approvals', UNCHANGED publications
    PROVE  PublishedInv'
<1>1. \A t, c, at : Covered(t, c, at) => Covered(t, c, at)'
  BY DEF Covered
<1> QED BY <1>1 DEF PublishedInv, Sound, Rows

\* A step of one command leaves the others alone.
LEMMA OneCommandMoves ==
    ASSUME RefreshInv, NEW p \in Procs, NEW x, job' = [job EXCEPT ![p] = x],
           x # Nothing => CommandInv(p)',
           now' = now,
           approvals \subseteq approvals',
           \A t \in Targets, n \in Names :
              publications[t][n] # Nothing => publications'[t][n] # Nothing
    PROVE  /\ job' = [q \in Procs |-> job'[q]]
           /\ \A q \in Procs : job'[q] # Nothing => CommandInv(q)'
           /\ \A q \in Procs : job'[q] # Nothing =>
                 /\ job'[q].op \in {"create", "approve", "publish"}
                 /\ job'[q].at \in 1..now'
<1>1. now \in Nat /\ now <= now'
  BY DEF RefreshInv, TypeOK
<1>2. \A q \in Procs \ {p} : job'[q] = job[q]
  BY DEF RefreshInv
<1>3. job'[p] = x
  BY DEF RefreshInv
<1>4. job' = [q \in Procs |-> job'[q]]
  BY DEF RefreshInv
<1>5. ASSUME NEW q \in Procs, job'[q] # Nothing PROVE CommandInv(q)'
  <2>1. CASE q = p BY <1>3, <1>5, <2>1
  <2>2. CASE q # p
    <3>1. CommandInv(q) /\ job'[q] = job[q] BY <1>2, <1>5, <2>2 DEF RefreshInv
    <3> QED BY <1>1, <3>1, CommandUndisturbed
  <2> QED BY <2>1, <2>2
<1>6. \A q \in Procs : CommandInv(q)' =>
         /\ job'[q].op \in {"create", "approve", "publish"}
         /\ job'[q].at \in 1..now'
  BY DEF CommandInv, Known
<1> QED BY <1>4, <1>5, <1>6

\* A step of a command that changes nothing but what the command knows.
LEMMA QuietStep ==
    ASSUME RefreshInv, NEW p \in Procs, NEW x, job' = [job EXCEPT ![p] = x],
           x # Nothing => CommandInv(p)',
           UNCHANGED <<now, tree, registry, candidates, approvals, publications>>
    PROVE  RefreshInv'
<1>1. /\ job' = [q \in Procs |-> job'[q]]
      /\ \A q \in Procs : job'[q] # Nothing => CommandInv(q)'
      /\ \A q \in Procs : job'[q] # Nothing =>
            /\ job'[q].op \in {"create", "approve", "publish"}
            /\ job'[q].at \in 1..now'
  BY OneCommandMoves
<1>2. TypeOK'
  BY <1>1 DEF RefreshInv, TypeOK
<1>3. PublishedInv'
  BY PublishedUndisturbed DEF RefreshInv
<1> QED BY <1>1, <1>2, <1>3 DEF RefreshInv, Withheld

-----------------------------------------------------------------------------
\* The start of a command reads the clock and the inputs.
LEMMA StartStep ==
    ASSUME RefreshInv, NEW p \in Procs, NEW n \in Names,
           \/ \E fixture \in FixtureModes : StartCreate(p, n, fixture)
           \/ \E t \in Targets : StartApprove(p, n, t) \/ StartPublish(p, n, t)
    PROVE  RefreshInv'
<1>1. tree.inputs \in Inputs /\ now \in 1..now
  BY DEF RefreshInv, TypeOK, Inputs
<1>2. ASSUME NEW fixture \in FixtureModes, StartCreate(p, n, fixture)
      PROVE  RefreshInv'
  <2> DEFINE x == [op |-> "create", stage |-> "qualify", name |-> n,
                   at |-> now, reviewed |-> tree.inputs, fixture |-> fixture]
  <2>1. job' = [job EXCEPT ![p] = x]
        /\ UNCHANGED <<now, tree, registry, candidates, approvals, publications>>
    BY <1>2 DEF StartCreate, ReviewedInputs
  <2>2. /\ DOMAIN x = {"op", "stage", "name", "at", "reviewed", "fixture"}
        /\ x.op = "create" /\ x.stage = "qualify" /\ x.name = n /\ x.at = now
        /\ x.reviewed = tree.inputs /\ x.fixture = fixture
    OBVIOUS
  <2>3. fixture \in BOOLEAN BY RefreshConstants
  <2> HIDE DEF x
  <2>4. job'[p] = x BY <2>1 DEF RefreshInv
  <2>5. Known(x) BY <1>1, <2>2, <2>3 DEF Known
  <2>6. CommandInv(p)' BY <1>1, <2>1, <2>2, <2>4, <2>5 DEF CommandInv, Known
  <2> QED BY <2>1, <2>6, QuietStep
<1>3. ASSUME NEW t \in Targets, StartApprove(p, n, t)
      PROVE  RefreshInv'
  <2> DEFINE x == [op |-> "approve", stage |-> "capture", name |-> n, target |-> t,
                   at |-> now, reviewed |-> tree.inputs,
                   confirmed |-> candidates[n].content]
  <2>1. job' = [job EXCEPT ![p] = x]
        /\ UNCHANGED <<now, tree, registry, candidates, approvals, publications>>
    BY <1>3 DEF StartApprove, ReviewedInputs
  <2>2. /\ {"op", "stage", "name", "target", "at", "reviewed"} \subseteq DOMAIN x
        /\ x.op = "approve" /\ x.stage = "capture" /\ x.name = n /\ x.target = t
        /\ x.at = now /\ x.reviewed = tree.inputs
    OBVIOUS
  <2> HIDE DEF x
  <2>3. job'[p] = x BY <2>1 DEF RefreshInv
  <2>4. Known(x) BY <1>1, <2>2 DEF Known
  <2>5. CommandInv(p)' BY <1>1, <2>1, <2>2, <2>3, <2>4 DEF CommandInv, Known
  <2> QED BY <2>1, <2>5, QuietStep
<1>4. ASSUME NEW t \in Targets, StartPublish(p, n, t)
      PROVE  RefreshInv'
  <2> DEFINE x == [op |-> "publish", stage |-> "capture", name |-> n, target |-> t,
                   at |-> now, reviewed |-> tree.inputs]
  <2>1. job' = [job EXCEPT ![p] = x]
        /\ UNCHANGED <<now, tree, registry, candidates, approvals, publications>>
    BY <1>4 DEF StartPublish, ReviewedInputs
  <2>2. /\ {"op", "stage", "name", "target", "at", "reviewed"} \subseteq DOMAIN x
        /\ x.op = "publish" /\ x.stage = "capture" /\ x.name = n /\ x.target = t
        /\ x.at = now /\ x.reviewed = tree.inputs
    OBVIOUS
  <2> HIDE DEF x
  <2>3. job'[p] = x BY <2>1 DEF RefreshInv
  <2>4. Known(x) BY <1>1, <2>2 DEF Known
  <2>5. CommandInv(p)' BY <1>1, <2>1, <2>2, <2>3, <2>4 DEF CommandInv, Known
  <2> QED BY <2>1, <2>5, QuietStep
<1> QED BY <1>2, <1>3, <1>4

\* What a command was started with, it knows at every later stage.
LEMMA StartIsKept ==
    ASSUME NEW j, NEW new, Known(j),
           DOMAIN new \cap {"op", "name", "at", "reviewed", "fixture", "target"} = {},
           NEW x, x = With(j, new)
    PROVE  /\ Known(x)
           /\ x.op = j.op /\ x.name = j.name /\ x.at = j.at
           /\ x.reviewed = j.reviewed
           /\ j.op = "create" => x.fixture = j.fixture
           /\ j.op \in {"approve", "publish"} => x.target = j.target
<1>1. /\ DOMAIN x = DOMAIN j \cup DOMAIN new
      /\ \A f \in DOMAIN j \ DOMAIN new : x[f] = j[f]
  BY WithFacts
<1>2. \A f \in {"op", "name", "at", "reviewed", "fixture", "target"} :
         f \in DOMAIN j => f \in DOMAIN x /\ x[f] = j[f]
  BY <1>1
<1>3. /\ x.op = j.op /\ x.name = j.name /\ x.at = j.at /\ x.reviewed = j.reviewed
      /\ j.op = "create" => x.fixture = j.fixture
      /\ j.op \in {"approve", "publish"} => x.target = j.target
  BY <1>2 DEF Known
<1>4. "stage" \in DOMAIN x
  BY <1>1 DEF Known
<1> QED BY <1>2, <1>3, <1>4 DEF Known

\* The tree the candidate is made from agrees with the inputs read at the
\* start.
LEMMA QualifyStep ==
    ASSUME RefreshInv, NEW p \in Procs, Qualify(p)
    PROVE  RefreshInv'
<1> DEFINE j == job[p]
<1> DEFINE new == [tree |-> tree,
                   blocked |-> IF j.fixture THEN {} ELSE BlockedBy[tree.inputs],
                   stage |-> "stage"]
<1> DEFINE x == With(j, new)
<1>1. /\ j # Nothing /\ j.stage = "qualify" /\ QualificationAgrees(j)
      /\ CommandInv(p)
  BY DEF Qualify, Step, RefreshInv
<1>2. /\ job' = [job EXCEPT ![p] = x]
      /\ UNCHANGED <<now, tree, registry, candidates, approvals, publications>>
  BY DEF Qualify, RefreshInv
<1>3. /\ DOMAIN new = {"tree", "blocked", "stage"}
      /\ new["tree"] = tree /\ new["stage"] = "stage"
  OBVIOUS
<1> HIDE DEF new
<1>4. /\ Known(x) /\ x.op = "create" /\ x.at = j.at /\ x.reviewed = j.reviewed
      /\ x.fixture = j.fixture
  <2>1. Known(j) /\ j.op = "create" BY <1>1 DEF CommandInv
  <2> HIDE DEF j
  <2> QED BY <1>3, <2>1, StartIsKept
<1>5. {"tree", "blocked"} \subseteq DOMAIN x /\ x.tree = tree /\ x.stage = "stage"
  <2>1. /\ DOMAIN x = DOMAIN j \cup DOMAIN new
        /\ \A f \in DOMAIN new : x[f] = new[f]
    BY WithFacts
  <2> HIDE DEF x
  <2> QED BY <1>3, <2>1
<1> HIDE DEF x
<1>6. job'[p] = x
  BY <1>2 DEF RefreshInv
<1>7. Qualified(x)
  BY <1>1, <1>4, <1>5 DEF Qualified, QualificationAgrees, RefreshInv, TypeOK
<1>8. CommandInv(p)'
  BY <1>1, <1>2, <1>4, <1>5, <1>6, <1>7 DEF CommandInv, Known, Qualified
<1> QED BY <1>2, <1>8, QuietStep

\* The history starts without the scans of the masked servers.
LEMMA StageStep ==
    ASSUME RefreshInv, NEW p \in Procs, Stage(p)
    PROVE  RefreshInv'
<1> DEFINE j == job[p]
<1> DEFINE h == [s \in Servers |->
                   IF s \in MaskedBy[j.reviewed] THEN NoScan ELSE registry[s]]
<1> DEFINE todo == [s \in Servers |-> "todo"]
<1> DEFINE new == [stage |-> "scan", history |-> h, rows |-> todo,
                   recorded |-> {}, files |-> {}]
<1> DEFINE x == With(j, new)
<1>1. j # Nothing /\ j.stage = "stage" /\ CommandInv(p)
  BY DEF Stage, Step, RefreshInv
<1>2. /\ job' = [job EXCEPT ![p] = x]
      /\ UNCHANGED <<now, tree, registry, candidates, approvals, publications>>
  BY DEF Stage, Staged, RefreshInv
<1>3. /\ \A s \in Servers \cap MaskedBy[j.reviewed] : h[s] = NoScan
      /\ todo \in [Servers -> Settled \cup {"todo"}]
  OBVIOUS
<1> HIDE DEF h, todo
<1>4. /\ DOMAIN new = {"stage", "history", "rows", "recorded", "files"}
      /\ new["stage"] = "scan" /\ new["history"] = h /\ new["rows"] = todo
      /\ new["recorded"] = {} /\ new["files"] = {}
  OBVIOUS
<1> HIDE DEF new
<1>5. /\ Known(x) /\ x.op = "create" /\ x.at = j.at /\ x.reviewed = j.reviewed
      /\ x.fixture = j.fixture
  <2>1. Known(j) /\ j.op = "create" BY <1>1 DEF CommandInv
  <2> HIDE DEF j
  <2> QED BY <1>4, <2>1, StartIsKept
<1>6. /\ {"history", "rows", "recorded", "files", "tree", "blocked"} \subseteq DOMAIN x
      /\ x.stage = "scan" /\ x.history = h /\ x.rows = todo
      /\ x.recorded = {} /\ x.files = {} /\ x.tree = j.tree
  <2>1. {"tree", "blocked"} \subseteq DOMAIN j BY <1>1 DEF CommandInv, Qualified
  <2>2. "tree" \in DOMAIN j \ DOMAIN new BY <1>4, <2>1
  <2>3. /\ DOMAIN x = DOMAIN j \cup DOMAIN new
        /\ \A f \in DOMAIN new : x[f] = new[f]
        /\ \A f \in DOMAIN j \ DOMAIN new : x[f] = j[f]
    BY WithFacts
  <2> HIDE DEF x
  <2> QED BY <1>4, <2>1, <2>2, <2>3
<1> HIDE DEF x
<1>7. job'[p] = x
  BY <1>2 DEF RefreshInv
<1>8. Qualified(x)
  BY <1>1, <1>5, <1>6 DEF CommandInv, Qualified
<1>9. Scans(x)
  BY <1>3, <1>5, <1>6 DEF Scans
<1>10. CommandInv(p)'
  BY <1>1, <1>2, <1>5, <1>6, <1>7, <1>8, <1>9
     DEF CommandInv, Known, Qualified, Scans
<1> QED BY <1>2, <1>10, QuietStep

\* The result of one scan settles one row; a masked server is never recorded.
LEMMA ScannedStep ==
    ASSUME RefreshInv, NEW p \in Procs, Scanning(p),
           NEW s \in Servers, NEW row \in Settled,
           NEW wrote \in BOOLEAN, NEW record \in BOOLEAN,
           record => s \notin MaskedBy[job[p].reviewed],
           Scanned(p, s, row, wrote, record),
           UNCHANGED <<now, tree, registry, candidates, approvals, publications>>
    PROVE  RefreshInv'
<1> DEFINE j == job[p]
<1> DEFINE x == [j EXCEPT !.rows = [j.rows EXCEPT ![s] = row],
                          !.files = IF wrote THEN @ \cup {s} ELSE @,
                          !.recorded = IF record THEN @ \cup {s} ELSE @]
<1>1. j # Nothing /\ j.stage = "scan" /\ CommandInv(p)
  BY DEF Scanning, Step, RefreshInv
<1>2. /\ {"op", "stage", "name", "at", "reviewed", "fixture", "tree", "blocked",
           "history", "rows", "recorded", "files"} \subseteq DOMAIN j
      /\ j.op = "create" /\ j.rows \in [Servers -> Settled \cup {"todo"}]
      /\ j.files \subseteq Servers
  BY <1>1 DEF CommandInv, Known, Qualified, Scans
<1>3. job' = [job EXCEPT ![p] = x]
  BY DEF Scanned, RefreshInv
<1>4. /\ DOMAIN x = DOMAIN j
      /\ x.op = j.op /\ x.stage = j.stage /\ x.name = j.name /\ x.at = j.at
      /\ x.reviewed = j.reviewed /\ x.fixture = j.fixture /\ x.tree = j.tree
      /\ x.history = j.history
      /\ x.rows = [j.rows EXCEPT ![s] = row]
      /\ x.files = IF wrote THEN j.files \cup {s} ELSE j.files
      /\ x.recorded = IF record THEN j.recorded \cup {s} ELSE j.recorded
  BY <1>2
<1> HIDE DEF x
<1>5. job'[p] = x
  BY <1>3 DEF RefreshInv
<1>6. x.rows \in [Servers -> Settled \cup {"todo"}] /\ x.files \subseteq Servers
  BY <1>2, <1>4
<1>7. \A t \in Servers \cap MaskedBy[x.reviewed] :
         t \notin x.recorded /\ x.history[t] = NoScan
  BY <1>1, <1>4 DEF CommandInv, Scans
<1>8. Scans(x)
  BY <1>2, <1>4, <1>6, <1>7 DEF Scans
<1>9. Known(x) /\ Qualified(x)
  BY <1>1, <1>2, <1>4 DEF CommandInv, Known, Qualified
<1>10. CommandInv(p)'
  <2>1. x.at \in 1..now' BY <1>1, <1>4 DEF CommandInv
  <2>2. x.stage = "scan" /\ x.op = "create" BY <1>1, <1>2, <1>4
  <2> QED BY <1>5, <1>8, <1>9, <2>1, <2>2 DEF CommandInv, Known, Qualified, Scans
<1> QED BY <1>3, <1>10, QuietStep

\* Every outcome of a scan is such a result.
LEMMA ScanStep ==
    ASSUME RefreshInv, NEW p \in Procs,
           \/ ScanBlocked(p) \/ ScanSucceeds(p) \/ ScanUnproved(p)
           \/ \E wrote, record \in BOOLEAN : ScanFails(p, wrote, record)
    PROVE  RefreshInv'
<1> DEFINE s == NextServer(p)
<1>1. Scanning(p) /\ s \in Servers
      /\ UNCHANGED <<now, tree, registry, candidates, approvals, publications>>
  BY NextServerIsTodo DEF ScanBlocked, ScanSucceeds, ScanUnproved, ScanFails
<1> DEFINE masked == s \in MaskedBy[job[p].reviewed]
<1>2. CASE ScanBlocked(p) \/ ScanUnproved(p)
  <2>1. \E row \in Settled : Scanned(p, s, row, FALSE, FALSE)
    BY <1>2 DEF ScanBlocked, ScanUnproved, Settled
  <2> HIDE DEF s
  <2> QED BY <1>1, <2>1, ScannedStep
<1>3. CASE ScanSucceeds(p)
  <2>1. Scanned(p, s, IF masked THEN "masked" ELSE "fresh", TRUE, ~ masked)
    BY <1>3 DEF ScanSucceeds
  <2>2. (IF masked THEN "masked" ELSE "fresh") \in Settled
    BY DEF Settled
  <2> DEFINE row == IF masked THEN "masked" ELSE "fresh"
  <2>3. (~ masked) \in BOOLEAN /\ (~ masked => s \notin MaskedBy[job[p].reviewed])
    OBVIOUS
  <2>4. row \in Settled /\ Scanned(p, s, row, TRUE, ~ masked)
    BY <2>1, <2>2
  <2> HIDE DEF s, row, masked
  <2> QED BY <1>1, <2>3, <2>4, ScannedStep
<1>4. ASSUME NEW wrote \in BOOLEAN, NEW record \in BOOLEAN,
             ScanFails(p, wrote, record)
      PROVE  RefreshInv'
  <2>1. /\ Scanned(p, s, "failed", wrote, record)
        /\ record => s \notin MaskedBy[job[p].reviewed]
    BY <1>4 DEF ScanFails
  <2>2. "failed" \in Settled BY DEF Settled
  <2> HIDE DEF s
  <2> QED BY <1>1, <2>1, <2>2, ScannedStep
<1> QED BY <1>2, <1>3, <1>4

-----------------------------------------------------------------------------
\* A capture remembers a directory as it is under its name.
LEMMA CaptureStep ==
    ASSUME RefreshInv, NEW p \in Procs, Capture(p)
    PROVE  RefreshInv'
<1> DEFINE j == job[p]
<1> DEFINE d == candidates[j.name]
<1> DEFINE new == [stage |-> "recapture", captured |-> d, seen |-> tree]
<1> DEFINE x == With(j, new)
<1>1. j # Nothing /\ j.stage = "capture" /\ CommandInv(p) /\ d # Nothing
  BY DEF Capture, Step, RefreshInv
<1>2. d \in Directories /\ Withheld(d.content)
  BY <1>1 DEF RefreshInv, TypeOK, CommandInv, Known
<1>3. /\ job' = [job EXCEPT ![p] = x]
      /\ UNCHANGED <<now, tree, registry, candidates, approvals, publications>>
  BY DEF Capture, RefreshInv
<1> HIDE DEF d
<1>4. /\ DOMAIN new = {"stage", "captured", "seen"}
      /\ new["stage"] = "recapture" /\ new["captured"] = d
  OBVIOUS
<1> HIDE DEF new
<1>5. Known(x) /\ x.at = j.at
  <2>1. Known(j) BY <1>1 DEF CommandInv
  <2> HIDE DEF j
  <2> QED BY <1>4, <2>1, StartIsKept
<1>6. /\ {"captured", "seen"} \subseteq DOMAIN x
      /\ x.stage = "recapture" /\ x.captured = d
  <2>1. /\ DOMAIN x = DOMAIN j \cup DOMAIN new
        /\ \A f \in DOMAIN new : x[f] = new[f]
    BY WithFacts
  <2> HIDE DEF x
  <2> QED BY <1>4, <2>1
<1> HIDE DEF x
<1>7. job'[p] = x
  BY <1>3 DEF RefreshInv
<1>8. Captured(x)
  BY <1>2, <1>6 DEF Captured
<1>9. CommandInv(p)'
  BY <1>1, <1>3, <1>5, <1>6, <1>7, <1>8
     DEF CommandInv, Known, Captured, Withheld
<1> QED BY <1>3, <1>9, QuietStep

\* What PublicationReady finds of a captured directory, it finds for good.
LEMMA ReadyIsSound ==
    ASSUME RefreshInv, NEW j, Captured(j), NEW seen,
           PublicationReady(j.captured, j, seen)
    PROVE  Sound(j.captured.content, j.at)
<1> DEFINE c == j.captured.content
<1>1. c \in Contents /\ Withheld(c)
  BY DEF Captured, Directories
<1>2. /\ c.state = "complete" /\ j.at < c.expires
      /\ c.intact /\ c.expires = c.created + Lifetime
      /\ c.tree = seen /\ Rows(c, "blocked") = BlockedBy[seen.inputs]
      /\ Rows(c, "todo") = {} /\ Rows(c, "failed") = {}
      /\ \A s \in Rows(c, "fresh") : c.latest[s] = "own"
      /\ SnapshotBound(c) /\ MaskedAsDeclared(c)
  BY DEF PublicationReady, StructurallyValid, ArtifactsMatch, FreshnessHolds, RowsCover,
         QualificationCurrent, BlockedAsPolicy, FreshRowsBound, RowMatchesScan,
         StateDeclared
<1>3. c.inputs = c.tree.inputs
  BY <1>1, <1>2 DEF Withheld
<1>4. \A s \in Servers :
         c.exposed[s] = IF c.rows[s] = "fresh" THEN "own" ELSE "none"
  BY <1>2 DEF SnapshotBound, Rows
<1>5. Rows(c, "masked") = MaskedBy[c.inputs] \ BlockedBy[c.inputs]
  <2>1. c.tree \in Trees /\ MaskedBy[c.inputs] \subseteq Servers
    BY <1>1, <1>3, RefreshConstants DEF Contents
  <2>2. \A s \in Servers : c.rows[s] \in {"fresh", "masked", "blocked"}
    BY <1>1, <1>2 DEF Contents, Settled, Rows
  <2>3. Rows(c, "blocked") = BlockedBy[c.inputs]
    BY <1>2, <1>3
  <2> QED BY <1>2, <2>1, <2>2, <2>3 DEF MaskedAsDeclared, Rows
<1> QED BY <1>2, <1>3, <1>4, <1>5 DEF Sound

\* The check of a publication leaves a captured content that is sound and
\* covered by the approval it read.
LEMMA CheckApprovalStep ==
    ASSUME RefreshInv, NEW p \in Procs, NEW a \in approvals, CheckApproval(p, a)
    PROVE  RefreshInv'
<1> DEFINE j == job[p]
<1> DEFINE x == [j EXCEPT !.stage = "copy"]
<1>1. /\ j # Nothing /\ j.stage = "recapture" /\ CommandInv(p) /\ j.op = "publish"
      /\ PublicationReady(j.captured, j, j.seen) /\ ApprovalHolds(a, j)
  BY DEF CheckApproval, Step, RefreshInv
<1>2. Known(j) /\ Captured(j) /\ j.at \in 1..now
  BY <1>1 DEF CommandInv
<1>3. Sound(j.captured.content, j.at)
  BY <1>1, <1>2, ReadyIsSound
<1>4. Covered(j.target, j.captured.content, j.at)
  BY <1>1 DEF ApprovalHolds, Covered
<1>5. /\ job' = [job EXCEPT ![p] = x]
      /\ UNCHANGED <<now, tree, registry, candidates, approvals, publications>>
  BY DEF CheckApproval, RefreshInv
<1>6. /\ DOMAIN x = DOMAIN j /\ x.stage = "copy"
      /\ x.op = j.op /\ x.name = j.name /\ x.at = j.at /\ x.reviewed = j.reviewed
      /\ x.target = j.target /\ x.captured = j.captured
  BY <1>1, <1>2 DEF Known, Captured
<1> HIDE DEF x
<1>7. job'[p] = x
  BY <1>5 DEF RefreshInv
<1>8. Known(x) /\ Captured(x)
  BY <1>1, <1>2, <1>6 DEF Known, Captured
<1>9. Covered(job[p].target, job[p].captured.content, job[p].at)'
  BY <1>4, <1>5, <1>6, <1>7 DEF Covered
<1>10. CommandInv(p)'
  <2>1. Known(job[p])' /\ Captured(job[p])'
    BY <1>7, <1>8 DEF Known, Captured, Withheld
  <2>2. Sound(job[p].captured.content, job[p].at)'
    <3>1. job'[p].captured = job[p].captured /\ job'[p].at = job[p].at
      BY <1>6, <1>7
    <3> QED
      BY <1>3, <3>1, SoundOf
  <2>3. job[p].at' \in 1..now' /\ job[p].stage' = "copy" /\ job[p].op' = "publish"
    BY <1>1, <1>2, <1>5, <1>6, <1>7
  <2> QED
    BY <1>9, <2>1, <2>2, <2>3 DEF CommandInv
<1> QED BY <1>5, <1>10, QuietStep

\* Writing the private copy changes nothing that others see.
LEMMA CopyStep ==
    ASSUME RefreshInv, NEW p \in Procs, CopyCandidate(p)
    PROVE  RefreshInv'
<1> DEFINE j == job[p]
<1> DEFINE x == [j EXCEPT !.stage = "rename"]
<1>1. j # Nothing /\ j.stage = "copy" /\ CommandInv(p)
  BY DEF CopyCandidate, Step, RefreshInv
<1>2. /\ Known(j) /\ Captured(j) /\ j.at \in 1..now /\ j.op = "publish"
      /\ Sound(j.captured.content, j.at)
      /\ Covered(j.target, j.captured.content, j.at)
  BY <1>1 DEF CommandInv
<1>3. /\ job' = [job EXCEPT ![p] = x]
      /\ UNCHANGED <<now, tree, registry, candidates, approvals, publications>>
  BY DEF CopyCandidate, RefreshInv
<1>4. /\ DOMAIN x = DOMAIN j /\ x.stage = "rename"
      /\ x.op = j.op /\ x.name = j.name /\ x.at = j.at /\ x.reviewed = j.reviewed
      /\ x.target = j.target /\ x.captured = j.captured
  BY <1>2 DEF Known, Captured
<1> HIDE DEF x
<1>5. job'[p] = x
  BY <1>3 DEF RefreshInv
<1>6. Known(x) /\ Captured(x)
  BY <1>2, <1>4 DEF Known, Captured
<1>7. Covered(job[p].target, job[p].captured.content, job[p].at)'
  BY <1>2, <1>3, <1>4, <1>5 DEF Covered
<1>8. CommandInv(p)'
  <2>1. Known(job[p])' /\ Captured(job[p])'
    BY <1>5, <1>6 DEF Known, Captured, Withheld
  <2>2. Sound(job[p].captured.content, job[p].at)'
    <3>1. job'[p].captured = job[p].captured /\ job'[p].at = job[p].at
      BY <1>4, <1>5
    <3> QED
      BY <1>2, <3>1, SoundOf
  <2>3. job[p].at' \in 1..now' /\ job[p].stage' = "rename" /\ job[p].op' = "publish"
    BY <1>2, <1>3, <1>4, <1>5
  <2> QED
    BY <1>7, <2>1, <2>2, <2>3 DEF CommandInv
<1> QED BY <1>3, <1>8, QuietStep

\* A written approval is well formed and starts no later than now; approvals
\* that are there stay.
LEMMA WriteApprovalStep ==
    ASSUME RefreshInv, NEW p \in Procs, NEW readonly \in BOOLEAN,
           WriteApproval(p, readonly)
    PROVE  RefreshInv'
<1> DEFINE j == job[p]
<1> DEFINE a == [digest |-> j.captured.content, target |-> j.target,
                 from |-> j.at, until |-> j.at + ApprovalTTL,
                 reviewed |-> j.reviewed, readonly |-> readonly]
<1>1. j # Nothing /\ j.stage = "recapture" /\ CommandInv(p) /\ j.op = "approve"
  BY DEF WriteApproval, Step, RefreshInv
<1>2. /\ job' = [job EXCEPT ![p] = Nothing] /\ approvals' = approvals \cup {a}
      /\ UNCHANGED <<now, tree, registry, candidates, publications>>
  BY DEF WriteApproval
<1>3. a \in ApprovalFiles /\ a.from \in 1..now
  <2>1. /\ j.captured.content \in Contents /\ j.target \in Targets
        /\ j.at \in 1..now /\ now \in Nat /\ j.reviewed \in Inputs
    BY <1>1 DEF CommandInv, Known, Captured, Directories, RefreshInv, TypeOK
  <2>2. j.at \in Nat /\ j.at + ApprovalTTL \in Nat
    BY <2>1, RefreshConstants
  <2> QED BY <2>1, <2>2 DEF ApprovalFiles
<1> HIDE DEF a
<1>4. /\ job' = [q \in Procs |-> job'[q]]
      /\ \A q \in Procs : job'[q] # Nothing => CommandInv(q)'
      /\ \A q \in Procs : job'[q] # Nothing =>
            /\ job'[q].op \in {"create", "approve", "publish"}
            /\ job'[q].at \in 1..now'
  BY <1>2, OneCommandMoves
<1>5. TypeOK'
  BY <1>2, <1>3, <1>4 DEF RefreshInv, TypeOK
<1>6. PublishedInv'
  BY <1>2, PublishedUndisturbed DEF RefreshInv
<1> QED BY <1>2, <1>4, <1>5, <1>6 DEF RefreshInv, Withheld

-----------------------------------------------------------------------------
\* A candidate directory is written or sealed by one command.
LEMMA CandidateStep ==
    ASSUME RefreshInv, NEW p \in Procs, NEW n \in Names, NEW d \in Directories,
           Withheld(d.content),
           candidates' = [candidates EXCEPT ![n] = d],
           NEW x, job' = [job EXCEPT ![p] = x], x # Nothing => CommandInv(p)',
           UNCHANGED <<now, tree, registry, approvals, publications>>
    PROVE  RefreshInv'
<1>1. /\ job' = [q \in Procs |-> job'[q]]
      /\ \A q \in Procs : job'[q] # Nothing => CommandInv(q)'
      /\ \A q \in Procs : job'[q] # Nothing =>
            /\ job'[q].op \in {"create", "approve", "publish"}
            /\ job'[q].at \in 1..now'
  BY OneCommandMoves
<1>2. TypeOK'
  BY <1>1 DEF RefreshInv, TypeOK
<1>3. PublishedInv'
  BY PublishedUndisturbed DEF RefreshInv
<1>4. \A m \in Names : candidates'[m] # Nothing => Withheld(candidates'[m].content)
  BY DEF RefreshInv, TypeOK
<1> QED BY <1>1, <1>2, <1>3, <1>4 DEF RefreshInv, Withheld

\* After all rows are settled the command may name its directory: its
\* content is that of a real or a fixture candidate that withholds what it
\* must.
LEMMA PublishCandidateStep ==
    ASSUME RefreshInv, NEW p \in Procs, PublishCandidate(p)
    PROVE  RefreshInv'
<1> DEFINE j == job[p]
<1> DEFINE x == [j EXCEPT !.stage = "seal"]
<1>1. j # Nothing /\ j.stage = "scan" /\ CommandInv(p) /\ AllScanned(j)
  BY DEF PublishCandidate, Step, RefreshInv
<1>2. /\ Known(j) /\ j.op = "create" /\ Qualified(j) /\ Scans(j)
      /\ j.at \in 1..now /\ now \in Nat
  BY <1>1 DEF CommandInv, RefreshInv, TypeOK
<1>3. PICK latest \in [Servers -> Origins] :
         /\ \A s \in Servers : latest[s] \in LatestScans(j, s)
         /\ candidates' = [candidates EXCEPT ![j.name] =
              [sealed |-> FALSE,
               content |->
                 [state |-> CandidateState(j),
                  created |-> j.at, expires |-> j.at + Lifetime,
                  inputs |-> j.reviewed, tree |-> j.tree, rows |-> j.rows,
                  files |-> j.files, latest |-> latest,
                  exposed |-> [s \in Servers |->
                                 IF s \in Shown(j) THEN latest[s] ELSE "none"],
                  intact |-> TRUE]]]
  BY DEF PublishCandidate, Origins
<1> DEFINE e == [s \in Servers |-> IF s \in Shown(j) THEN latest[s] ELSE "none"]
<1> DEFINE c == [state |-> CandidateState(j),
                 created |-> j.at, expires |-> j.at + Lifetime,
                 inputs |-> j.reviewed, tree |-> j.tree, rows |-> j.rows,
                 files |-> j.files, latest |-> latest, exposed |-> e,
                 intact |-> TRUE]
<1> DEFINE d == [sealed |-> FALSE, content |-> c]
<1>4. e \in [Servers -> Origins] /\ \A s \in Servers : s \notin Shown(j) => e[s] = "none"
  BY DEF Origins
<1>5. j.rows \in [Servers -> Settled]
  BY <1>1, <1>2 DEF Scans, AllScanned, Rows
<1>6. /\ CandidateState(j) \in {"fixture", "complete", "partial"}
      /\ CandidateState(j) # "fixture" => ~ j.fixture
  BY DEF CandidateState
<1>7. \A s \in Servers \cap MaskedBy[j.reviewed] : latest[s] = "none"
  BY <1>2, <1>3 DEF Scans, LatestScans
<1>8. \A s \in Servers : j.rows[s] # "fresh" => s \notin Shown(j)
  BY DEF Shown, Rows
<1>9. j.at \in Nat /\ j.at + Lifetime \in Nat
  BY <1>2, RefreshConstants
<1>10. candidates' = [candidates EXCEPT ![j.name] = d]
  BY <1>3
<1> HIDE DEF e
<1>11. c \in Contents
  BY <1>2, <1>4, <1>5, <1>6, <1>9 DEF Contents, Known, Qualified, Scans
<1>12. Withheld(c)
  <2>1. /\ c.state = CandidateState(j) /\ c.inputs = j.reviewed /\ c.tree = j.tree
        /\ c.latest = latest /\ c.rows = j.rows /\ c.exposed = e
    OBVIOUS
  <2> HIDE DEF c
  <2> QED BY <1>2, <1>4, <1>6, <1>7, <1>8, <2>1 DEF Withheld, Qualified
<1> HIDE DEF c
<1>13. d \in Directories /\ d.content = c
  BY <1>11 DEF Directories
<1> HIDE DEF d
<1>14. /\ job' = [job EXCEPT ![p] = x]
       /\ UNCHANGED <<now, tree, registry, approvals, publications>>
  BY DEF PublishCandidate, RefreshInv
<1>15. /\ DOMAIN x = DOMAIN j /\ x.stage = "seal"
       /\ x.op = j.op /\ x.name = j.name /\ x.at = j.at /\ x.reviewed = j.reviewed
       /\ x.fixture = j.fixture
  BY <1>2 DEF Known
<1> HIDE DEF x
<1>16. job'[p] = x
  BY <1>14 DEF RefreshInv
<1>17. CommandInv(p)'
  BY <1>2, <1>14, <1>15, <1>16 DEF CommandInv, Known
<1>18. j.name \in Names
  BY <1>2 DEF Known
<1> QED BY <1>10, <1>12, <1>13, <1>14, <1>17, <1>18, CandidateStep

\* Sealing keeps the content.
LEMMA SealCandidateStep ==
    ASSUME RefreshInv, NEW p \in Procs, SealCandidate(p)
    PROVE  RefreshInv'
<1> DEFINE j == job[p]
<1> DEFINE o == candidates[j.name]
<1> DEFINE d == [o EXCEPT !.sealed = TRUE]
<1> DEFINE x == [j EXCEPT !.stage = "capture"]
<1>1. j # Nothing /\ j.stage = "seal" /\ CommandInv(p) /\ o # Nothing
  BY DEF SealCandidate, Step, RefreshInv
<1>2. Known(j) /\ j.at \in 1..now /\ j.name \in Names
  BY <1>1 DEF CommandInv, Known
<1>3. o \in Directories /\ Withheld(o.content)
  BY <1>1, <1>2 DEF RefreshInv, TypeOK
<1>4. d \in Directories /\ d.content = o.content
  BY <1>3 DEF Directories
<1>5. /\ job' = [job EXCEPT ![p] = x] /\ candidates' = [candidates EXCEPT ![j.name] = d]
      /\ UNCHANGED <<now, tree, registry, approvals, publications>>
  BY <1>2 DEF SealCandidate, RefreshInv, TypeOK
<1>6. /\ DOMAIN x = DOMAIN j /\ x.stage = "capture"
      /\ x.op = j.op /\ x.name = j.name /\ x.at = j.at /\ x.reviewed = j.reviewed
      /\ (j.op = "create" => x.fixture = j.fixture)
      /\ (j.op \in {"approve", "publish"} => x.target = j.target)
  BY <1>2 DEF Known
<1> HIDE DEF d, x
<1>7. job'[p] = x
  BY <1>5 DEF RefreshInv
<1>8. CommandInv(p)'
  BY <1>2, <1>5, <1>6, <1>7 DEF CommandInv, Known
<1>9. Withheld(d.content)
  BY <1>3, <1>4
<1> QED BY <1>2, <1>4, <1>5, <1>8, <1>9, CandidateStep

-----------------------------------------------------------------------------
\* A directory is staged or sealed under a name by one command.
LEMMA StagedStep ==
    ASSUME RefreshInv, NEW p \in Procs, NEW t \in Targets, NEW n \in Names,
           NEW q \in Releases, q # Nothing,
           Sound(q.content, q.at), Covered(t, q.content, q.at),
           publications' = [publications EXCEPT ![t][n] = q],
           NEW x, job' = [job EXCEPT ![p] = x], x # Nothing => CommandInv(p)',
           UNCHANGED <<now, tree, registry, candidates, approvals>>
    PROVE  RefreshInv'
<1>1. \A u \in Targets, m \in Names :
         publications'[u][m] = IF u = t /\ m = n THEN q ELSE publications[u][m]
  BY DEF RefreshInv, TypeOK
<1>2. /\ job' = [r \in Procs |-> job'[r]]
      /\ \A r \in Procs : job'[r] # Nothing => CommandInv(r)'
      /\ \A r \in Procs : job'[r] # Nothing =>
            /\ job'[r].op \in {"create", "approve", "publish"}
            /\ job'[r].at \in 1..now'
  <2>1. \A u \in Targets, m \in Names :
           publications[u][m] # Nothing => publications'[u][m] # Nothing
    BY <1>1
  <2> QED BY <2>1, OneCommandMoves
<1>3. publications' \in [Targets -> [Names -> Releases \cup {Nothing}]]
  <2>1. publications \in [Targets -> [Names -> Releases \cup {Nothing}]]
    BY DEF RefreshInv, TypeOK
  <2> DEFINE S == Releases \cup {Nothing}
  <2>2. q \in S /\ publications \in [Targets -> [Names -> S]]
    BY <2>1
  <2> HIDE DEF S
  <2>3. publications' \in [Targets -> [Names -> S]]
    BY <2>2
  <2> QED BY <2>3 DEF S
<1>4. TypeOK'
  BY <1>2, <1>3 DEF RefreshInv, TypeOK
<1>5. PublishedInv'
  <2> SUFFICES ASSUME NEW u \in Targets, NEW m \in Names,
                      publications'[u][m] # Nothing
               PROVE  /\ Sound(publications[u][m].content, publications[u][m].at)'
                      /\ Covered(u, publications[u][m].content, publications[u][m].at)'
    BY DEF PublishedInv
  <2>1. PICK r : /\ r = publications'[u][m]
                 /\ Sound(r.content, r.at) /\ Covered(u, r.content, r.at)
    <3>1. CASE u = t /\ m = n
      BY <1>1, <3>1
    <3>2. CASE ~ (u = t /\ m = n)
      <4>1. publications'[u][m] = publications[u][m] BY <1>1, <3>2
      <4>2. /\ Sound(publications[u][m].content, publications[u][m].at)
            /\ Covered(u, publications[u][m].content, publications[u][m].at)
        BY <4>1 DEF RefreshInv, PublishedInv
      <4> QED BY <4>1, <4>2
    <3> QED BY <3>1, <3>2
  <2>2. Sound(publications[u][m].content, publications[u][m].at)'
    BY <2>1
  <2>3. Covered(u, publications[u][m].content, publications[u][m].at)'
    BY <2>1 DEF Covered
  <2> QED BY <2>2, <2>3
<1> QED BY <1>2, <1>4, <1>5 DEF RefreshInv, Withheld

\* What the rename of the command j stages, and a staged directory sealed.
ReleaseOf(j) == [content |-> j.captured.content, at |-> j.at, sealed |-> FALSE]
SealedCopy(o) == [o EXCEPT !.sealed = TRUE]

\* What the rename stages is the captured content.
LEMMA RenameMoves ==
    ASSUME RefreshInv, NEW p \in Procs, RenamePublication(p),
           NEW j, j = job[p], NEW q, q = ReleaseOf(j)
    PROVE  /\ j.target \in Targets /\ j.name \in Names
           /\ publications[j.target][j.name] = Nothing
           /\ publications' = [publications EXCEPT ![j.target][j.name] = q]
           /\ q \in Releases /\ q # Nothing
           /\ q.content = j.captured.content /\ q.at = j.at
           /\ Sound(q.content, q.at) /\ Covered(j.target, q.content, q.at)
<1>1. j # Nothing /\ j.stage = "rename" /\ CommandInv(p)
  BY DEF RenamePublication, Step, RefreshInv
<1>2. /\ Known(j) /\ Captured(j) /\ j.at \in 1..now /\ j.op = "publish"
      /\ Sound(j.captured.content, j.at)
      /\ Covered(j.target, j.captured.content, j.at)
  BY <1>1 DEF CommandInv
<1>3. j.target \in Targets /\ j.name \in Names
  BY <1>2 DEF Known
<1>4. q \in Releases
  <2>1. j.captured.content \in Contents /\ j.at \in Nat
    BY <1>2 DEF Captured, Directories, RefreshInv, TypeOK
  <2> QED BY <2>1 DEF Releases, ReleaseOf
<1>5. q # Nothing
  BY <1>4, RefreshConstants
<1>6. /\ publications[j.target][j.name] = Nothing
      /\ publications' = [publications EXCEPT ![j.target][j.name] = q]
  BY DEF RenamePublication, Renamed, ReleaseOf
<1>7. q.content = j.captured.content /\ q.at = j.at
  BY DEF ReleaseOf
<1> QED BY <1>2, <1>3, <1>4, <1>5, <1>6, <1>7

\* The rename stages a content that is sound and covered under a free name.
LEMMA RenameStep ==
    ASSUME RefreshInv, NEW p \in Procs, RenamePublication(p)
    PROVE  RefreshInv'
<1> DEFINE j == job[p]
<1> DEFINE q == ReleaseOf(j)
<1> DEFINE x == [j EXCEPT !.stage = "sealcopy"]
<1>1. /\ j.target \in Targets /\ j.name \in Names
      /\ publications' = [publications EXCEPT ![j.target][j.name] = q]
      /\ q \in Releases /\ q # Nothing
      /\ Sound(q.content, q.at) /\ Covered(j.target, q.content, q.at)
  <2> HIDE DEF j, q
  <2> QED BY RenameMoves DEF j, q
<1>2. /\ j # Nothing /\ j.stage = "rename" /\ Known(j) /\ j.at \in 1..now
      /\ j.op = "publish"
  BY DEF RenamePublication, Step, RefreshInv, CommandInv
<1>3. /\ job' = [job EXCEPT ![p] = x]
      /\ UNCHANGED <<now, tree, registry, candidates, approvals>>
  BY DEF RenamePublication, Renamed, RefreshInv
<1> HIDE DEF q
<1>4. /\ DOMAIN x = DOMAIN j /\ x.stage = "sealcopy"
      /\ x.op = j.op /\ x.name = j.name /\ x.at = j.at /\ x.reviewed = j.reviewed
      /\ x.target = j.target
  BY <1>2 DEF Known
<1> HIDE DEF x
<1>5. job'[p] = x
  BY <1>3 DEF RefreshInv
<1>6. publications'[j.target][j.name] # Nothing
  BY <1>1 DEF RefreshInv, TypeOK
<1>7. CommandInv(p)'
  BY <1>2, <1>3, <1>4, <1>5, <1>6 DEF CommandInv, Known
<1> QED BY <1>1, <1>3, <1>7, StagedStep

\* Sealing a staged directory keeps its content and its time.
LEMMA SealMoves ==
    ASSUME RefreshInv, NEW p \in Procs, SealPublication(p),
           NEW j, j = job[p],
           NEW o, o = publications[j.target][j.name],
           NEW q, q = SealedCopy(o)
    PROVE  /\ j.target \in Targets /\ j.name \in Names /\ o # Nothing
           /\ publications' = [publications EXCEPT ![j.target][j.name] = q]
           /\ q \in Releases /\ q # Nothing
           /\ q.content = o.content /\ q.at = o.at
<1>1. j # Nothing /\ j.stage = "sealcopy" /\ CommandInv(p)
  BY DEF SealPublication, Step, RefreshInv
<1>2. j.target \in Targets /\ j.name \in Names /\ o # Nothing
  BY <1>1 DEF CommandInv, Known
<1>3. o \in Releases
  BY <1>2 DEF RefreshInv, TypeOK
<1>4. q \in Releases /\ q.content = o.content /\ q.at = o.at
  BY <1>3 DEF Releases, SealedCopy
<1>5. q # Nothing
  BY <1>4, RefreshConstants
<1>6. publications' = [publications EXCEPT ![j.target][j.name] = q]
  <2>1. publications' = [publications EXCEPT ![j.target][j.name].sealed = TRUE]
    BY DEF SealPublication
  <2> QED BY <2>1 DEF SealedCopy
<1> QED BY <1>2, <1>4, <1>5, <1>6

\* A sealed directory is as sound and as covered as it was.
LEMMA SealPublicationStep ==
    ASSUME RefreshInv, NEW p \in Procs, SealPublication(p)
    PROVE  RefreshInv'
<1> DEFINE j == job[p]
<1> DEFINE o == publications[j.target][j.name]
<1> DEFINE q == SealedCopy(o)
<1>1. /\ j.target \in Targets /\ j.name \in Names /\ o # Nothing
      /\ publications' = [publications EXCEPT ![j.target][j.name] = q]
      /\ q \in Releases /\ q # Nothing
      /\ q.content = o.content /\ q.at = o.at
  <2> HIDE DEF j, o, q
  <2> QED BY SealMoves DEF j, o, q
<1> HIDE DEF q
<1>2. Sound(q.content, q.at) /\ Covered(j.target, q.content, q.at)
  BY <1>1 DEF RefreshInv, PublishedInv
<1>3. /\ job' = [job EXCEPT ![p] = Nothing]
      /\ UNCHANGED <<now, tree, registry, candidates, approvals>>
  BY DEF SealPublication
<1> QED BY <1>1, <1>2, <1>3, StagedStep

-----------------------------------------------------------------------------
\* Time, edits, registry scans and the owner of the candidates reach no
\* command: each works on what it has read.
LEMMA EnvironmentStep ==
    ASSUME RefreshInv,
           UNCHANGED <<approvals, publications, job>>, now \in Nat, now' \in Nat,
           now <= now'
    PROVE  /\ job' = [p \in Procs |-> job'[p]]
           /\ \A p \in Procs : job'[p] # Nothing => CommandInv(p)'
           /\ \A p \in Procs : job'[p] # Nothing =>
                 /\ job'[p].op \in {"create", "approve", "publish"}
                 /\ job'[p].at \in 1..now'
           /\ PublishedInv'
<1>1. job' = [p \in Procs |-> job'[p]]
  BY DEF RefreshInv
<1>2. ASSUME NEW p \in Procs, job'[p] # Nothing PROVE CommandInv(p)'
  <2>1. CommandInv(p) /\ job'[p] = job[p] BY <1>2 DEF RefreshInv
  <2> QED BY <2>1, CommandUndisturbed
<1>3. \A p \in Procs : CommandInv(p)' =>
         /\ job'[p].op \in {"create", "approve", "publish"}
         /\ job'[p].at \in 1..now'
  BY DEF CommandInv, Known
<1>4. PublishedInv'
  BY PublishedUndisturbed DEF RefreshInv
<1> QED BY <1>1, <1>2, <1>3, <1>4

\* The repository is edited and scanned at will.
LEMMA RepositoryStep ==
    ASSUME RefreshInv, Tick \/ Edit \/ \E s \in Servers : RegistryScan(s)
    PROVE  RefreshInv'
<1> USE DEF Tick, Edit, RegistryScan
<1>1. now \in Nat /\ now' \in Nat /\ now <= now' /\ now' \in 1..MaxTime
      /\ UNCHANGED <<candidates, approvals, publications, job>>
  BY RefreshConstants DEF RefreshInv, TypeOK
<1>2. /\ job' = [p \in Procs |-> job'[p]]
      /\ \A p \in Procs : job'[p] # Nothing => CommandInv(p)'
      /\ \A p \in Procs : job'[p] # Nothing =>
            /\ job'[p].op \in {"create", "approve", "publish"}
            /\ job'[p].at \in 1..now'
      /\ PublishedInv'
  BY <1>1, EnvironmentStep
<1>3. tree' \in Trees /\ registry' \in [Servers -> 0..MaxTime \cup {NoScan}]
  BY DEF RefreshInv, TypeOK
<1>4. \A a \in approvals : a.from \in 1..now'
  BY <1>1 DEF RefreshInv, TypeOK
<1>5. TypeOK'
  BY <1>1, <1>2, <1>3, <1>4 DEF RefreshInv, TypeOK
<1> QED BY <1>1, <1>2, <1>5 DEF RefreshInv, Withheld

\* Damage does not make a candidate show more, and a swap keeps its inputs.
LEMMA OwnerStep ==
    ASSUME RefreshInv, NEW n \in Names,
           Damage(n) \/ \E t \in Trees : Swap(n, t)
    PROVE  RefreshInv'
<1>1. candidates[n] # Nothing
      /\ UNCHANGED <<now, tree, registry, approvals, publications, job>>
  BY DEF Damage, Swap
<1>2. candidates[n] \in Directories /\ Withheld(candidates[n].content)
  BY <1>1 DEF RefreshInv, TypeOK
<1>3. PICK d \in Directories :
         Withheld(d.content) /\ candidates' = [candidates EXCEPT ![n] = d]
  <2>1. CASE Damage(n)
    <3> DEFINE c == [candidates[n].content EXCEPT !.intact = FALSE]
    <3> DEFINE d == [candidates[n] EXCEPT !.content = c]
    <3>1. candidates' = [candidates EXCEPT ![n] = d]
      BY <2>1 DEF Damage, RefreshInv, TypeOK
    <3>2. candidates[n].content \in Contents
      BY <1>2 DEF Directories
    <3>3. c \in Contents /\ c.state = candidates[n].content.state
          /\ c.inputs = candidates[n].content.inputs
          /\ c.tree = candidates[n].content.tree
          /\ c.rows = candidates[n].content.rows
          /\ c.latest = candidates[n].content.latest
          /\ c.exposed = candidates[n].content.exposed
      BY <3>2 DEF Contents
    <3>4. Withheld(c)
      <4> HIDE DEF c
      <4> QED BY <1>2, <3>3 DEF Withheld
    <3> HIDE DEF c
    <3>5. d \in Directories /\ d.content = c
      BY <1>2, <3>3 DEF Directories
    <3> QED BY <3>1, <3>4, <3>5
  <2>2. ASSUME NEW t \in Trees, Swap(n, t)
        PROVE  \E d \in Directories :
                  Withheld(d.content) /\ candidates' = [candidates EXCEPT ![n] = d]
    <3> DEFINE c == [candidates[n].content EXCEPT !.tree = t]
    <3> DEFINE d == [candidates[n] EXCEPT !.content = c]
    <3>1. candidates' = [candidates EXCEPT ![n] = d]
      BY <2>2 DEF Swap, RefreshInv, TypeOK
    <3>2. candidates[n].content \in Contents /\ t.inputs = candidates[n].content.inputs
      BY <1>2, <2>2 DEF Directories, Swap
    <3>3. c \in Contents /\ c.state = candidates[n].content.state
          /\ c.inputs = candidates[n].content.inputs
          /\ c.tree = t
          /\ c.rows = candidates[n].content.rows
          /\ c.latest = candidates[n].content.latest
          /\ c.exposed = candidates[n].content.exposed
      BY <3>2 DEF Contents
    <3>4. Withheld(c)
      <4> HIDE DEF c
      <4> QED BY <1>2, <3>2, <3>3 DEF Withheld
    <3> HIDE DEF c
    <3>5. d \in Directories /\ d.content = c
      BY <1>2, <3>3 DEF Directories
    <3> QED BY <3>1, <3>4, <3>5
  <2> QED BY <2>1, <2>2
<1>4. now \in Nat /\ now' \in Nat /\ now <= now'
  BY <1>1 DEF RefreshInv, TypeOK
<1>5. /\ job' = [p \in Procs |-> job'[p]]
      /\ \A p \in Procs : job'[p] # Nothing => CommandInv(p)'
      /\ \A p \in Procs : job'[p] # Nothing =>
            /\ job'[p].op \in {"create", "approve", "publish"}
            /\ job'[p].at \in 1..now'
      /\ PublishedInv'
  BY <1>1, <1>4, EnvironmentStep
<1>6. /\ candidates' \in [Names -> Directories \cup {Nothing}]
      /\ \A m \in Names : candidates'[m] # Nothing => Withheld(candidates'[m].content)
  BY <1>3 DEF RefreshInv, TypeOK
<1>7. TypeOK'
  BY <1>1, <1>5, <1>6 DEF RefreshInv, TypeOK
<1> QED BY <1>1, <1>5, <1>6, <1>7 DEF RefreshInv, Withheld

-----------------------------------------------------------------------------
\* Every step keeps the invariant.
LEMMA RefreshStep == RefreshInv /\ [Next]_vars => RefreshInv'
<1> SUFFICES ASSUME RefreshInv, [Next]_vars PROVE RefreshInv'
  OBVIOUS
<1>1. ASSUME NEW p \in Procs, Create(p) PROVE RefreshInv'
  <2>1. CASE CreateReports(p)
    <3>1. job' = [job EXCEPT ![p] = Nothing]
          /\ UNCHANGED <<now, tree, registry, candidates, approvals, publications>>
      BY <2>1 DEF CreateReports
    <3> QED BY <3>1, QuietStep
  <2> QED BY <1>1, <2>1, StartStep, QualifyStep, StageStep, ScanStep,
             PublishCandidateStep, SealCandidateStep DEF Create
<1>2. ASSUME NEW p \in Procs, Approve(p) PROVE RefreshInv'
  BY <1>2, StartStep, WriteApprovalStep DEF Approve
<1>3. ASSUME NEW p \in Procs, Publish(p) PROVE RefreshInv'
  BY <1>3, StartStep, CheckApprovalStep, CopyStep, RenameStep, SealPublicationStep
     DEF Publish
<1>4. ASSUME NEW p \in Procs, Capture(p) PROVE RefreshInv'
  BY <1>4, CaptureStep
<1>5. ASSUME NEW p \in Procs, Stop(p) PROVE RefreshInv'
  <2>1. job' = [job EXCEPT ![p] = Nothing]
        /\ UNCHANGED <<now, tree, registry, candidates, approvals, publications>>
    BY <1>5 DEF Stop
  <2> QED BY <2>1, QuietStep
<1>6. CASE Tick \/ Edit \/ \E s \in Servers : RegistryScan(s)
  BY <1>6, RepositoryStep
<1>7. ASSUME NEW n \in Names, Damage(n) \/ \E t \in Trees : Swap(n, t)
      PROVE  RefreshInv'
  BY <1>7, OwnerStep
<1>8. CASE UNCHANGED vars
  <2>1. now \in Nat /\ now <= now /\ UNCHANGED <<approvals, publications, job>>
    BY <1>8 DEF vars, RefreshInv, TypeOK
  <2>2. PublishedInv' /\ \A p \in Procs : job'[p] # Nothing => CommandInv(p)'
    BY <1>8, <2>1, EnvironmentStep DEF vars
  <2>3. TypeOK'
    BY <1>8 DEF vars, RefreshInv, TypeOK
  <2> QED BY <1>8, <2>2, <2>3 DEF vars, RefreshInv, Withheld
<1> QED BY <1>1, <1>2, <1>3, <1>4, <1>5, <1>6, <1>7, <1>8 DEF Next

\* The invariant of create, approve and publish of src/mcp_trust/refresh.py.
THEOREM RefreshInvariant == Spec => []RefreshInv
<1>1. Init => RefreshInv
  <2> SUFFICES ASSUME Init PROVE RefreshInv
    OBVIOUS
  <2>1. TypeOK
    BY RefreshConstants DEF Init, TypeOK
  <2> QED BY <2>1 DEF Init, RefreshInv, PublishedInv
<1>2. RefreshInv /\ [Next]_vars => RefreshInv'
  BY RefreshStep
<1> QED BY <1>1, <1>2, PTL DEF Spec

\* Directories, approvals and commands are well formed at any moment, also
\* those a killed command left: a directory that has its name has all rows.
THEOREM TypeCorrect == Spec => []TypeOK
<1>1. RefreshInv => TypeOK BY DEF RefreshInv
<1> QED BY RefreshInvariant, <1>1, PTL

\* publish_refresh_candidate stages the complete candidate that was approved
\* for the target, under an approval that was open at published_at.
THEOREM PublishedAsApprovedHolds == Spec => []PublishedAsApproved
<1>1. RefreshInv => PublishedAsApproved
  BY DEF RefreshInv, PublishedInv, PublishedAsApproved, Sound, Covered
<1> QED BY RefreshInvariant, <1>1, PTL

\* What is staged shows the grades of its own scans and no others.
THEOREM PublishedGradesAreOwnHolds == Spec => []PublishedGradesAreOwn
<1>1. RefreshInv => PublishedGradesAreOwn
  BY DEF RefreshInv, PublishedInv, PublishedGradesAreOwn, Published, Sound
<1> QED BY RefreshInvariant, <1>1, PTL

\* What is staged is bound to one state of the repository.
THEOREM PublishedFromOneTreeHolds == Spec => []PublishedFromOneTree
<1>1. RefreshInv => PublishedFromOneTree
  BY DEF RefreshInv, PublishedInv, PublishedFromOneTree, Published, Sound
<1> QED BY RefreshInvariant, <1>1, PTL

\* No candidate directory, reported or not, keeps a scan of a masked server or
\* shows a grade for a failed one.
THEOREM CandidateWithholdsHolds == Spec => []CandidateWithholds
<1>1. RefreshInv => CandidateWithholds
  BY DEF RefreshInv, Withheld, CandidateWithholds
<1> QED BY RefreshInvariant, <1>1, PTL

-----------------------------------------------------------------------------
(* Staging implements Release.                                             *)

\* What a target shows under a name: the staged content, sealed or not.
LEMMA StagingFacts ==
    /\ DOMAIN Staging = Targets \X Names
    /\ Staging = [tn \in Targets \X Names |-> Staging[tn]]
    /\ \A t \in Targets, n \in Names :
          Staging[<<t, n>>] = IF publications[t][n] = Nothing THEN Nothing
                              ELSE publications[t][n].content
BY DEF Staging

\* What a target shows changes only where the staged content does.
LEMMA StagingMoves ==
    ASSUME RefreshInv, NEW t \in Targets, NEW n \in Names, NEW q, q # Nothing,
           publications' = [publications EXCEPT ![t][n] = q]
    PROVE  Staging' = [Staging EXCEPT ![<<t, n>>] = q.content]
<1>1. \A u \in Targets, m \in Names :
         publications'[u][m] = IF u = t /\ m = n THEN q ELSE publications[u][m]
  BY DEF RefreshInv, TypeOK
<1> DEFINE new == [Staging EXCEPT ![<<t, n>>] = q.content]
<1>2. ASSUME NEW u \in Targets, NEW m \in Names
      PROVE  Staging'[<<u, m>>] = new[<<u, m>>]
  <2>1. Staging'[<<u, m>>] = IF publications'[u][m] = Nothing THEN Nothing
                             ELSE publications'[u][m].content
    BY DEF Staging
  <2>2. CASE u = t /\ m = n
    <3>1. Staging'[<<u, m>>] = q.content BY <1>1, <2>1, <2>2
    <3>2. <<t, n>> \in DOMAIN Staging BY StagingFacts
    <3> QED BY <2>2, <3>1, <3>2
  <2>3. CASE ~ (u = t /\ m = n)
    <3>0. publications'[u][m] = publications[u][m]
      BY <1>1, <2>3
    <3>1. Staging'[<<u, m>>] = Staging[<<u, m>>]
      BY <2>1, <3>0, StagingFacts
    <3>2. <<u, m>> # <<t, n>> /\ <<u, m>> \in DOMAIN Staging
      BY <2>3, StagingFacts
    <3>3. new[<<u, m>>] = Staging[<<u, m>>]
      BY <3>2
    <3> QED BY <3>1, <3>3
  <2> QED BY <2>2, <2>3
<1>3. Staging' = [tn \in Targets \X Names |-> Staging'[tn]]
  BY DEF Staging
<1>4. new = [tn \in Targets \X Names |-> new[tn]]
  BY StagingFacts
<1>5. \A tn \in Targets \X Names : Staging'[tn] = new[tn]
  <2> SUFFICES ASSUME NEW tn \in Targets \X Names PROVE Staging'[tn] = new[tn]
    OBVIOUS
  <2>1. PICK u \in Targets, m \in Names : tn = <<u, m>>
    OBVIOUS
  <2> QED BY <1>2, <2>1
<1> HIDE DEF new
<1>6. Staging' = new
  BY <1>3, <1>4, <1>5
<1> QED BY <1>6 DEF new

\* Every step stages a granted content under a free name, or grants one, or
\* changes nothing a reader of the targets sees.
LEMMA ReleaseStep ==
    ASSUME RefreshInv, [Next]_vars
    PROVE  [Publications!Next]_<<Approved, Staging>>
<1>1. ASSUME NEW p \in Procs, RenamePublication(p)
      PROVE  Publications!Next
  <2>1. PICK j : j = job[p] OBVIOUS
  <2>2. PICK q : q = ReleaseOf(j) OBVIOUS
  <2>3. /\ j.target \in Targets /\ j.name \in Names
        /\ publications[j.target][j.name] = Nothing
        /\ publications' = [publications EXCEPT ![j.target][j.name] = q]
        /\ q \in Releases /\ q # Nothing
        /\ Covered(j.target, q.content, q.at)
    BY <1>1, <2>1, <2>2, RenameMoves
  <2>4. PICK tn \in Targets \X Names : tn = <<j.target, j.name>>
    BY <2>3
  <2>5. Staging' = [Staging EXCEPT ![tn] = q.content]
    <3>1. Staging' = [Staging EXCEPT ![<<j.target, j.name>>] = q.content]
      BY <2>3, StagingMoves
    <3> QED BY <2>4, <3>1
  <2>6. Staging'[tn] = q.content /\ Staging[tn] = Nothing
    BY <2>3, <2>4, <2>5, StagingFacts
  <2>7. q.content # Nothing
    BY <2>3, RefreshConstants DEF Releases
  <2>8. <<tn, q.content>> \in Approved
    BY <2>3, <2>4 DEF Covered, Approved
  <2>9. Approved' = Approved
    BY <1>1 DEF RenamePublication, Renamed, Approved
  <2>10. Publications!Put(tn)
    BY <2>5, <2>6, <2>7, <2>8, <2>9 DEF Publications!Put
  <2> QED BY <2>4, <2>10 DEF Publications!Next
<1>2. ASSUME NEW p \in Procs, SealPublication(p)
      PROVE  UNCHANGED <<Approved, Staging>>
  <2>1. PICK j : j = job[p] OBVIOUS
  <2>2. PICK o : o = publications[j.target][j.name] OBVIOUS
  <2>3. PICK q : q = SealedCopy(o) OBVIOUS
  <2>4. /\ j.target \in Targets /\ j.name \in Names /\ o # Nothing
        /\ publications' = [publications EXCEPT ![j.target][j.name] = q]
        /\ q # Nothing /\ q.content = o.content
    BY <1>2, <2>1, <2>2, <2>3, SealMoves
  <2>5. PICK tn \in Targets \X Names : tn = <<j.target, j.name>>
    BY <2>4
  <2>6. Staging' = [Staging EXCEPT ![tn] = q.content] /\ Staging[tn] = q.content
    <3>1. Staging' = [Staging EXCEPT ![<<j.target, j.name>>] = q.content]
      <4>1. /\ j.target \in Targets /\ j.name \in Names /\ q # Nothing
            /\ publications' = [publications EXCEPT ![j.target][j.name] = q]
        BY <2>4
      <4> QED BY <4>1, StagingMoves
    <3>2. Staging[<<j.target, j.name>>] = q.content
      BY <2>2, <2>4, StagingFacts
    <3> QED BY <2>5, <3>1, <3>2
  <2>7. Staging' = Staging
    <3>1. Staging = [x \in Targets \X Names |-> Staging[x]]
      BY DEF Staging
    <3> QED BY <2>5, <2>6, <3>1, Zenon
  <2>8. Approved' = Approved
    BY <1>2 DEF SealPublication, Approved
  <2> QED BY <2>7, <2>8
<1>3. ASSUME NEW p \in Procs, NEW readonly \in BOOLEAN, WriteApproval(p, readonly)
      PROVE  [Publications!Next]_<<Approved, Staging>>
  <2>1. approvals \subseteq approvals' /\ publications' = publications
    BY <1>3 DEF WriteApproval
  <2>2. Approved \subseteq Approved' /\ Staging' = Staging
    BY <2>1 DEF Approved, Staging
  <2> QED BY <2>2 DEF Publications!Next, Publications!Grant
<1>4. CASE UNCHANGED <<approvals, publications>>
  BY <1>4 DEF Approved, Staging
<1>5. ASSUME NEW p \in Procs, Create(p)
      PROVE  UNCHANGED <<approvals, publications>>
  BY <1>5 DEF Create, StartCreate, Qualify, Stage, ScanBlocked, ScanSucceeds,
              ScanUnproved, ScanFails, PublishCandidate, SealCandidate, CreateReports
<1>6. ASSUME NEW p \in Procs, NEW n \in Names, NEW t \in Targets,
             StartApprove(p, n, t) \/ StartPublish(p, n, t)
      PROVE  UNCHANGED <<approvals, publications>>
  BY <1>6 DEF StartApprove, StartPublish
<1>7. ASSUME NEW p \in Procs, NEW a \in approvals, CheckApproval(p, a)
      PROVE  UNCHANGED <<approvals, publications>>
  BY <1>7 DEF CheckApproval
<1>8. ASSUME NEW p \in Procs, CopyCandidate(p) \/ Capture(p) \/ Stop(p)
      PROVE  UNCHANGED <<approvals, publications>>
  BY <1>8 DEF CopyCandidate, Capture, Stop
<1>9. CASE \/ Tick \/ Edit \/ UNCHANGED vars
           \/ \E s \in Servers : RegistryScan(s)
           \/ \E n \in Names : Damage(n) \/ \E t \in Trees : Swap(n, t)
  <2>1. UNCHANGED <<approvals, publications>>
    BY <1>9 DEF Tick, Edit, RegistryScan, Damage, Swap, vars
  <2> QED BY <1>4, <2>1
<1>10. ASSUME NEW p \in Procs, Create(p) \/ Approve(p) \/ Publish(p) \/ Capture(p) \/ Stop(p)
       PROVE  [Publications!Next]_<<Approved, Staging>>
  BY <1>1, <1>2, <1>3, <1>4, <1>5, <1>6, <1>7, <1>8, <1>10 DEF Approve, Publish
<1> QED
  BY <1>9, <1>10 DEF Next

\* Staging implements the exclusive release: what a target shows under a name
\* was approved for that target, by a read-only approval, before it appeared,
\* and is never replaced, however many commands passed the same checks.
THEOREM RefreshRefinement == Spec => ImplementsRelease
<1>1. Init => Publications!Init
  BY DEF Init, Publications!Init, Approved, Staging
<1>2. RefreshInv /\ [Next]_vars => [Publications!Next]_<<Approved, Staging>>
  BY ReleaseStep
<1> QED BY RefreshInvariant, <1>1, <1>2, PTL
           DEF Spec, ImplementsRelease, Publications!Spec
=============================================================================
