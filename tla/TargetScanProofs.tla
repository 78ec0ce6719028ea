-------------------------- MODULE TargetScanProofs --------------------------
(***************************************************************************)
(* Theorems about TargetScan for any number of commands, names, registry   *)
(* contents, changes and sandbox runs, and any windows of capacity and     *)
(* preflight.                                                              *)
(***************************************************************************)
EXTENDS TargetScan, TLAPS

-----------------------------------------------------------------------------
(* The order of the states of one part.                                    *)

\* What tells two states of a part apart.
Age(part, x) ==
    CASE part = "registry" -> x.ident
      [] part = "preflight" -> x.number
      [] OTHER -> x

Earlier(part, x, y) == x = y \/ Age(part, x) < Age(part, y)

Before(w, v) == \A part \in Parts : Earlier(part, w[part], v[part])

\* States of the parts, as they are read.
Values(part) ==
    CASE part = "registry" -> Registries
      [] part = "preflight" -> Receipts
      [] OTHER -> Nat

\* A state is no older than any between it and an earlier reading of it: what
\* is read twice alike has not changed in between.
LEMMA NoReturn ==
    ASSUME NEW part \in Parts, NEW x \in Values(part), NEW y \in Values(part),
           Earlier(part, x, y), Earlier(part, y, x)
    PROVE  x = y
BY DEF Parts, Values, Earlier, Age, Registries, Receipts

\* The states of a part are ordered.
LEMMA EarlierTransitive ==
    ASSUME NEW part \in Parts, NEW x \in Values(part), NEW y \in Values(part),
           NEW z \in Values(part), Earlier(part, x, y), Earlier(part, y, z)
    PROVE  Earlier(part, x, z)
BY DEF Parts, Values, Earlier, Age, Registries, Receipts

\* A state of the world has a state of every part.
LEMMA WorldValues ==
    ASSUME NEW w \in Worlds, NEW part \in Parts
    PROVE  w[part] \in Values(part)
BY DEF Worlds, Parts, Values

\* So are those of the world.
LEMMA BeforeTransitive ==
    ASSUME NEW u \in Worlds, NEW v \in Worlds, NEW w \in Worlds,
           Before(u, v), Before(v, w)
    PROVE  Before(u, w)
BY EarlierTransitive, WorldValues DEF Before

-----------------------------------------------------------------------------
(* The inductive invariant.                                                *)

\* The receipt of the preflight is whole, and newer than those before it.
ReceiptInv ==
    /\ world.preflight.number <= preflights
    /\ world.preflight.capacity <= world.preflight.observed
    /\ world.preflight.observed <= now

\* Every sandbox run took place in the past.
RunsInv == \A r \in runs : Before(r.on, world)

\* A command that creates has read the parts before next, in a state they have
\* had.
Scanned(j) == j.stage # "read"

ReadInv(j) ==
    \A i \in 1..Len(CreateReads) :
        LET part == CreateReads[i]
        IN  /\ Scanned(j) \/ i < j.next => j.read[part] # Nothing
            /\ ~Scanned(j) /\ j.next <= i => j.read[part] = Nothing
            /\ j.read[part] # Nothing => Earlier(part, j.read[part], world[part])

\* What was admitted stays admitted: it depends on what was read and on when
\* the command started.
AdmittedInv(j) ==
    /\ j.read["inputs"] # Nothing => TargetSelected(j.read["inputs"])
    /\ j.read["preflight"] # Nothing =>
          /\ j.at <= j.read["preflight"].capacity + CapacityAge
          /\ j.read["preflight"].capacity <= j.read["preflight"].observed
    /\ j.read["registry"] # Nothing => RegistryAuthorized(j.read["registry"])
    /\ j.read["image"] # Nothing =>
          /\ QualificationBinds(j, j.read["preflight"])
          /\ j.read["preflight"].image = j.read["image"]

\* The run of a command that has scanned took place after its reads, and on
\* what it read, as far as that has been compared since.
RunOf(j, r) ==
    /\ r.name = j.name /\ r.at = j.at
    /\ \A part \in Parts : Earlier(part, j.read[part], r.on[part])
    /\ \A i \in 1..Len(CreateRereads) :
          j.stage # "reread" \/ i < j.next =>
              j.read[CreateRereads[i]] = r.on[CreateRereads[i]]

CreateInv ==
    \A p \in Procs : job[p] # Nothing /\ job[p].op = "create" =>
        /\ ReadInv(job[p])
        /\ AdmittedInv(job[p])
        /\ Scanned(job[p]) => \E r \in runs : RunOf(job[p], r)

\* Every artifact is that of a run, whole and admitted.
Describes(a, r) == a = ArtifactOf(r.name, r.at, r.on)

ArtifactInv ==
    \A n \in Names : artifacts[n] # Nothing =>
        /\ \E r \in runs : r.name = n /\ Describes(artifacts[n], r)
        /\ ArtifactShape(artifacts[n])
        /\ AdmittedAtCreation(artifacts[n])

\* A verification began after the run of its artifact; what it has compared
\* was the same when it began.
VerifyInv(j) ==
    LET a == artifacts[j.name]
    IN  /\ a # Nothing /\ a.at <= j.at
        /\ Before(j.began, world)
        /\ \E r \in runs : Describes(a, r) /\ Before(r.on, j.began)
        /\ j.next > 1 => j.began.source = a.source
        /\ j.next > 2 => j.began.inputs = a.inputs
        /\ j.next > 3 => /\ j.began.preflight = a.preflight
                         /\ j.at <= a.preflight.capacity + CapacityAge

VerifiesInv ==
    \A p \in Procs : job[p] # Nothing /\ job[p].op = "verify" => VerifyInv(job[p])

ScanInv ==
    /\ TypeOK /\ ReceiptInv /\ RunsInv /\ CreateInv /\ ArtifactInv /\ VerifiesInv

-----------------------------------------------------------------------------
(* Steps that leave a command where it is.                                 *)

\* A command is not disturbed when time passes, when the world moves on, when
\* others run scans, and when others seal artifacts under free names.
LEMMA CommandUndisturbed ==
    ASSUME ScanInv,
           world' \in Worlds, Before(world, world'),
           runs \subseteq runs',
           \A n \in Names : artifacts[n] # Nothing => artifacts'[n] = artifacts[n],
           NEW q \in Procs, job'[q] = job[q], job[q] # Nothing
    PROVE  /\ job'[q].op = "create" =>
                 /\ ReadInv(job[q])'
                 /\ AdmittedInv(job[q])'
                 /\ (Scanned(job[q]) => \E r \in runs : RunOf(job[q], r))'
           /\ job'[q].op = "verify" => VerifyInv(job[q])'
<1>1. CASE job[q].op = "create"
  <2>1. /\ ReadInv(job[q]) /\ AdmittedInv(job[q])
        /\ Scanned(job[q]) => \E r \in runs : RunOf(job[q], r)
        /\ job[q].read \in Reads /\ world \in Worlds
    BY <1>1 DEF ScanInv, CreateInv, TypeOK, Creating, Verifying
  <2>2. ASSUME NEW part \in Parts, job[q].read[part] # Nothing,
               Earlier(part, job[q].read[part], world[part])
        PROVE  Earlier(part, job[q].read[part], world'[part])
    <3>1. job[q].read[part] \in Values(part)
      BY <2>1, <2>2 DEF Reads, Parts, Values
    <3>2. world[part] \in Values(part) /\ world'[part] \in Values(part)
      BY <2>1, WorldValues
    <3> QED
      BY <2>2, <3>1, <3>2, EarlierTransitive DEF Before
  <2>3. \A i \in 1..Len(CreateReads) : CreateReads[i] \in Parts
    BY DEF CreateReads, Parts
  <2>4. ReadInv(job[q])'
    BY <2>1, <2>2, <2>3 DEF ReadInv
  <2>5. AdmittedInv(job[q])'
    BY <2>1 DEF AdmittedInv, RegistryAuthorized, TargetSelected, QualificationBinds,
                PreflightCurrent
  <2>6. (Scanned(job[q]) => \E r \in runs : RunOf(job[q], r))'
    BY <2>1 DEF Scanned, RunOf, Earlier, Age
  <2> QED
    BY <1>1, <2>4, <2>5, <2>6
<1>2. CASE job[q].op = "verify"
  <2>1. /\ VerifyInv(job[q]) /\ job[q] \in Verifying /\ world \in Worlds
    BY <1>2 DEF ScanInv, VerifiesInv, TypeOK, Creating, Verifying
  <2>2. Before(job[q].began, world')
    BY <2>1, BeforeTransitive DEF VerifyInv, Verifying
  <2>3. artifacts'[job[q].name] = artifacts[job[q].name]
    BY <2>1 DEF VerifyInv, Verifying
  <2> QED
    BY <1>2, <2>1, <2>2, <2>3 DEF VerifyInv
<1> QED
  BY <1>1, <1>2 DEF ScanInv, TypeOK, Creating, Verifying

\* Only the world, or the time, moves on.
LEMMA EnvironmentStep ==
    ASSUME ScanInv, UNCHANGED <<runs, job, artifacts>>,
           now' \in 0..MaxTime, now <= now',
           world' \in Worlds, Before(world, world'),
           Changes' \in 0..MaxChanges, preflights' \in 0..MaxPreflights,
           ReceiptInv'
    PROVE  ScanInv'
<1>1. TypeOK'
  <2>1. now \in Nat /\ now' \in Nat
    BY TargetScanConstants DEF ScanInv, TypeOK
  <2>2. \A q \in Procs : job[q] # Nothing => job[q].at \in Nat /\ job[q].at <= now
    BY DEF ScanInv, TypeOK, Creating, Verifying
  <2>3. \A n \in Names : artifacts[n] # Nothing =>
            artifacts[n].at \in Nat /\ artifacts[n].at <= now
    BY DEF ScanInv, TypeOK, ArtifactRecords
  <2>4. \A r \in runs : r.at \in Nat /\ r.at <= now
    BY DEF ScanInv, TypeOK
  <2>5. /\ \A q \in Procs : job'[q] # Nothing => job'[q].at <= now'
        /\ \A n \in Names : artifacts'[n] # Nothing => artifacts'[n].at <= now'
        /\ \A r \in runs' : r.at <= now'
    BY <2>1, <2>2, <2>3, <2>4
  <2> QED
    BY <2>5 DEF ScanInv, TypeOK
<1>2. RunsInv'
  BY BeforeTransitive DEF ScanInv, RunsInv, TypeOK
<1>3. CreateInv' /\ VerifiesInv'
  BY CommandUndisturbed DEF CreateInv, VerifiesInv
<1>4. ArtifactInv'
  BY DEF ScanInv, ArtifactInv
<1> QED
  BY <1>1, <1>2, <1>3, <1>4 DEF ScanInv

\* One command moves, and may add a run on the world as it is, or an artifact.
LEMMA CommandStep ==
    ASSUME ScanInv, UNCHANGED <<now, world, preflights>>,
           NEW p \in Procs, job' = [job EXCEPT ![p] = job'[p]],
           job'[p] \in Creating \cup Verifying \cup {Nothing},
           job'[p] # Nothing => job'[p].at <= now,
           runs \subseteq runs',
           \A r \in runs' \ runs : /\ r \in [name : Names, at : Nat, on : Worlds]
                                   /\ r.at <= now /\ r.on = world,
           artifacts' \in [Names -> ArtifactRecords \cup {Nothing}],
           \A n \in Names : artifacts[n] # Nothing => artifacts'[n] = artifacts[n],
           \A n \in Names : artifacts'[n] # Nothing =>
               artifacts'[n].name = n /\ artifacts'[n].at <= now,
           ArtifactInv',
           job'[p] # Nothing /\ job'[p].op = "create" =>
               /\ ReadInv(job[p])' /\ AdmittedInv(job[p])'
               /\ (Scanned(job[p]) => \E r \in runs : RunOf(job[p], r))',
           job'[p] # Nothing /\ job'[p].op = "verify" => VerifyInv(job[p])'
    PROVE  ScanInv'
<1>1. /\ job \in [Procs -> Creating \cup Verifying \cup {Nothing}]
      /\ world \in Worlds
  BY DEF ScanInv, TypeOK
<1>2. \A q \in Procs : q # p => job'[q] = job[q]
  BY <1>1
<1>3. TypeOK'
  <2>1. job' \in [Procs -> Creating \cup Verifying \cup {Nothing}]
    BY <1>1
  <2>2. \A q \in Procs : job'[q] # Nothing => job'[q].at <= now
    BY <1>2 DEF ScanInv, TypeOK
  <2>3. /\ runs' \subseteq [name : Names, at : Nat, on : Worlds]
        /\ \A r \in runs' : r.at <= now
    BY DEF ScanInv, TypeOK
  <2> QED
    BY <2>1, <2>2, <2>3 DEF ScanInv, TypeOK, Changes
<1>4. Before(world, world)
  BY DEF Before, Earlier
<1>5. ReceiptInv' /\ RunsInv'
  BY <1>4 DEF ScanInv, ReceiptInv, RunsInv, Before
<1>6. \A q \in Procs : q # p /\ job'[q] # Nothing =>
         /\ job'[q].op = "create" =>
               /\ ReadInv(job[q])' /\ AdmittedInv(job[q])'
               /\ (Scanned(job[q]) => \E r \in runs : RunOf(job[q], r))'
         /\ job'[q].op = "verify" => VerifyInv(job[q])'
  BY <1>1, <1>2, <1>4, CommandUndisturbed DEF Before
<1>7. CreateInv' /\ VerifiesInv'
  BY <1>6 DEF CreateInv, VerifiesInv
<1> QED
  BY <1>3, <1>5, <1>7 DEF ScanInv

\* One command moves, and nothing else.
LEMMA QuietStep ==
    ASSUME ScanInv, UNCHANGED <<now, world, preflights, artifacts, runs>>,
           NEW p \in Procs, job' = [job EXCEPT ![p] = job'[p]],
           job'[p] \in Creating \cup Verifying \cup {Nothing},
           job'[p] # Nothing => job'[p].at <= now,
           job'[p] # Nothing /\ job'[p].op = "create" =>
               /\ ReadInv(job[p])' /\ AdmittedInv(job[p])'
               /\ (Scanned(job[p]) => \E r \in runs : RunOf(job[p], r))',
           job'[p] # Nothing /\ job'[p].op = "verify" => VerifyInv(job[p])'
    PROVE  ScanInv'
<1>1. /\ artifacts' \in [Names -> ArtifactRecords \cup {Nothing}]
      /\ \A n \in Names : artifacts[n] # Nothing => artifacts'[n] = artifacts[n]
      /\ \A n \in Names : artifacts'[n] # Nothing =>
             artifacts'[n].name = n /\ artifacts'[n].at <= now
      /\ runs' = runs
  BY DEF ScanInv, TypeOK
<1>2. ArtifactInv'
  BY DEF ScanInv, ArtifactInv
<1> QED
  BY <1>1, <1>2, CommandStep

\* Time, edits, a new registry and a new preflight.
LEMMA WorldStep ==
    ASSUME ScanInv,
           \/ Tick
           \/ \E part \in {"source", "inputs", "image"} : Edit(part)
           \/ \E content \in Databases : ReplaceRegistry(content)
           \/ \E ready \in BOOLEAN : Preflight(ready)
    PROVE  ScanInv'
<1> USE TargetScanConstants
<1> TypeOK /\ ReceiptInv /\ now \in Nat /\ world \in Worlds
  BY DEF ScanInv, TypeOK
<1>1. CASE Tick
  <2>1. /\ now' \in 0..MaxTime /\ now <= now' /\ world' = world
        /\ Changes' = Changes /\ preflights' = preflights
    BY <1>1 DEF Tick, TypeOK, Changes
  <2>2. Before(world, world')
    BY <2>1 DEF Before, Earlier
  <2>3. ReceiptInv'
    BY <2>1 DEF ReceiptInv, Worlds, Receipts
  <2> QED
    BY <1>1, <2>1, <2>2, <2>3, EnvironmentStep DEF Tick, TypeOK
<1>2. ASSUME NEW part \in {"source", "inputs", "image"}, Edit(part)
      PROVE  ScanInv'
  <2>1. world' = [world EXCEPT ![part] = world[part] + 1] /\ Changes < MaxChanges
    BY <1>2 DEF Edit
  <2>2. /\ world' \in Worlds
        /\ world'.registry = world.registry /\ world'.preflight = world.preflight
        /\ \A q \in {"source", "inputs", "image"} :
              world'[q] = IF q = part THEN world[q] + 1 ELSE world[q]
    BY <2>1 DEF Worlds
  <2>3. Before(world, world')
    BY <2>2 DEF Before, Earlier, Age, Parts, Worlds
  <2>4. Changes' \in 0..MaxChanges
    BY <2>1, <2>2 DEF TypeOK, Changes, Worlds, Registries
  <2> QED
    BY <1>2, <2>2, <2>3, <2>4, EnvironmentStep DEF Edit, TypeOK, ReceiptInv
<1>3. ASSUME NEW content \in Databases, ReplaceRegistry(content)
      PROVE  ScanInv'
  <2> DEFINE registry == [content |-> content, ident |-> world.registry.ident + 1]
  <2>1. world' = [world EXCEPT !.registry = registry] /\ Changes < MaxChanges
    BY <1>3 DEF ReplaceRegistry
  <2>2. registry \in Registries
    BY DEF Worlds, Registries
  <2>3. /\ world' \in Worlds /\ world'.registry = registry
        /\ world'.preflight = world.preflight /\ world'.source = world.source
        /\ world'.inputs = world.inputs /\ world'.image = world.image
    BY <2>1, <2>2 DEF Worlds
  <2>4. Before(world, world')
    BY <2>3 DEF Before, Earlier, Age, Parts, Worlds, Registries
  <2>5. Changes' \in 0..MaxChanges
    BY <2>1, <2>3 DEF TypeOK, Changes, Worlds, Registries
  <2> QED
    BY <1>3, <2>3, <2>4, <2>5, EnvironmentStep DEF ReplaceRegistry, TypeOK, ReceiptInv
<1>4. ASSUME NEW ready \in BOOLEAN, Preflight(ready)
      PROVE  ScanInv'
  <2>1. PICK source \in 0..world.source, inputs \in 0..world.inputs, capacity \in 0..now :
            world' = [world EXCEPT !.preflight =
                        [number |-> preflights + 1,
                         source |-> source, inputs |-> inputs,
                         image |-> world.image, ready |-> ready,
                         capacity |-> capacity, observed |-> now]]
    BY <1>4 DEF Preflight
  <2> DEFINE receipt == [number |-> preflights + 1,
                         source |-> source, inputs |-> inputs,
                         image |-> world.image, ready |-> ready,
                         capacity |-> capacity, observed |-> now]
  <2>2. receipt \in Receipts
    BY DEF Worlds, Receipts, TypeOK
  <2>3. /\ world' \in Worlds /\ world'.preflight = receipt
        /\ world'.registry = world.registry /\ world'.source = world.source
        /\ world'.inputs = world.inputs /\ world'.image = world.image
    BY <2>1, <2>2 DEF Worlds
  <2>4. Before(world, world')
    BY <2>3 DEF Before, Earlier, Age, Parts, Worlds, Receipts, ReceiptInv, TypeOK
  <2>5. Changes' \in 0..MaxChanges /\ preflights' \in 0..MaxPreflights
    BY <1>4, <2>3 DEF Preflight, TypeOK, Changes
  <2>6. ReceiptInv'
    BY <1>4, <2>3 DEF Preflight, ReceiptInv, TypeOK
  <2> QED
    BY <1>4, <2>3, <2>4, <2>5, <2>6, EnvironmentStep DEF Preflight, TypeOK
<1> QED
  BY <1>1, <1>2, <1>3, <1>4

-----------------------------------------------------------------------------
(* Steps of a command that creates.                                        *)

\* How many parts a command reads.
LEMMA Lengths ==
    Len(CreateReads) = 5 /\ Len(CreateRereads) = 7 /\ Len(VerifyReads) = 5
BY DEF CreateReads, CreateRereads, VerifyReads

\* A command that is at a stage of its creation.
LEMMA CreatingFacts ==
    ASSUME ScanInv, NEW p \in Procs, NEW stage, Doing(p, "create", stage)
    PROVE  /\ job[p] \in Creating /\ job[p].stage = stage /\ job[p].at <= now
           /\ ReadInv(job[p]) /\ AdmittedInv(job[p])
           /\ Scanned(job[p]) => \E r \in runs : RunOf(job[p], r)
BY DEF Doing, ScanInv, CreateInv, TypeOK, Creating, Verifying

\* A command that stops leaves no trace.
LEMMA StopStep ==
    ASSUME ScanInv, NEW p \in Procs, job' = [job EXCEPT ![p] = Nothing],
           UNCHANGED <<now, world, preflights, artifacts, runs>>
    PROVE  ScanInv'
<1>1. job'[p] = Nothing
  BY DEF ScanInv, TypeOK
<1> QED
  BY <1>1, QuietStep

\* A command that starts to create has read nothing.
LEMMA StartCreateStep ==
    ASSUME ScanInv, NEW p \in Procs, NEW n \in Names, StartCreate(p, n)
    PROVE  ScanInv'
<1> DEFINE j == [op |-> "create", stage |-> "read", next |-> 1,
                 name |-> n, at |-> now, read |-> Unread]
<1>1. Unread \in Reads /\ \A part \in Parts : Unread[part] = Nothing
  BY DEF Unread, Reads, Parts
<1>2. now \in Nat
  BY TargetScanConstants DEF ScanInv, TypeOK
<1>3. j \in Creating
  BY <1>1, <1>2, Lengths DEF Creating
<1>4. job' = [job EXCEPT ![p] = j] /\ job'[p] = j
  BY DEF StartCreate, ScanInv, TypeOK
<1>5. \A i \in 1..Len(CreateReads) : CreateReads[i] \in Parts
  BY DEF CreateReads, Parts
<1>6. ReadInv(job[p])' /\ AdmittedInv(job[p])' /\ ~Scanned(job'[p])
  BY <1>1, <1>4, <1>5 DEF ReadInv, AdmittedInv, Scanned, Parts
<1> QED
  <2>1. /\ job' = [job EXCEPT ![p] = job'[p]]
        /\ job'[p] \in Creating \cup Verifying \cup {Nothing}
        /\ job'[p].at <= now /\ job'[p].op = "create"
    <3>1. j.at <= now /\ j.op = "create"
      BY <1>2
    <3> HIDE DEF j
    <3> QED
      BY <1>3, <1>4, <3>1
  <2>2. (Scanned(job[p]) => \E r \in runs : RunOf(job[p], r))'
    BY <1>6
  <2> QED
    BY <1>6, <2>1, <2>2, QuietStep DEF StartCreate

\* A command that creates reads one more part.
LEMMA CreateReadMoves ==
    ASSUME job \in [Procs -> Creating \cup Verifying \cup {Nothing}], world \in Worlds,
           NEW p \in Procs, job[p] \in Creating, job[p].next <= Len(CreateRereads),
           NEW part \in Parts,
           job' = [job EXCEPT ![p].read[part] = world[part], ![p].next = @ + 1]
    PROVE  /\ job' = [job EXCEPT ![p] = job'[p]]
           /\ job'[p] \in Creating
           /\ job'[p].next = job[p].next + 1
           /\ job'[p].read = [job[p].read EXCEPT ![part] = world[part]]
           /\ job'[p].op = job[p].op /\ job'[p].stage = job[p].stage
           /\ job'[p].name = job[p].name /\ job'[p].at = job[p].at
<1> DEFINE read == [job[p].read EXCEPT ![part] = world[part]]
           j == [job[p] EXCEPT !.read = read, !.next = job[p].next + 1]
<1>1. read \in Reads
  BY DEF Creating, Reads, Parts, Worlds
<1>2. job[p].next + 1 \in 1..(Len(CreateRereads) + 1)
  BY Lengths DEF Creating
<1> HIDE DEF read
<1>3. j \in Creating /\ j.next = job[p].next + 1 /\ j.read = read
      /\ j.op = job[p].op /\ j.stage = job[p].stage
      /\ j.name = job[p].name /\ j.at = job[p].at
  BY <1>1, <1>2 DEF Creating
<1>4. j = [job[p] EXCEPT !.read[part] = world[part], !.next = @ + 1]
  BY DEF Creating, read
<1>5. job' = [job EXCEPT ![p] = j]
  BY <1>4
<1> HIDE DEF j
<1>6. job'[p] = j
  BY <1>5
<1> QED
  BY <1>3, <1>5, <1>6 DEF read

\* A command that verifies reads one more part.
LEMMA VerifyReadMoves ==
    ASSUME job \in [Procs -> Creating \cup Verifying \cup {Nothing}], world \in Worlds,
           NEW p \in Procs, job[p] \in Verifying, job[p].next <= Len(VerifyReads),
           NEW part \in Parts,
           job' = [job EXCEPT ![p].read[part] = world[part], ![p].next = @ + 1]
    PROVE  /\ job' = [job EXCEPT ![p] = job'[p]]
           /\ job'[p] \in Verifying
           /\ job'[p].next = job[p].next + 1
           /\ job'[p].read = [job[p].read EXCEPT ![part] = world[part]]
           /\ job'[p].op = job[p].op /\ job'[p].stage = job[p].stage
           /\ job'[p].name = job[p].name /\ job'[p].at = job[p].at
           /\ job'[p].began = job[p].began
<1> DEFINE read == [job[p].read EXCEPT ![part] = world[part]]
           j == [job[p] EXCEPT !.read = read, !.next = job[p].next + 1]
<1>1. read \in Reads
  BY DEF Verifying, Reads, Parts, Worlds
<1>2. job[p].next + 1 \in 1..(Len(VerifyReads) + 1)
  BY Lengths DEF Verifying
<1> HIDE DEF read
<1>3. j \in Verifying /\ j.next = job[p].next + 1 /\ j.read = read
      /\ j.op = job[p].op /\ j.stage = job[p].stage
      /\ j.name = job[p].name /\ j.at = job[p].at /\ j.began = job[p].began
  BY <1>1, <1>2 DEF Verifying
<1>4. j = [job[p] EXCEPT !.read[part] = world[part], !.next = @ + 1]
  BY DEF Verifying, read
<1>5. job' = [job EXCEPT ![p] = j]
  BY <1>4
<1> HIDE DEF j
<1>6. job'[p] = j
  BY <1>5
<1> QED
  BY <1>3, <1>5, <1>6 DEF read

\* A part that is read is in the state it has now, and is admitted or stops the
\* command.
LEMMA ReadStep ==
    ASSUME ScanInv, NEW p \in Procs, Read(p)
    PROVE  ScanInv'
<1> DEFINE part == CreateReads[job[p].next]
<1>1. /\ job[p] \in Creating /\ job[p].stage = "read" /\ job[p].op = "create"
      /\ job[p].at <= now /\ ReadInv(job[p]) /\ AdmittedInv(job[p])
      /\ job[p].next \in 1..5 /\ Admitted(job[p], part)
  BY CreatingFacts, Lengths DEF Read, Creating, Doing
<1>2. /\ job \in [Procs -> Creating \cup Verifying \cup {Nothing}] /\ world \in Worlds
      /\ part \in Parts /\ now \in Nat
      /\ job' = [job EXCEPT ![p].read[part] = world[part], ![p].next = @ + 1]
      /\ UNCHANGED <<now, world, preflights, artifacts, runs>>
  BY <1>1, TargetScanConstants DEF Read, ScanInv, TypeOK, CreateReads, Parts
<1>3. world[part] # Nothing
  BY <1>2, TargetScanConstants DEF Worlds, Parts
<1> HIDE DEF part
<1>4. /\ job' = [job EXCEPT ![p] = job'[p]]
      /\ job'[p] \in Creating
      /\ job'[p].next = job[p].next + 1
      /\ job'[p].read = [job[p].read EXCEPT ![part] = world[part]]
      /\ job'[p].op = job[p].op /\ job'[p].stage = job[p].stage
      /\ job'[p].name = job[p].name /\ job'[p].at = job[p].at
  <2>1. job[p].next <= Len(CreateRereads)
    BY <1>1, Lengths
  <2> QED
    BY <1>1, <1>2, <2>1, CreateReadMoves
<1>5. /\ job'[p].stage = "read" /\ job'[p].op = "create" /\ job'[p].at = job[p].at
      /\ job'[p].name = job[p].name
  BY <1>1, <1>4
<1>6. \A q \in Parts : job'[p].read[q] = IF q = part THEN world[q] ELSE job[p].read[q]
  BY <1>1, <1>2, <1>4 DEF Creating, Reads, Parts
<1>7. ReadInv(job[p])'
  <2>1. \A i \in 1..5 : /\ CreateReads[i] \in Parts
                        /\ CreateReads[i] = part <=> i = job[p].next
    BY <1>1 DEF part, CreateReads, Parts
  <2>2. \A q \in Parts : Earlier(q, world[q], world[q])
    BY DEF Earlier
  <2> QED
    BY <1>1, <1>2, <1>3, <1>4, <1>5, <1>6, <2>1, <2>2, Lengths DEF ReadInv, Scanned, Earlier
<1>8. AdmittedInv(job[p])'
  <2>1. part # "image" => job[p].read["image"] = Nothing
    BY <1>1, Lengths DEF ReadInv, Scanned, CreateReads, part
  <2>2. CASE part \in {"source", "registry"}
    BY <1>1, <1>5, <1>6, <2>1, <2>2 DEF AdmittedInv, Admitted, Parts
  <2>3. CASE part = "inputs"
    BY <1>1, <1>5, <1>6, <2>1, <2>3 DEF AdmittedInv, Admitted, Parts, TargetSelected
  <2>4. CASE part = "preflight"
    BY <1>1, <1>2, <1>5, <1>6, <2>1, <2>4
       DEF AdmittedInv, Admitted, Parts, CapacityCurrent, ScanInv, ReceiptInv, Creating,
           Worlds, Receipts
  <2>5. CASE part = "image"
    BY <1>1, <1>5, <1>6, <2>5
       DEF AdmittedInv, Admitted, Parts, QualificationBinds, PreflightCurrent
  <2> QED
    BY <1>2, <2>2, <2>3, <2>4, <2>5 DEF Parts
<1>9. ~Scanned(job'[p])
  BY <1>5 DEF Scanned
<1> QED
  BY <1>1, <1>2, <1>4, <1>5, <1>7, <1>8, <1>9, QuietStep

\* A command that goes on to another stage.
LEMMA GoesFacts ==
    ASSUME ScanInv, NEW p \in Procs, job[p] \in Creating,
           NEW stage \in {"reread", "rename", "readback"}, Goes(p, stage)
    PROVE  /\ job' = [job EXCEPT ![p] = job'[p]]
           /\ job'[p] \in Creating
           /\ job'[p].stage = stage /\ job'[p].next = 1 /\ job'[p].op = "create"
           /\ job'[p].name = job[p].name /\ job'[p].at = job[p].at
           /\ job'[p].read = job[p].read
           /\ AdmittedInv(job[p]) => AdmittedInv(job'[p])
<1> DEFINE j == [job[p] EXCEPT !.stage = stage, !.next = 1]
<1>1. /\ j \in Creating
      /\ j.stage = stage /\ j.next = 1 /\ j.op = "create"
      /\ j.name = job[p].name /\ j.at = job[p].at /\ j.read = job[p].read
  <2>1. 1 \in 1..(Len(CreateRereads) + 1)
    BY Lengths
  <2> QED
    BY <2>1 DEF Creating
<1>2. job' = [job EXCEPT ![p] = j] /\ job \in [Procs -> Creating \cup Verifying \cup {Nothing}]
  BY DEF Goes, ScanInv, TypeOK
<1> HIDE DEF j
<1>3. job'[p] = j
  BY <1>2
<1>4. AdmittedInv(job[p]) => AdmittedInv(j)
  BY <1>1 DEF AdmittedInv, QualificationBinds, PreflightCurrent
<1> QED
  BY <1>1, <1>2, <1>3, <1>4

\* A command that has scanned has read every part.
LEMMA AllRead ==
    ASSUME NEW j \in Creating, ReadInv(j), Scanned(j) \/ j.next > Len(CreateReads),
           NEW part \in Parts
    PROVE  j.read[part] # Nothing /\ Earlier(part, j.read[part], world[part])
<1>1. \E i \in 1..5 : CreateReads[i] = part
  <2>1. /\ CreateReads[1] = "source" /\ CreateReads[2] = "inputs"
        /\ CreateReads[3] = "preflight" /\ CreateReads[4] = "registry"
        /\ CreateReads[5] = "image"
    BY DEF CreateReads
  <2> QED
    BY <2>1 DEF Parts
<1> QED
  BY <1>1, Lengths DEF ReadInv, Creating

\* The scan is a run of the sandbox on what was read.
LEMMA ScanStep ==
    ASSUME ScanInv, NEW p \in Procs, Scan(p)
    PROVE  ScanInv'
<1> DEFINE r == [name |-> job[p].name, at |-> job[p].at, on |-> world]
<1>1. /\ job[p] \in Creating /\ job[p].stage = "read" /\ job[p].at <= now
      /\ ReadInv(job[p]) /\ AdmittedInv(job[p])
      /\ job[p].next > Len(CreateReads)
      /\ runs' = runs \cup {r} /\ Goes(p, "reread")
      /\ UNCHANGED <<now, world, preflights, artifacts>>
  BY CreatingFacts DEF Scan
<1>2. /\ job' = [job EXCEPT ![p] = job'[p]]
      /\ job'[p] \in Creating
      /\ job'[p].stage = "reread" /\ job'[p].next = 1 /\ job'[p].op = "create"
      /\ job'[p].name = job[p].name /\ job'[p].at = job[p].at
      /\ job'[p].read = job[p].read
      /\ AdmittedInv(job'[p])
  BY <1>1, GoesFacts
<1>3. r \in [name : Names, at : Nat, on : Worlds] /\ r.at <= now /\ r.on = world
  BY <1>1 DEF ScanInv, TypeOK, Creating
<1>4. RunOf(job'[p], r)
  BY <1>1, <1>2, AllRead, Lengths DEF RunOf
<1>5. ReadInv(job[p])' /\ AdmittedInv(job[p])'
  <2>1. \A i \in 1..Len(CreateReads) : CreateReads[i] \in Parts
    BY DEF CreateReads, Parts
  <2> QED
    BY <1>1, <1>2, <2>1, AllRead DEF ReadInv, Scanned
<1> HIDE DEF r
<1>6. /\ artifacts' \in [Names -> ArtifactRecords \cup {Nothing}]
      /\ \A n \in Names : artifacts[n] # Nothing => artifacts'[n] = artifacts[n]
      /\ \A n \in Names : artifacts'[n] # Nothing =>
             artifacts'[n].name = n /\ artifacts'[n].at <= now
  BY <1>1 DEF ScanInv, TypeOK
<1>7. ArtifactInv'
  BY <1>1 DEF ScanInv, ArtifactInv
<1>8. (Scanned(job[p]) => \E s \in runs : RunOf(job[p], s))'
  BY <1>1, <1>4
<1> QED
  BY <1>1, <1>2, <1>3, <1>5, <1>6, <1>7, <1>8, CommandStep

\* A part that is read again was the same while the sandbox ran.
LEMMA RereadStep ==
    ASSUME ScanInv, NEW p \in Procs, Reread(p)
    PROVE  ScanInv'
<1> DEFINE part == CreateRereads[job[p].next]
           j == [job[p] EXCEPT !.next = job[p].next + 1]
<1>1. /\ job[p] \in Creating /\ job[p].stage = "reread" /\ job[p].at <= now
      /\ ReadInv(job[p]) /\ AdmittedInv(job[p])
      /\ job[p].next \in 1..7
      /\ world[part] = job[p].read[part]
      /\ job' = [job EXCEPT ![p].next = @ + 1]
      /\ UNCHANGED <<now, world, preflights, artifacts, runs>>
  BY CreatingFacts, Lengths DEF Reread, Creating
<1>2. PICK r \in runs : RunOf(job[p], r)
  BY CreatingFacts, <1>1 DEF Reread, Scanned
<1>3. part \in Parts /\ r.on \in Worlds /\ world \in Worlds
  BY <1>1 DEF CreateRereads, Parts, ScanInv, TypeOK
<1>4. /\ j \in Creating /\ j.next = job[p].next + 1 /\ j.stage = "reread"
      /\ j.op = "create" /\ j.name = job[p].name /\ j.at = job[p].at
      /\ j.read = job[p].read
  <2>1. job[p].next + 1 \in 1..(Len(CreateRereads) + 1)
    BY <1>1, Lengths
  <2> QED
    BY <1>1, <2>1 DEF Creating
<1>5. job' = [job EXCEPT ![p] = j] /\ job \in [Procs -> Creating \cup Verifying \cup {Nothing}]
  BY <1>1 DEF ScanInv, TypeOK
\* What has not changed since it was read was the same at the run.
<1>6. job[p].read[part] = r.on[part]
  <2>1. Earlier(part, job[p].read[part], r.on[part])
    BY <1>2, <1>3 DEF RunOf
  <2>2. Earlier(part, r.on[part], world[part])
    BY <1>2, <1>3 DEF ScanInv, RunsInv, Before
  <2>3. r.on[part] \in Values(part) /\ world[part] \in Values(part)
    BY <1>3, WorldValues
  <2>4. Earlier(part, world[part], r.on[part])
    BY <1>1, <2>1
  <2> HIDE DEF part
  <2>5. r.on[part] = world[part]
    BY <1>3, <2>2, <2>3, <2>4, NoReturn
  <2> QED
    BY <1>1, <2>5
<1>7. RunOf(j, r)
  BY <1>1, <1>2, <1>4, <1>6, Lengths DEF RunOf
<1> HIDE DEF part, j
<1>8. job'[p] = j
  BY <1>5
<1>9. ReadInv(job[p])' /\ AdmittedInv(job[p])'
  BY <1>1, <1>4, <1>8 DEF ReadInv, Scanned, AdmittedInv, QualificationBinds, PreflightCurrent
<1>10. (Scanned(job[p]) => \E s \in runs : RunOf(job[p], s))'
  BY <1>1, <1>2, <1>7, <1>8
<1> QED
  BY <1>1, <1>4, <1>5, <1>8, <1>9, <1>10, QuietStep

\* A command that writes has read everything again: its run was on what it read.
LEMMA WriteTemporaryStep ==
    ASSUME ScanInv, NEW p \in Procs, WriteTemporary(p)
    PROVE  ScanInv'
<1>1. /\ job[p] \in Creating /\ job[p].stage = "reread" /\ job[p].at <= now
      /\ ReadInv(job[p]) /\ AdmittedInv(job[p])
      /\ job[p].next > Len(CreateRereads) /\ Goes(p, "rename")
      /\ UNCHANGED <<now, world, preflights, artifacts, runs>>
  BY CreatingFacts DEF WriteTemporary
<1>2. PICK r \in runs : RunOf(job[p], r)
  BY CreatingFacts, <1>1 DEF WriteTemporary, Scanned
<1>3. /\ job' = [job EXCEPT ![p] = job'[p]]
      /\ job'[p] \in Creating
      /\ job'[p].stage = "rename" /\ job'[p].next = 1 /\ job'[p].op = "create"
      /\ job'[p].name = job[p].name /\ job'[p].at = job[p].at
      /\ job'[p].read = job[p].read
      /\ AdmittedInv(job'[p])
  BY <1>1, GoesFacts
<1>4. RunOf(job'[p], r)
  BY <1>1, <1>2, <1>3, Lengths DEF RunOf, Creating
<1>5. ReadInv(job[p])' /\ AdmittedInv(job[p])'
  BY <1>1, <1>3 DEF ReadInv, Scanned
<1>6. (Scanned(job[p]) => \E s \in runs : RunOf(job[p], s))'
  BY <1>1, <1>2, <1>4
<1> QED
  BY <1>1, <1>3, <1>5, <1>6, QuietStep

\* A command whose comparisons are over has read what its run was about.
LEMMA AllCompared ==
    ASSUME NEW j \in Creating, j.stage \in {"rename", "readback"},
           NEW r, RunOf(j, r), NEW part \in Parts
    PROVE  j.read[part] = r.on[part]
<1>1. \E i \in 1..7 : CreateRereads[i] = part
  <2>1. /\ CreateRereads[1] = "source" /\ CreateRereads[2] = "inputs"
        /\ CreateRereads[3] = "preflight" /\ CreateRereads[4] = "image"
        /\ CreateRereads[5] = "registry"
    BY DEF CreateRereads
  <2> QED
    BY <2>1 DEF Parts
<1> QED
  BY <1>1, Lengths DEF RunOf

\* What an artifact says of its command.
LEMMA ArtifactFacts ==
    ASSUME NEW name \in Names, NEW at \in Nat, NEW on \in Worlds
    PROVE  LET a == ArtifactOf(name, at, on)
           IN  /\ a \in ArtifactRecords /\ a # Nothing
               /\ a.name = name /\ a.at = at /\ a.source = on.source
               /\ a.inputs = on.inputs /\ a.preflight = on.preflight
               /\ a.registry = on.registry.content /\ a.image = on.image
               /\ a.receipt = ReceiptOf(at, on)
BY TargetScanConstants DEF ArtifactOf, ReceiptOf, ArtifactRecords, Worlds, Registries, Receipts

\* What the command read before its scan was admitted, so its artifact is.
LEMMA ArtifactAdmitted ==
    ASSUME ScanInv, NEW p \in Procs, Doing(p, "create", "rename"),
           NEW r \in runs, RunOf(job[p], r)
    PROVE  LET a == ArtifactOf(job[p].name, job[p].at, job[p].read)
           IN  /\ Describes(a, r) /\ a \in ArtifactRecords /\ a # Nothing
               /\ a.name = job[p].name /\ a.at = job[p].at
               /\ ArtifactShape(a) /\ AdmittedAtCreation(a)
<1> DEFINE j == job[p]
           a == ArtifactOf(r.name, r.at, r.on)
<1>1. /\ j \in Creating /\ j.stage = "rename" /\ ReadInv(j) /\ AdmittedInv(j)
      /\ r.name = j.name /\ r.at = j.at /\ r.name \in Names /\ r.at \in Nat
      /\ r.on \in Worlds
  BY CreatingFacts DEF RunOf, ScanInv, TypeOK
<1>2. \A part \in Parts : j.read[part] = r.on[part] /\ j.read[part] # Nothing
  BY <1>1, AllCompared, AllRead DEF Scanned
<1>3. ArtifactOf(j.name, j.at, j.read) = a
  BY <1>1, <1>2 DEF ArtifactOf, ReceiptOf, Parts
<1>4. /\ a \in ArtifactRecords /\ a # Nothing
      /\ a.name = r.name /\ a.at = r.at /\ a.source = r.on.source
      /\ a.inputs = r.on.inputs /\ a.preflight = r.on.preflight
      /\ a.registry = r.on.registry.content /\ a.image = r.on.image
      /\ a.receipt = ReceiptOf(r.at, r.on)
  BY <1>1, ArtifactFacts
<1> HIDE DEF a
<1>5. /\ TargetSelected(r.on.inputs) /\ RegistryAuthorized(r.on.registry)
      /\ r.on.preflight.image = r.on.image
      /\ r.at <= r.on.preflight.capacity + CapacityAge
      /\ r.on.preflight.capacity <= r.on.preflight.observed
      /\ r.on.preflight.ready /\ PreflightCurrent(r.on.preflight, r.at)
      /\ r.on.preflight.source = r.on.source /\ r.on.preflight.inputs = r.on.inputs
  BY <1>1, <1>2 DEF AdmittedInv, QualificationBinds, Parts
<1>6. ArtifactShape(a)
  BY <1>4, <1>5 DEF ArtifactShape, ScanReceiptValid, ReceiptOf, RegistryAuthorized
<1>7. AdmittedAtCreation(a)
  BY <1>1, <1>4, <1>5, TargetScanConstants
     DEF AdmittedAtCreation, CapacityCurrent, PreflightCurrent, Worlds, Receipts
<1> QED
  BY <1>1, <1>3, <1>4, <1>6, <1>7 DEF Describes, a

\* The artifact that is released is the one of an admitted run.
LEMMA RenameNoReplaceStep ==
    ASSUME ScanInv, NEW p \in Procs, RenameNoReplace(p)
    PROVE  ScanInv'
<1> DEFINE a == ArtifactOf(job[p].name, job[p].at, job[p].read)
<1>1. /\ Doing(p, "create", "rename")
      /\ job[p] \in Creating /\ job[p].stage = "rename" /\ job[p].at <= now
      /\ ReadInv(job[p]) /\ AdmittedInv(job[p])
      /\ artifacts[job[p].name] = Nothing
      /\ artifacts' = [artifacts EXCEPT ![job[p].name] = a]
      /\ Goes(p, "readback")
      /\ UNCHANGED <<now, world, preflights, runs>>
  BY CreatingFacts DEF RenameNoReplace, Named
<1>2. PICK r \in runs : RunOf(job[p], r)
  BY CreatingFacts, <1>1 DEF Scanned
<1>3. /\ Describes(a, r) /\ a \in ArtifactRecords /\ a # Nothing
      /\ a.name = job[p].name /\ a.at = job[p].at
      /\ ArtifactShape(a) /\ AdmittedAtCreation(a)
  BY <1>1, <1>2, ArtifactAdmitted
<1>4. /\ job' = [job EXCEPT ![p] = job'[p]]
      /\ job'[p] \in Creating
      /\ job'[p].stage = "readback" /\ job'[p].next = 1 /\ job'[p].op = "create"
      /\ job'[p].name = job[p].name /\ job'[p].at = job[p].at
      /\ job'[p].read = job[p].read
      /\ AdmittedInv(job'[p])
  BY <1>1, GoesFacts
<1>5. RunOf(job'[p], r)
  BY <1>1, <1>2, <1>4, Lengths DEF RunOf
<1>6. ReadInv(job[p])' /\ AdmittedInv(job[p])'
  BY <1>1, <1>4 DEF ReadInv, Scanned
<1>7. (Scanned(job[p]) => \E s \in runs : RunOf(job[p], s))'
  BY <1>1, <1>2, <1>5
<1>8. job[p].name \in Names /\ artifacts \in [Names -> ArtifactRecords \cup {Nothing}]
  BY <1>1 DEF Creating, ScanInv, TypeOK
<1> HIDE DEF a
<1>9. \A n \in Names : artifacts'[n] = IF n = job[p].name THEN a ELSE artifacts[n]
  BY <1>1, <1>8
<1>10. /\ artifacts' \in [Names -> ArtifactRecords \cup {Nothing}]
       /\ \A n \in Names : artifacts[n] # Nothing => artifacts'[n] = artifacts[n]
       /\ \A n \in Names : artifacts'[n] # Nothing =>
              artifacts'[n].name = n /\ artifacts'[n].at <= now
  BY <1>1, <1>3, <1>8, <1>9 DEF ScanInv, TypeOK
<1>11. ArtifactInv'
  BY <1>1, <1>2, <1>3, <1>9 DEF ScanInv, ArtifactInv, RunOf
<1> QED
  BY <1>1, <1>4, <1>6, <1>7, <1>10, <1>11, CommandStep

-----------------------------------------------------------------------------
(* Steps of a command that verifies.                                       *)

\* A command that starts to verify has read nothing.
LEMMA StartVerifyStep ==
    ASSUME ScanInv, NEW p \in Procs, NEW n \in Names, StartVerify(p, n)
    PROVE  ScanInv'
<1> DEFINE j == [op |-> "verify", stage |-> "read", next |-> 1,
                 name |-> n, at |-> now, began |-> world, read |-> Unread]
<1>1. /\ job' = [job EXCEPT ![p] = j]
      /\ job \in [Procs -> Creating \cup Verifying \cup {Nothing}]
      /\ artifacts[n] # Nothing /\ artifacts[n].at <= now
      /\ now \in Nat /\ world \in Worlds
      /\ UNCHANGED <<now, world, preflights, artifacts, runs>>
  BY TargetScanConstants DEF StartVerify, ScanInv, TypeOK
<1>2. j \in Verifying
  <2>1. Unread \in Reads
    BY DEF Unread, Reads, Parts
  <2>2. 1 \in 1..(Len(VerifyReads) + 1)
    BY Lengths
  <2> QED
    BY <1>1, <2>1, <2>2 DEF Verifying
<1>3. VerifyInv(j)
  <2>1. Before(world, world)
    BY DEF Before, Earlier
  <2>2. \E r \in runs : Describes(artifacts[n], r) /\ Before(r.on, world)
    BY <1>1 DEF ScanInv, ArtifactInv, RunsInv
  <2> QED
    BY <1>1, <2>1, <2>2 DEF VerifyInv
<1>4. j.at <= now /\ j.op = "verify"
  BY <1>1
<1> HIDE DEF j
<1>5. job'[p] = j
  BY <1>1
<1>6. VerifyInv(job[p])'
  BY <1>1, <1>3, <1>5 DEF VerifyInv
<1> QED
  BY <1>1, <1>2, <1>4, <1>5, <1>6, QuietStep

\* A command that verifies.
LEMMA VerifyingFacts ==
    ASSUME ScanInv, NEW p \in Procs, Doing(p, "verify", "read")
    PROVE  /\ job[p] \in Verifying /\ job[p].at <= now /\ job[p].at \in Nat
           /\ VerifyInv(job[p])
BY DEF Doing, ScanInv, VerifiesInv, TypeOK, Creating, Verifying

\* A part that matches the artifact now matched it when the command began.
LEMMA CompareStep ==
    ASSUME ScanInv, NEW p \in Procs, Compare(p)
    PROVE  ScanInv'
<1> DEFINE part == VerifyReads[job[p].next]
           a == artifacts[job[p].name]
           began == job[p].began
<1>1. /\ job[p] \in Verifying /\ job[p].at <= now /\ job[p].at \in Nat /\ VerifyInv(job[p])
      /\ job[p].next \in 1..5 /\ Matches(job[p], a, part)
      /\ job' = [job EXCEPT ![p].read[part] = world[part], ![p].next = @ + 1]
      /\ UNCHANGED <<now, world, preflights, artifacts, runs>>
  BY VerifyingFacts, Lengths DEF Compare, Verifying
<1>2. /\ part \in Parts /\ world \in Worlds /\ began \in Worlds
      /\ job \in [Procs -> Creating \cup Verifying \cup {Nothing}]
      /\ now \in Nat
  BY <1>1, TargetScanConstants DEF VerifyReads, Parts, ScanInv, TypeOK, Verifying
<1>3. PICK r \in runs : Describes(a, r) /\ Before(r.on, began)
  BY <1>1 DEF VerifyInv
<1>4. /\ r.on \in Worlds /\ a.source = r.on.source /\ a.inputs = r.on.inputs
      /\ a.preflight = r.on.preflight
  BY <1>3, ArtifactFacts DEF Describes, ScanInv, TypeOK
<1>5. Before(began, world)
  BY <1>1 DEF VerifyInv
\* What is as the artifact says was so when the verification began.
<1>6. ASSUME NEW q \in Parts, world[q] = r.on[q]
      PROVE  began[q] = r.on[q]
  BY <1>2, <1>3, <1>4, <1>5, <1>6, WorldValues, NoReturn DEF Before
<1> HIDE DEF part, a, began
<1>7. /\ part = "source" => began.source = a.source
      /\ part = "inputs" => began.inputs = a.inputs
      /\ part = "preflight" => /\ began.preflight = a.preflight
                               /\ job[p].at <= a.preflight.capacity + CapacityAge
  <2>1. part = "source" => world.source = r.on.source
    BY <1>1, <1>4 DEF Matches
  <2>2. part = "inputs" => world.inputs = r.on.inputs
    BY <1>1, <1>4 DEF Matches
  <2>3. part = "preflight" => /\ world.preflight = r.on.preflight
                              /\ now <= r.on.preflight.capacity + CapacityAge
    BY <1>1, <1>4 DEF Matches, CapacityCurrent
  <2>4. r.on.preflight.capacity \in Nat /\ CapacityAge \in Nat
    BY <1>4, TargetScanConstants DEF Worlds, Receipts
  <2> QED
    BY <1>1, <1>2, <1>4, <1>6, <2>1, <2>2, <2>3, <2>4 DEF Parts
<1>8. /\ job' = [job EXCEPT ![p] = job'[p]]
      /\ job'[p] \in Verifying
      /\ job'[p].next = job[p].next + 1
      /\ job'[p].op = job[p].op /\ job'[p].name = job[p].name
      /\ job'[p].at = job[p].at /\ job'[p].began = job[p].began
  <2>1. job[p].next <= Len(VerifyReads)
    BY <1>1, Lengths
  <2> QED
    BY <1>1, <1>2, <2>1, VerifyReadMoves
<1>9. /\ job'[p].name = job[p].name /\ job'[p].at = job[p].at /\ job'[p].began = began
      /\ job'[p].op = "verify"
  BY <1>1, <1>8 DEF began, Verifying
<1>10. VerifyInv(job[p])'
  <2>1. /\ job[p].next = 1 => part = "source"
        /\ job[p].next = 2 => part = "inputs"
        /\ job[p].next = 3 => part = "preflight"
    BY DEF part, VerifyReads
  <2>2. /\ job'[p].next > 1 => began.source = a.source
        /\ job'[p].next > 2 => began.inputs = a.inputs
        /\ job'[p].next > 3 => /\ began.preflight = a.preflight
                               /\ job[p].at <= a.preflight.capacity + CapacityAge
    BY <1>1, <1>7, <1>8, <2>1 DEF VerifyInv, a, began
  <2> QED
    BY <1>1, <1>9, <2>2 DEF VerifyInv, a, began
<1> QED
  BY <1>1, <1>8, <1>9, <1>10, QuietStep

-----------------------------------------------------------------------------
(* The theorems.                                                           *)

\* Every step preserves ScanInv.
LEMMA ScanInvStep ==
    ASSUME ScanInv, [Next]_vars
    PROVE  ScanInv'
<1>1. ASSUME NEW p \in Procs, Create(p)
      PROVE  ScanInv'
  <2>1. CASE \E n \in Names : StartCreate(p, n)
    BY <2>1, StartCreateStep
  <2>2. CASE CreateSucceeds(p)
    BY <2>2, StopStep DEF CreateSucceeds
  <2> QED
    BY <1>1, <2>1, <2>2, ReadStep, ScanStep, RereadStep, WriteTemporaryStep,
       RenameNoReplaceStep DEF Create
<1>2. ASSUME NEW p \in Procs, Verify(p)
      PROVE  ScanInv'
  <2>1. CASE VerifyReports(p)
    BY <2>1, StopStep DEF VerifyReports
  <2> QED
    BY <1>2, <2>1, StartVerifyStep, CompareStep DEF Verify
<1>3. ASSUME NEW p \in Procs, Stop(p)
      PROVE  ScanInv'
  BY <1>3, StopStep DEF Stop
<1>4. CASE UNCHANGED vars
  <2>1. /\ now' \in 0..MaxTime /\ now <= now' /\ world' \in Worlds
        /\ Changes' \in 0..MaxChanges /\ preflights' \in 0..MaxPreflights
        /\ Before(world, world') /\ ReceiptInv'
    BY <1>4, TargetScanConstants
       DEF vars, ScanInv, TypeOK, Changes, Before, Earlier, ReceiptInv
  <2> QED
    BY <1>4, <2>1, EnvironmentStep DEF vars
<1> QED
  BY <1>1, <1>2, <1>3, <1>4, WorldStep DEF Next

\* The inductive invariant: every command's reads are past states of the
\* world, its run is squeezed between the reads before it and the comparisons
\* after it, and every artifact describes a run.
THEOREM ScanInvariant == Spec => []ScanInv
<1>1. Init => ScanInv
  <2> SUFFICES ASSUME Init PROVE ScanInv
    OBVIOUS
  <2>1. /\ now = 0 /\ preflights = 0 /\ runs = {}
        /\ artifacts = [n \in Names |-> Nothing] /\ job = [p \in Procs |-> Nothing]
    BY DEF Init
  <2>2. world \in Worlds /\ Changes = 0 /\ ReceiptInv
    BY TargetScanConstants DEF Init, Worlds, Registries, Receipts, Changes, ReceiptInv
  <2>3. TypeOK
    BY <2>1, <2>2, TargetScanConstants DEF TypeOK
  <2> QED
    BY <2>1, <2>2, <2>3 DEF ScanInv, RunsInv, CreateInv, ArtifactInv, VerifiesInv
<1>2. ScanInv /\ [Next]_vars => ScanInv'
  BY ScanInvStep
<1> QED
  BY <1>1, <1>2, PTL DEF Spec

\* Types, for any number of commands, names, changes and runs.
THEOREM TypeCorrect == Spec => []TypeOK
<1>1. ScanInv => TypeOK
  BY DEF ScanInv
<1> QED
  BY ScanInvariant, <1>1, PTL

\* Nothing create_target_scan_artifact seals is ever refused by
\* verify_target_scan_artifact_history.
THEOREM HistoryAcceptsHolds == Spec => []HistoryAccepts
<1>1. ScanInv => HistoryAccepts
  <2> SUFFICES ASSUME ScanInv, NEW n \in Names, artifacts[n] # Nothing
               PROVE  HistoryVerdict(artifacts[n], artifacts[n].preflight, now) # "refused"
    BY DEF HistoryAccepts
  <2> QED
    BY DEF ScanInv, TypeOK, ArtifactInv, HistoryVerdict
<1> QED
  BY ScanInvariant, <1>1, PTL

\* verify_target_scan_artifact succeeds only if source, inputs and preflight
\* were together what the artifact says when the verification began, and the
\* capacity window was open then.
THEOREM VerifiedWasCurrentHolds == Spec => []VerifiedWasCurrent
<1>1. ScanInv => VerifiedWasCurrent
  <2> SUFFICES ASSUME ScanInv, NEW p \in Procs, Verified(p)
               PROVE  LET a == artifacts[job[p].name]
                      IN  /\ job[p].began.source = a.source
                          /\ job[p].began.inputs = a.inputs
                          /\ job[p].began.preflight = a.preflight
                          /\ HistoryVerdict(a, a.preflight, job[p].at) = "UNEXPIRED"
    BY DEF VerifiedWasCurrent
  <2> DEFINE a == artifacts[job[p].name]
  <2>1. /\ job[p] \in Verifying /\ VerifyInv(job[p]) /\ job[p].next > 3
        /\ job[p].next > 2 /\ job[p].next > 1 /\ job[p].at \in Nat
    BY VerifyingFacts, Lengths DEF Verified, Verifying
  <2>2. /\ a \in ArtifactRecords /\ a # Nothing /\ a.at <= job[p].at
        /\ ArtifactShape(a) /\ AdmittedAtCreation(a)
    BY <2>1 DEF VerifyInv, ScanInv, TypeOK, ArtifactInv, Verifying
  <2>3. job[p].at <= a.preflight.capacity + CapacityAge /\ a.preflight.capacity \in Nat
    BY <2>1, <2>2 DEF VerifyInv, ArtifactRecords, Receipts
  <2>4. ~(job[p].at > a.preflight.capacity + CapacityAge)
    BY <2>1, <2>3, TargetScanConstants
  <2>5. /\ job[p].began.source = a.source /\ job[p].began.inputs = a.inputs
        /\ job[p].began.preflight = a.preflight
    BY <2>1 DEF VerifyInv
  <2>6. HistoryVerdict(a, a.preflight, job[p].at) = "UNEXPIRED"
    BY <2>2, <2>4 DEF HistoryVerdict
  <2> QED
    BY <2>5, <2>6
<1> QED
  BY ScanInvariant, <1>1, PTL

\* A step that adds an artifact adds one that describes a run.
LEMMA ReleaseStep ==
    ASSUME ScanInv, [Next]_vars
    PROVE  [Artifacts!Next]_<<Claims, artifacts>>
<1>1. ASSUME NEW p \in Procs, RenameNoReplace(p)
      PROVE  Artifacts!Next
  <2> DEFINE a == ArtifactOf(job[p].name, job[p].at, job[p].read)
             n == job[p].name
  <2>1. /\ Doing(p, "create", "rename") /\ n \in Names /\ artifacts[n] = Nothing
        /\ artifacts' = [artifacts EXCEPT ![n] = a]
        /\ artifacts \in [Names -> ArtifactRecords \cup {Nothing}]
        /\ runs' = runs
    BY <1>1, CreatingFacts DEF RenameNoReplace, Named, Creating, ScanInv, TypeOK
  <2>2. PICK r \in runs : RunOf(job[p], r)
    BY <2>1, CreatingFacts DEF Scanned
  <2>3. Describes(a, r) /\ a # Nothing /\ r.name = n
    BY <2>1, <2>2, ArtifactAdmitted DEF RunOf
  <2>4. <<n, a>> \in Claims
    BY <2>2, <2>3 DEF Claims, Describes
  <2>5. Claims' = Claims
    BY <2>1 DEF Claims
  <2> HIDE DEF a, n
  <2>6. artifacts'[n] = a
    BY <2>1
  <2>7. Artifacts!Put(n)
    BY <2>1, <2>3, <2>4, <2>5, <2>6 DEF Artifacts!Put
  <2> QED
    BY <2>1, <2>7 DEF Artifacts!Next
<1>2. ASSUME NEW p \in Procs, Scan(p)
      PROVE  [Artifacts!Next]_<<Claims, artifacts>>
  <2>1. runs \subseteq runs' /\ artifacts' = artifacts
    BY <1>2 DEF Scan
  <2>2. Claims \subseteq Claims'
    BY <2>1 DEF Claims
  <2> QED
    BY <2>1, <2>2 DEF Artifacts!Next, Artifacts!Grant
<1>3. CASE UNCHANGED <<runs, artifacts>>
  BY <1>3 DEF Claims
<1> QED
  BY <1>1, <1>2, <1>3
     DEF Next, Create, Verify, StartCreate, Read, Reread, WriteTemporary, CreateSucceeds,
         StartVerify, Compare, VerifyReports, Stop, Tick, Edit, ReplaceRegistry, Preflight,
         vars

\* Target scans implement the exclusive release: an artifact describes a
\* sandbox run on exactly the source, the inputs, the preflight, the registry
\* and the image that were there at that run, and is never replaced.
THEOREM TargetScanRefinement == Spec => ImplementsRelease
<1>1. Init => Artifacts!Init
  BY DEF Init, Artifacts!Init, Claims
<1>2. ScanInv /\ [Next]_vars => [Artifacts!Next]_<<Claims, artifacts>>
  BY ReleaseStep
<1> QED
  BY ScanInvariant, <1>1, <1>2, PTL DEF Spec, ImplementsRelease, Artifacts!Spec
=============================================================================
