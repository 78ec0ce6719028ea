----------------------------- MODULE TargetScan -----------------------------
(***************************************************************************)
(* Target scans: src/mcp_trust/target_scan.py.  One command reads the      *)
(* source, the reviewed inputs, the preflight receipt, the registry        *)
(* database and the live image, scans one server, reads everything again,  *)
(* and seals one artifact under a name nobody has used.  Two verifiers     *)
(* read artifacts: one against the current inputs, one against the past.   *)
(* Several commands run at once while every input may change under them,   *)
(* the clock advances, and a command may stop at any point.                *)
(*                                                                         *)
(* A number stands for a state of the source, of the reviewed inputs and   *)
(* of the local image, and every preflight receipt has a number: such      *)
(* states do not return, and no receipt is put back.  The registry's bytes *)
(* may return; its inode and modification time do not.                     *)
(***************************************************************************)
EXTENDS Naturals, Sequences, FiniteSets

CONSTANTS
    Procs,          \* operator commands that may run at once
    Names,          \* artifact names
    Authorized,     \* expected_content_sha256
    Reviewed,       \* inputs with the reviewed 31/22/9 boundary in which the
                    \* target is policy-scannable
    Databases,      \* registry contents, one of them authorized
    CapacityAge,    \* HOST_CAPACITY_MAX_AGE_SECONDS
    PreflightAge,   \* DEFAULT_MAX_AGE_HOURS * 3600
    MaxTime,        \* bound on the clock
    MaxChanges,     \* bound on the changes of the inputs
    MaxPreflights,  \* bound on the preflights taken
    MaxRuns,        \* bound on the sandbox runs
    Nothing         \* no artifact, no command

Registries == [content : Databases, ident : Nat]

Receipts ==
    [number : Nat, source : Nat, inputs : Nat, image : Nat, ready : BOOLEAN,
     capacity : Nat, observed : Nat]

ArtifactRecords ==
    [name : Names, at : Nat, source : Nat, inputs : Nat, preflight : Receipts,
     registry : Databases, image : Nat,
     receipt : [at : Nat, image : Nat, source : Nat, inputs : Nat,
                preflight : Receipts]]

ASSUME TargetScanConstants ==
    /\ Authorized \in Databases
    /\ Reviewed \subseteq Nat
    /\ {CapacityAge, PreflightAge, MaxTime, MaxChanges, MaxPreflights, MaxRuns} \subseteq Nat
    /\ CapacityAge < PreflightAge
    /\ Nothing \notin Nat \cup Registries \cup Receipts \cup ArtifactRecords

VARIABLES
    now,        \* the clock
    world,      \* the inputs as they are
    preflights, \* the number of preflights taken
    artifacts,  \* artifacts[n]: the sealed file under name n, or Nothing
    runs,       \* history: the sandbox runs, and what they ran on
    job         \* job[p]: the command p runs, or Nothing

vars == <<now, world, preflights, artifacts, runs, job>>

Parts == {"source", "inputs", "preflight", "registry", "image"}

\* The order of the reads of create_target_scan_artifact before the scan,
\* and of the comparisons after it.
CreateReads == <<"source", "inputs", "preflight", "registry", "image">>

\* Mutant: the registry is not read back after the scan.
RereadsButRegistry == <<"source", "inputs", "preflight", "image", "source">>

CreateRereads ==
    <<"source", "inputs", "preflight", "image", "registry", "source", "registry">>

\* The order of the reads of verify_target_scan_artifact.
VerifyReads == <<"source", "inputs", "preflight", "registry", "registry">>

Unread == [part \in Parts |-> Nothing]

Doing(p, op, stage) == job[p] # Nothing /\ job[p].op = op /\ job[p].stage = stage

Goes(p, stage) == job' = [job EXCEPT ![p].stage = stage, ![p].next = 1]

-----------------------------------------------------------------------------
(* Conditions.                                                             *)

\* require_current_host_capacity, with the time of the comparison.
CapacityCurrent(pf, t) == pf.capacity <= t /\ t <= pf.capacity + CapacityAge

PreflightCurrent(pf, t) == pf.observed <= t /\ t < pf.observed + PreflightAge

\* Mutant: the age of the preflight is not compared.
QualificationOfAnyAge(j, pf) ==
    /\ pf.ready
    /\ pf.source = j.read["source"] /\ pf.inputs = j.read["inputs"]

\* _qualification_binding: the READY preflight is recent, and is a preflight
\* of the source and the inputs read before.
QualificationBinds(j, pf) ==
    /\ pf.ready
    /\ PreflightCurrent(pf, j.at)
    /\ pf.source = j.read["source"] /\ pf.inputs = j.read["inputs"]

\* _open_registry_target: the authorized bytes.  The registry's identity is
\* its signature.
RegistryAuthorized(db) == db.content = Authorized

-----------------------------------------------------------------------------
(* create_target_scan_artifact.                                            *)

\* fixed_now is taken first and stamps the scan.
StartCreate(p, n) ==
    /\ job[p] = Nothing
    /\ job' = [job EXCEPT ![p] = [op |-> "create", stage |-> "read", next |-> 1,
                                  name |-> n, at |-> now, read |-> Unread]]
    /\ UNCHANGED <<now, world, preflights, artifacts, runs>>

\* _current_catalog_binding, _require_current_denominator, _select_target.
TargetSelected(inputs) == inputs \in Reviewed

\* What must hold of the part that is read now.  The name must be free when
\* the preflight is read; capacity is compared with the real time.
Admitted(j, part) ==
    CASE part = "inputs" -> TargetSelected(world.inputs)
      [] part = "preflight" ->
             artifacts[j.name] = Nothing /\ CapacityCurrent(world.preflight, now)
      [] part = "registry" -> RegistryAuthorized(world.registry)
      [] part = "image" ->
             /\ QualificationBinds(j, j.read["preflight"])
             /\ CapacityCurrent(j.read["preflight"], now)
             /\ j.read["preflight"].image = world.image
      [] OTHER -> TRUE

Read(p) ==
    /\ Doing(p, "create", "read")
    /\ job[p].next <= Len(CreateReads)
    /\ LET part == CreateReads[job[p].next]
       IN  /\ Admitted(job[p], part)
           /\ job' = [job EXCEPT ![p].read[part] = world[part], ![p].next = @ + 1]
    /\ UNCHANGED <<now, world, preflights, artifacts, runs>>

\* The engine runs the image the preflight qualified, after one more capacity
\* gate.  A timeout or incomplete evidence ends the command without artifact.
Scan(p) ==
    /\ Doing(p, "create", "read")
    /\ job[p].next > Len(CreateReads)
    /\ CapacityCurrent(job[p].read["preflight"], now)
    /\ Cardinality(runs) < MaxRuns
    /\ runs' = runs \cup {[name |-> job[p].name, at |-> job[p].at, on |-> world]}
    /\ Goes(p, "reread")
    /\ UNCHANGED <<now, world, preflights, artifacts>>

\* Mutant: every second comparison is left out.
RereadEverySecond(p) ==
    /\ Doing(p, "create", "reread")
    /\ job[p].next <= Len(CreateRereads)
    /\ world[CreateRereads[job[p].next]] = job[p].read[CreateRereads[job[p].next]]
    /\ job' = [job EXCEPT ![p].next = @ + 2]
    /\ UNCHANGED <<now, world, preflights, artifacts, runs>>

\* Every part is compared with what was read before the scan; a reread
\* preflight or image is followed by a capacity gate.
Reread(p) ==
    /\ Doing(p, "create", "reread")
    /\ job[p].next <= Len(CreateRereads)
    /\ LET part == CreateRereads[job[p].next]
       IN  /\ world[part] = job[p].read[part]
           /\ part \in {"preflight", "image"} =>
                 CapacityCurrent(job[p].read["preflight"], now)
    /\ job' = [job EXCEPT ![p].next = @ + 1]
    /\ UNCHANGED <<now, world, preflights, artifacts, runs>>

\* _scan_receipt_payload and _candidate_execution_binding: what the scan
\* receipt inside the artifact says of the run.
ReceiptOf(at, on) ==
    [at |-> at, image |-> on["preflight"].image, source |-> on["source"],
     inputs |-> on["inputs"], preflight |-> on["preflight"]]

\* The artifact binds what was read, not what is there.
ArtifactOf(name, at, on) ==
    [name |-> name, at |-> at, source |-> on["source"], inputs |-> on["inputs"],
     preflight |-> on["preflight"], registry |-> on["registry"].content,
     image |-> on["image"], receipt |-> ReceiptOf(at, on)]

\* _scan_receipt_valid: the run used the qualified image, in the record of the
\* scan and in that of its container alike.
ScanReceiptValid(receipt, image) == receipt.image = image

\* _validate_artifact_shape: the authorized registry, a valid receipt, and
\* what the artifact says twice it says alike.
ArtifactShape(a) ==
    /\ a.registry = Authorized
    /\ ScanReceiptValid(a.receipt, a.image)
    /\ a.at = a.receipt.at
    /\ a.source = a.receipt.source /\ a.inputs = a.receipt.inputs
    /\ a.preflight = a.receipt.preflight

\* _exclusive_finalize: the name is looked up again, and the whole artifact is
\* written, validated and sealed under a temporary name.
WriteTemporary(p) ==
    /\ Doing(p, "create", "reread")
    /\ job[p].next > Len(CreateRereads)
    /\ ArtifactShape(ArtifactOf(job[p].name, job[p].at, job[p].read))
    /\ artifacts[job[p].name] = Nothing
    /\ Goes(p, "rename")
    /\ UNCHANGED <<now, world, preflights, artifacts, runs>>

Named(p) ==
    /\ artifacts' = [artifacts EXCEPT ![job[p].name] =
                       ArtifactOf(job[p].name, job[p].at, job[p].read)]
    /\ Goes(p, "readback")
    /\ UNCHANGED <<now, world, preflights, runs>>

\* _rename_no_replace_at.
RenameNoReplace(p) ==
    /\ Doing(p, "create", "rename")
    /\ artifacts[job[p].name] = Nothing
    /\ Named(p)

\* The sealed file is read back before the command succeeds.
CreateSucceeds(p) ==
    /\ Doing(p, "create", "readback")
    /\ artifacts[job[p].name] = ArtifactOf(job[p].name, job[p].at, job[p].read)
    /\ ArtifactShape(artifacts[job[p].name])
    /\ job' = [job EXCEPT ![p] = Nothing]
    /\ UNCHANGED <<now, world, preflights, artifacts, runs>>

-----------------------------------------------------------------------------
(* verify_target_scan_artifact and verify_target_scan_artifact_history.    *)

StartVerify(p, n) ==
    /\ job[p] = Nothing
    /\ artifacts[n] # Nothing
    /\ ArtifactShape(artifacts[n])
    /\ job' = [job EXCEPT ![p] = [op |-> "verify", stage |-> "read", next |-> 1,
                                  name |-> n, at |-> now, began |-> world,
                                  read |-> Unread]]
    /\ UNCHANGED <<now, world, preflights, artifacts, runs>>

\* Mutant: only the digest of the preflight receipt is compared.
MatchesAnySource(j, a, part) ==
    CASE part = "registry" -> world.registry.content = a.registry
      [] part = "source" -> TRUE
      [] part = "preflight" -> world.preflight = a.preflight
      [] OTHER -> world[part] = a[part]

\* Each current part is compared with the artifact; the preflight is also
\* revalidated, and the registry read twice must be the same file.
Matches(j, a, part) ==
    CASE part = "registry" ->
             /\ RegistryAuthorized(world.registry)
             /\ world.registry.content = a.registry
             /\ j.next = Len(VerifyReads) => world.registry = j.read["registry"]
      [] part = "preflight" ->
             /\ world.preflight = a.preflight
             /\ QualificationBinds(j, world.preflight)
             /\ CapacityCurrent(world.preflight, now)
      [] part = "inputs" -> TargetSelected(world.inputs) /\ world.inputs = a.inputs
      [] OTHER -> world[part] = a[part]

Compare(p) ==
    /\ Doing(p, "verify", "read")
    /\ job[p].next <= Len(VerifyReads)
    /\ LET part == VerifyReads[job[p].next]
       IN  /\ Matches(job[p], artifacts[job[p].name], part)
           /\ job' = [job EXCEPT ![p].read[part] = world[part], ![p].next = @ + 1]
    /\ UNCHANGED <<now, world, preflights, artifacts, runs>>

Verified(p) == Doing(p, "verify", "read") /\ job[p].next > Len(VerifyReads)

VerifyReports(p) ==
    /\ Verified(p)
    /\ job' = [job EXCEPT ![p] = Nothing]
    /\ UNCHANGED <<now, world, preflights, artifacts, runs>>

\* The artifact was admitted when it was created, as its own preflight shows.
AdmittedAtCreation(a) ==
    /\ a.preflight.ready
    /\ TargetSelected(a.inputs)
    /\ CapacityCurrent(a.preflight, a.at)
    /\ a.preflight.capacity <= a.preflight.observed
    /\ PreflightCurrent(a.preflight, a.at)
    /\ a.preflight.source = a.source /\ a.preflight.inputs = a.inputs
    /\ a.preflight.image = a.image

\* The verdict of the historical verifier at time t, given the preflight file.
HistoryVerdict(a, pf, t) ==
    IF ArtifactShape(a) /\ pf = a.preflight /\ AdmittedAtCreation(a) /\ a.at <= t
      THEN IF t > pf.capacity + CapacityAge THEN "EXPIRED" ELSE "UNEXPIRED"
      ELSE "refused"

-----------------------------------------------------------------------------
(* The environment.                                                        *)

\* An error, a refused check, a scan that times out or a kill.  At most a
\* hidden temporary file stays behind.
Stop(p) ==
    /\ job[p] # Nothing
    /\ job' = [job EXCEPT ![p] = Nothing]
    /\ UNCHANGED <<now, world, preflights, artifacts, runs>>

Tick ==
    /\ now < MaxTime
    /\ now' = now + 1
    /\ UNCHANGED <<world, preflights, artifacts, runs, job>>

Changes == world.source + world.inputs + world.image + world.registry.ident

\* The source is committed, the reviewed inputs are edited, or an image is
\* rebuilt.
Edit(part) ==
    /\ Changes < MaxChanges
    /\ world' = [world EXCEPT ![part] = @ + 1]
    /\ UNCHANGED <<now, preflights, artifacts, runs, job>>

ReplaceRegistry(content) ==
    /\ Changes < MaxChanges
    /\ content # world.registry.content
    /\ world' = [world EXCEPT !.registry = [content |-> content, ident |-> @.ident + 1]]
    /\ UNCHANGED <<now, preflights, artifacts, runs, job>>

\* A preflight receipt takes the place of the old one.  Its parts were read
\* one after another, the capacity receipt before its own time was taken.
Preflight(ready) ==
    /\ preflights < MaxPreflights
    /\ preflights' = preflights + 1
    /\ \E source \in 0..world.source,
          inputs \in 0..world.inputs,
          capacity \in 0..now :
          world' = [world EXCEPT !.preflight =
                      [number |-> preflights + 1,
                       source |-> source, inputs |-> inputs,
                       image |-> world.image, ready |-> ready,
                       capacity |-> capacity, observed |-> now]]
    /\ UNCHANGED <<now, artifacts, runs, job>>

Init ==
    /\ now = 0
    /\ world = [source |-> 0, inputs |-> 0, image |-> 0,
                registry |-> [content |-> Authorized, ident |-> 0],
                preflight |-> [number |-> 0, source |-> 0, inputs |-> 0, image |-> 0,
                               ready |-> TRUE, capacity |-> 0, observed |-> 0]]
    /\ preflights = 0
    /\ artifacts = [n \in Names |-> Nothing]
    /\ runs = {}
    /\ job = [p \in Procs |-> Nothing]

Create(p) ==
    \/ \E n \in Names : StartCreate(p, n)
    \/ Read(p) \/ Scan(p) \/ Reread(p)
    \/ WriteTemporary(p) \/ RenameNoReplace(p) \/ CreateSucceeds(p)

Verify(p) ==
    \/ \E n \in Names : StartVerify(p, n)
    \/ Compare(p) \/ VerifyReports(p)

Next ==
    \/ \E p \in Procs : Create(p) \/ Verify(p) \/ Stop(p)
    \/ Tick
    \/ \E part \in {"source", "inputs", "image"} : Edit(part)
    \/ \E content \in Databases : ReplaceRegistry(content)
    \/ \E ready \in BOOLEAN : Preflight(ready)

Spec == Init /\ [][Next]_vars

-----------------------------------------------------------------------------
(* Properties.                                                             *)

Worlds ==
    [source : Nat, inputs : Nat, preflight : Receipts, registry : Registries,
     image : Nat]

Reads ==
    [source : Nat \cup {Nothing}, inputs : Nat \cup {Nothing},
     preflight : Receipts \cup {Nothing}, registry : Registries \cup {Nothing},
     image : Nat \cup {Nothing}]

Creating ==
    [op : {"create"}, stage : {"read", "reread", "rename", "readback"},
     next : 1..(Len(CreateRereads) + 1), name : Names, at : Nat, read : Reads]

Verifying ==
    [op : {"verify"}, stage : {"read"}, next : 1..(Len(VerifyReads) + 1),
     name : Names, at : Nat, began : Worlds, read : Reads]

\* A command's reads are in order and its name is in use, every artifact is
\* whole and stamped no later than now, and no state of the inputs is ahead of
\* the changes made.
TypeOK ==
    /\ now \in 0..MaxTime
    /\ world \in Worlds /\ Changes \in 0..MaxChanges
    /\ preflights \in 0..MaxPreflights
    /\ job \in [Procs -> Creating \cup Verifying \cup {Nothing}]
    /\ \A p \in Procs : job[p] # Nothing => job[p].at <= now
    /\ artifacts \in [Names -> ArtifactRecords \cup {Nothing}]
    /\ \A n \in Names : artifacts[n] # Nothing =>
          artifacts[n].name = n /\ artifacts[n].at <= now
    /\ runs \subseteq [name : Names, at : Nat, on : Worlds]
    /\ \A r \in runs : r.at <= now

\* The exclusive output: an artifact describes a sandbox run that took place
\* for that name, exactly as the source, the inputs, the preflight, the
\* registry and the image all were at that run, and is never replaced.
Claims == {<<r.name, ArtifactOf(r.name, r.at, r.on)>> : r \in runs}

Artifacts == INSTANCE Release WITH
    Names <- Names, Nothing <- Nothing, granted <- Claims, store <- artifacts

ImplementsRelease == Artifacts!Spec

\* Whoever keeps an artifact and its preflight can always verify its history:
\* nothing create_target_scan_artifact seals is refused later, at any time.
HistoryAccepts ==
    \A n \in Names : artifacts[n] # Nothing =>
        HistoryVerdict(artifacts[n], artifacts[n].preflight, now) # "refused"

\* verify_target_scan_artifact reads each input once, at different times, and
\* still its success means that all of them were what the artifact says at
\* one moment, the start of the verification, and that the capacity window
\* was open then.
VerifiedWasCurrent ==
    \A p \in Procs : Verified(p) =>
        LET a == artifacts[job[p].name]
        IN  /\ job[p].began.source = a.source /\ job[p].began.inputs = a.inputs
            /\ job[p].began.preflight = a.preflight
            /\ HistoryVerdict(a, a.preflight, job[p].at) = "UNEXPIRED"
=============================================================================
