---------------------------- MODULE HostCapacity ----------------------------
(***************************************************************************)
(* Host-capacity receipts: src/mcp_trust/host_capacity.py.  A builder      *)
(* observes the file system twice and issues a receipt; later a gate       *)
(* accepts the receipt for a command if it is fresh and the file system    *)
(* still looks the same.  Both read the wall clock, which the host may set *)
(* forwards or backwards at any moment; the file system changes at will.   *)
(*                                                                         *)
(* Qualification.tla uses a receipt through its gate only: a receipt that  *)
(* passes is one not in its set expired.                                   *)
(***************************************************************************)
EXTENDS Integers, Sequences

CONSTANTS
    MinInterval,    \* HOST_CAPACITY_MIN_INTERVAL_SECONDS
    MaxAge,         \* HOST_CAPACITY_MAX_AGE_SECONDS
    MinAvailable,   \* HOST_CAPACITY_MIN_AVAILABLE_BYTES
    Rounding,       \* available / total below 1 / Rounding reads as 100 percent
    Samples,        \* what os.statvfs and os.stat may report
    Steps,          \* adjustments of the wall clock
    MaxTime,        \* bound on the time that passes
    MaxSteps,       \* bound on the number of adjustments
    None            \* no receipt, no check passed, an unreadable file system

ASSUME HostCapacityConstants ==
    /\ MinInterval \in Nat /\ MaxAge \in Nat /\ MinAvailable \in Nat
    /\ Rounding \in Nat /\ MaxTime \in Nat /\ MaxSteps \in Nat
    /\ Steps \subseteq Int
    /\ None \notin Samples
    /\ Samples \subseteq [device : Nat, total : Nat, available : Nat]

VARIABLES
    real,       \* the time that has really passed
    skew,       \* the wall clock shows real + skew
    steps,      \* the number of adjustments so far
    disk,       \* what the file system reports now
    stage,      \* where the builder is
    wake,       \* when its sleep ends
    readings,   \* its readings so far
    receipt,    \* the last receipt it issued
    setback,    \* history: how far the clock was set back since
    admitted    \* history: the last check that passed

vars == <<real, skew, steps, disk, stage, wake, readings, receipt, setback,
          admitted>>
builderVars == <<stage, wake, readings, receipt>>

Wall == real + skew

\* _validate_sample
ValidSample(d) == d # None /\ d.total > 0 /\ d.available <= d.total

\* _reading_reasons
Reasons(d) ==
    {r \in {"available", "percent"} :
        \/ r = "available" /\ d.available < MinAvailable
        \/ r = "percent" /\ d.available * Rounding < d.total}

-----------------------------------------------------------------------------
(* build_host_capacity_receipt.                                            *)

\* The builder ends with a receipt, READY or BLOCKED.
Issue(seen, reasons) ==
    /\ receipt' = [ready |-> Len(seen) = 2 /\ reasons = {}, readings |-> seen]
    /\ stage' = "idle"
    /\ readings' = <<>>
    /\ wake' = 0
    /\ setback' = 0

\* A reading keeps the sample, the wall clock after it was taken, and, for the
\* properties, the real times of both.
Reading(d, taken) ==
    [device |-> d.device, total |-> d.total, available |-> d.available,
     wall |-> Wall, taken |-> taken, stamped |-> real]

ReadFirst ==
    /\ stage = "idle"
    /\ IF ValidSample(disk)
       THEN /\ stage' = "stamp1"
            /\ readings' = <<[sample |-> disk, taken |-> real]>>
            /\ UNCHANGED <<wake, receipt, setback>>
       ELSE Issue(<<>>, {"unreadable"})
    /\ UNCHANGED <<real, skew, steps, disk, admitted>>

\* Mutant: the builder sleeps although the first reading has reasons.
StampFirstRegardless ==
    /\ stage = "stamp1"
    /\ readings' = <<Reading(readings[1].sample, readings[1].taken)>>
    /\ stage' = "sleep"
    /\ wake' = real + MinInterval
    /\ UNCHANGED <<real, skew, steps, disk, receipt, setback, admitted>>

\* A first reading with reasons ends the observation without a second one.
StampFirst ==
    LET r == Reading(readings[1].sample, readings[1].taken)
    IN  /\ stage = "stamp1"
        /\ IF Reasons(r) = {}
           THEN /\ readings' = <<r>>
                /\ stage' = "sleep"
                /\ wake' = real + MinInterval
                /\ UNCHANGED <<receipt, setback>>
           ELSE Issue(<<r>>, Reasons(r))
        /\ UNCHANGED <<real, skew, steps, disk, admitted>>

\* Mutant: no sleep.
ReadSecondAtOnce ==
    /\ stage = "sleep"
    /\ ValidSample(disk)
    /\ stage' = "stamp2"
    /\ readings' = <<readings[1], [sample |-> disk, taken |-> real]>>
    /\ UNCHANGED <<real, skew, steps, disk, wake, receipt, setback, admitted>>

\* sleeper() measures real time, at least the interval.
ReadSecond ==
    /\ stage = "sleep"
    /\ real >= wake
    /\ IF ValidSample(disk)
       THEN /\ stage' = "stamp2"
            /\ readings' = <<readings[1], [sample |-> disk, taken |-> real]>>
            /\ UNCHANGED <<wake, receipt, setback>>
       ELSE Issue(readings, {"unreadable"})
    /\ UNCHANGED <<real, skew, steps, disk, admitted>>

PairReasons(first, second) ==
    {r \in {"device", "total", "interval"} :
        \/ r = "device" /\ second.device # first.device
        \/ r = "total" /\ second.total # first.total
        \/ r = "interval" /\ second.wall - first.wall < MinInterval}

\* Mutant: the sleep is trusted to have kept the readings apart.
StampSecondUnspaced ==
    LET r == Reading(readings[2].sample, readings[2].taken)
    IN  /\ stage = "stamp2"
        /\ Issue(<<readings[1], r>>,
                 Reasons(r) \cup (PairReasons(readings[1], r) \ {"interval"}))
        /\ UNCHANGED <<real, skew, steps, disk, admitted>>

StampSecond ==
    LET r == Reading(readings[2].sample, readings[2].taken)
    IN  /\ stage = "stamp2"
        /\ Issue(<<readings[1], r>>, Reasons(r) \cup PairReasons(readings[1], r))
        /\ UNCHANGED <<real, skew, steps, disk, admitted>>

-----------------------------------------------------------------------------
(* The gate.                                                               *)

\* validate_host_capacity_receipt on the readings: both satisfy the policy and
\* name the anchor, which is that of the first, and they lie apart.
SatisfiesPolicy(seen) ==
    /\ Len(seen) = 2
    /\ \A i \in 1..2 : /\ Reasons(seen[i]) = {}
                       /\ seen[i].device = seen[1].device
                       /\ seen[i].total = seen[1].total
    /\ seen[2].wall - seen[1].wall >= MinInterval

\* validate_host_capacity_receipt
Validates(x) == SatisfiesPolicy(x.readings) /\ x.ready

\* Mutant: only a receipt from the future is refused.
NotFromFuture(x) == Wall - x.readings[2].wall >= 0

\* The age of a receipt is the age of its second reading.
FreshNow(x) == Wall - x.readings[2].wall \in 0..MaxAge

\* require_current_host_capacity; a refusal changes nothing.
RequireCurrent ==
    /\ receipt # None
    /\ Validates(receipt)
    /\ FreshNow(receipt)
    /\ ValidSample(disk)
    /\ disk.device = receipt.readings[1].device
    /\ disk.total = receipt.readings[1].total
    /\ Reasons(disk) = {}
    /\ admitted' = [age |-> real - receipt.readings[2].stamped, back |-> setback]
    /\ UNCHANGED <<real, skew, steps, disk, builderVars, setback>>

-----------------------------------------------------------------------------
(* The host.                                                               *)

Tick ==
    /\ real < MaxTime
    /\ real' = real + 1
    /\ UNCHANGED <<skew, steps, disk, builderVars, setback, admitted>>

SetClock(step) ==
    /\ steps < MaxSteps
    /\ steps' = steps + 1
    /\ skew' = skew + step
    /\ setback' = IF step < 0 THEN setback - step ELSE setback
    /\ UNCHANGED <<real, disk, builderVars, admitted>>

DiskChanges ==
    /\ disk' \in (Samples \cup {None}) \ {disk}
    /\ UNCHANGED <<real, skew, steps, builderVars, setback, admitted>>

Init ==
    /\ real = 0 /\ skew = 0 /\ steps = 0
    /\ disk \in Samples
    /\ stage = "idle" /\ wake = 0 /\ readings = <<>>
    /\ receipt = None
    /\ setback = 0
    /\ admitted = None

Next ==
    \/ ReadFirst \/ StampFirst \/ ReadSecond \/ StampSecond
    \/ RequireCurrent
    \/ Tick \/ DiskChanges
    \/ \E step \in Steps : SetClock(step)

Spec == Init /\ [][Next]_vars

-----------------------------------------------------------------------------
(* Properties.                                                             *)

\* The builder is between two readings only after a first one without
\* reasons: a host below the floor is refused without waiting.
TypeOK ==
    /\ real \in 0..MaxTime /\ steps \in 0..MaxSteps /\ skew \in Int
    /\ setback \in Nat
    /\ disk \in Samples \cup {None}
    /\ stage \in {"idle", "stamp1", "sleep", "stamp2"}
    /\ stage \in {"sleep", "stamp2"} => Reasons(readings[1]) = {}
    /\ Len(readings) = CASE stage = "idle" -> 0
                         [] stage \in {"stamp1", "sleep"} -> 1
                         [] stage = "stamp2" -> 2

\* The builder and the validator agree on what READY means: the builder never
\* calls a pair of readings READY that the gate would refuse, nor BLOCKED a
\* pair that it would accept, however the clock and the file system moved.
ReadyIffValid ==
    receipt # None => (receipt.ready <=> SatisfiesPolicy(receipt.readings))

\* The two readings of a READY receipt were taken an interval of real time
\* apart, although only their wall-clock stamps are compared.
ReadyObservedTwice ==
    receipt # None /\ receipt.ready =>
        receipt.readings[2].taken - receipt.readings[1].taken >= MinInterval

\* A command is admitted only within the maximum age of the second reading,
\* stretched by exactly as much as the clock was set back in between.
AdmittedFresh == admitted # None => admitted.age <= MaxAge + admitted.back
=============================================================================
