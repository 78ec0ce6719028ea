------------------------- MODULE HostCapacityProofs -------------------------
(***************************************************************************)
(* Theorems about host-capacity receipts, for any intervals, ages, floors, *)
(* file systems and adjustments of the clock.                              *)
(***************************************************************************)
EXTENDS HostCapacity, TLAPS

\* A reading with its stamps.
Stamped == [device : Nat, total : Nat, available : Nat, wall : Int, taken : Nat,
            stamped : Nat]

\* What the builder remembers between its steps.
BuilderInv ==
    /\ stage \in {"idle", "stamp1", "sleep", "stamp2"}
    /\ stage = "stamp1" =>
          /\ readings = <<readings[1]>>
          /\ readings[1].sample \in Samples
          /\ readings[1].taken \in 0..real
    /\ stage \in {"sleep", "stamp2"} =>
          /\ readings[1] \in Stamped
          /\ Reasons(readings[1]) = {}
    /\ stage = "sleep" =>
          /\ readings = <<readings[1]>>
          /\ wake \in Nat
          /\ wake - readings[1].taken >= MinInterval
    /\ stage = "stamp2" =>
          /\ readings = <<readings[1], readings[2]>>
          /\ readings[2].sample \in Samples
          /\ readings[2].taken \in Nat
          /\ readings[2].taken - readings[1].taken >= MinInterval

\* A READY receipt: two readings an interval apart, and since the second was
\* stamped the wall clock has gained what has passed less what it was set back.
ReceiptInv ==
    receipt # None =>
        /\ receipt.ready \in BOOLEAN
        /\ receipt.ready <=> SatisfiesPolicy(receipt.readings)
        /\ receipt.ready =>
              /\ receipt.readings[1] \in Stamped /\ receipt.readings[2] \in Stamped
              /\ receipt.readings[2].taken - receipt.readings[1].taken >= MinInterval
              /\ real - receipt.readings[2].stamped - setback
                    <= Wall - receipt.readings[2].wall

CapacityInv ==
    /\ real \in Nat /\ skew \in Int /\ setback \in Nat
    /\ disk \in Samples \cup {None}
    /\ BuilderInv
    /\ ReceiptInv
    /\ AdmittedFresh

\* Stamping a sample gives a reading with the sample's reasons.
LEMMA ReadingFacts ==
    ASSUME real \in Nat, skew \in Int, NEW d \in Samples, NEW t \in Nat
    PROVE  /\ Reading(d, t) \in Stamped
           /\ Reading(d, t).taken = t
           /\ Reading(d, t).stamped = real
           /\ Reading(d, t).wall = Wall
           /\ Reasons(Reading(d, t)) = Reasons(d)
<1>1. d.device \in Nat /\ d.total \in Nat /\ d.available \in Nat
  BY HostCapacityConstants
<1>2. Wall \in Int
  BY DEF Wall
<1> QED
  BY <1>1, <1>2 DEF Reading, Stamped, Reasons

\* A receipt with fewer than two readings is BLOCKED and satisfies no policy.
LEMMA BlockedReceipt ==
    ASSUME NEW seen, Len(seen) # 2, NEW reasons, Issue(seen, reasons)
    PROVE  ReceiptInv' /\ BuilderInv' /\ setback' = 0
BY DEF Issue, ReceiptInv, BuilderInv, SatisfiesPolicy

\* The invariant behind the three properties of host-capacity receipts.
THEOREM CapacityInvariant == Spec => []CapacityInv
<1> USE HostCapacityConstants
<1>1. Init => CapacityInv
  BY DEF Init, CapacityInv, BuilderInv, ReceiptInv, AdmittedFresh
<1>2. CapacityInv /\ [Next]_vars => CapacityInv'
  <2> SUFFICES ASSUME CapacityInv, [Next]_vars PROVE CapacityInv'
    OBVIOUS
  <2>1. CASE ReadFirst
    <3>1. CASE ~ValidSample(disk)
      <4>1. /\ Issue(<<>>, {"unreadable"})
            /\ UNCHANGED <<real, skew, disk, admitted>>
        BY <2>1, <3>1 DEF ReadFirst
      <4>2. Len(<<>>) # 2
        OBVIOUS
      <4>3. ReceiptInv' /\ BuilderInv' /\ setback' = 0
        BY <4>1, <4>2, BlockedReceipt
      <4> QED
        BY <4>1, <4>3 DEF CapacityInv, AdmittedFresh
    <3>2. CASE ValidSample(disk)
      <4> DEFINE s == [sample |-> disk, taken |-> real]
      <4>1. /\ readings' = <<s>> /\ stage' = "stamp1"
            /\ UNCHANGED <<real, skew, disk, receipt, setback, admitted>>
        BY <2>1, <3>2 DEF ReadFirst
      <4>2. s.sample \in Samples /\ s.taken \in 0..real
        BY <3>2 DEF ValidSample, CapacityInv
      <4> HIDE DEF s
      <4>3. BuilderInv'
        BY <4>1, <4>2 DEF BuilderInv
      <4> QED
        BY <4>1, <4>3 DEF CapacityInv, ReceiptInv, AdmittedFresh, Wall
    <3> QED
      BY <3>1, <3>2
  <2>2. CASE StampFirst
    <3> DEFINE r == Reading(readings[1].sample, readings[1].taken)
    <3>1. /\ r \in Stamped /\ r.taken \in 0..real
      BY <2>2, ReadingFacts DEF StampFirst, CapacityInv, BuilderInv
    <3>2. CASE Reasons(r) # {}
      BY <2>2, <3>2, BlockedReceipt DEF StampFirst, CapacityInv, AdmittedFresh
    <3>3. CASE Reasons(r) = {}
      <4>1. /\ readings' = <<r>> /\ stage' = "sleep" /\ wake' = real + MinInterval
            /\ UNCHANGED <<real, skew, disk, receipt, setback, admitted>>
        BY <2>2, <3>3 DEF StampFirst
      <4> HIDE DEF r
      <4> QED
        BY <3>1, <3>3, <4>1 DEF CapacityInv, BuilderInv, ReceiptInv, AdmittedFresh, Wall,
           Stamped, Reasons
    <3> QED
      BY <3>2, <3>3
  <2>3. CASE ReadSecond
    <3>1. CASE ~ValidSample(disk)
      BY <2>3, <3>1, BlockedReceipt DEF ReadSecond, CapacityInv, BuilderInv, AdmittedFresh
    <3>2. CASE ValidSample(disk)
      <4> DEFINE s == [sample |-> disk, taken |-> real]
      <4>1. /\ readings' = <<readings[1], s>> /\ stage' = "stamp2"
            /\ stage = "sleep" /\ real >= wake
            /\ UNCHANGED <<real, skew, disk, receipt, setback, admitted>>
        BY <2>3, <3>2 DEF ReadSecond
      <4>2. /\ s.sample \in Samples /\ s.taken = real /\ real \in Nat
            /\ wake \in Nat
        BY <3>2, <4>1 DEF ValidSample, CapacityInv, BuilderInv
      <4>3. /\ readings[1] \in Stamped /\ readings[1].taken \in Nat
            /\ Reasons(readings[1]) = {} /\ wake - readings[1].taken >= MinInterval
        BY <4>1 DEF CapacityInv, BuilderInv, Stamped
      <4> HIDE DEF s
      <4>4. readings'[1] = readings[1] /\ readings'[2] = s
        BY <4>1
      <4>5. s.taken - readings[1].taken >= MinInterval
        BY <4>1, <4>2, <4>3
      <4>6. BuilderInv'
        BY <4>1, <4>2, <4>3, <4>4, <4>5 DEF BuilderInv, Reasons
      <4> QED
        BY <4>1, <4>6 DEF CapacityInv, ReceiptInv, AdmittedFresh, Wall
    <3> QED
      BY <3>1, <3>2
  <2>4. CASE StampSecond
    <3> DEFINE f == readings[1]
               r == Reading(readings[2].sample, readings[2].taken)
    <3>1. /\ stage = "stamp2"
          /\ Issue(<<f, r>>, Reasons(r) \cup PairReasons(f, r))
          /\ UNCHANGED <<real, skew, disk, admitted>>
      BY <2>4 DEF StampSecond
    <3>2. /\ f \in Stamped /\ Reasons(f) = {}
          /\ r \in Stamped /\ r.taken - f.taken >= MinInterval
          /\ r.stamped = real /\ r.wall = Wall
      BY <3>1, ReadingFacts DEF CapacityInv, BuilderInv
    <3> HIDE DEF f, r
    <3>3. PairReasons(f, r) = {} <=> /\ r.device = f.device /\ r.total = f.total
                                     /\ r.wall - f.wall >= MinInterval
      BY <3>2 DEF PairReasons, Stamped
    <3>4. SatisfiesPolicy(<<f, r>>) <=> Reasons(r) \cup PairReasons(f, r) = {}
      BY <3>2, <3>3 DEF SatisfiesPolicy
    <3>5. /\ receipt' = [ready |-> Reasons(r) \cup PairReasons(f, r) = {},
                         readings |-> <<f, r>>]
          /\ stage' = "idle" /\ setback' = 0
      BY <3>1 DEF Issue
    <3>6. real - r.stamped - 0 <= Wall - r.wall
      BY <3>2 DEF CapacityInv, Wall
    <3>7. ReceiptInv'
      BY <3>1, <3>2, <3>4, <3>5, <3>6 DEF ReceiptInv, Wall
    <3> QED
      BY <3>1, <3>5, <3>7 DEF CapacityInv, BuilderInv, AdmittedFresh
  <2>5. CASE RequireCurrent
    <3>1. admitted' = [age |-> real - receipt.readings[2].stamped, back |-> setback]
      BY <2>5 DEF RequireCurrent
    <3>2. /\ receipt.ready /\ receipt # None
          /\ Wall - receipt.readings[2].wall <= MaxAge
      BY <2>5 DEF RequireCurrent, Validates, FreshNow, CapacityInv, Wall
    <3>3. /\ receipt.readings[2].stamped \in Nat /\ receipt.readings[2].wall \in Int
          /\ real - receipt.readings[2].stamped - setback
                <= Wall - receipt.readings[2].wall
      BY <3>2 DEF CapacityInv, ReceiptInv, Stamped
    <3>4. AdmittedFresh'
      BY <3>1, <3>2, <3>3 DEF CapacityInv, AdmittedFresh, Wall
    <3> QED
      BY <2>5, <3>4 DEF RequireCurrent, CapacityInv, BuilderInv, ReceiptInv, Wall, builderVars
  <2>6. CASE Tick
    BY <2>6 DEF Tick, builderVars, CapacityInv, BuilderInv, ReceiptInv, AdmittedFresh,
       Wall, Stamped
  <2>7. ASSUME NEW step \in Steps, SetClock(step) PROVE CapacityInv'
    BY <2>7 DEF SetClock, builderVars, CapacityInv, BuilderInv, ReceiptInv, AdmittedFresh,
       Wall, Stamped
  <2>8. CASE DiskChanges
    BY <2>8 DEF DiskChanges, builderVars, CapacityInv, BuilderInv, ReceiptInv,
       AdmittedFresh, Wall
  <2>9. CASE UNCHANGED vars
    BY <2>9 DEF vars, CapacityInv, BuilderInv, ReceiptInv, AdmittedFresh, Wall
  <2> QED
    BY <2>1, <2>2, <2>3, <2>4, <2>5, <2>6, <2>7, <2>8, <2>9 DEF Next
<1> QED
  BY <1>1, <1>2, PTL DEF Spec

\* The builder calls READY exactly the readings the gate accepts.
THEOREM ReadyIffValidHolds == Spec => []ReadyIffValid
<1>1. CapacityInv => ReadyIffValid
  BY DEF CapacityInv, ReceiptInv, ReadyIffValid
<1> QED
  BY <1>1, CapacityInvariant, PTL

\* The readings of a READY receipt are an interval of real time apart.
THEOREM ReadyObservedTwiceHolds == Spec => []ReadyObservedTwice
<1>1. CapacityInv => ReadyObservedTwice
  BY DEF CapacityInv, ReceiptInv, ReadyObservedTwice
<1> QED
  BY <1>1, CapacityInvariant, PTL

\* A command is admitted within the maximum age plus what the clock was set
\* back since the receipt was issued.
THEOREM AdmittedFreshHolds == Spec => []AdmittedFresh
<1>1. CapacityInv => AdmittedFresh
  BY DEF CapacityInv
<1> QED
  BY <1>1, CapacityInvariant, PTL

\* The counters stay within their bounds, and an idle builder remembers
\* nothing: every way a build ends forgets the readings.
BoundsInv ==
    /\ real \in 0..MaxTime /\ steps \in 0..MaxSteps
    /\ stage = "idle" => readings = <<>>

\* The bounds and the forgetting are inductive by themselves.
THEOREM BoundsInvariant == Spec => []BoundsInv
<1>1. Init => BoundsInv
  BY HostCapacityConstants DEF Init, BoundsInv
<1>2. BoundsInv /\ [Next]_vars => BoundsInv'
  BY HostCapacityConstants
     DEF BoundsInv, Next, vars, builderVars, ReadFirst, StampFirst, ReadSecond, StampSecond,
         Issue, RequireCurrent, Tick, DiskChanges, SetClock
<1> QED
  BY <1>1, <1>2, PTL DEF Spec

\* At each stage the builder holds the readings of that stage, and it sleeps or
\* reads again only after a first reading without reasons.
THEOREM TypeCorrect == Spec => []TypeOK
<1>1. CapacityInv /\ BoundsInv => TypeOK
  <2> SUFFICES ASSUME CapacityInv, BoundsInv PROVE TypeOK
    OBVIOUS
  <2>1. stage = "idle" => Len(readings) = 0
    BY DEF BoundsInv
  <2>2. stage \in {"stamp1", "sleep"} => Len(readings) = 1
    BY DEF CapacityInv, BuilderInv
  <2>3. stage = "stamp2" => Len(readings) = 2
    BY DEF CapacityInv, BuilderInv
  <2> QED
    BY <2>1, <2>2, <2>3 DEF CapacityInv, BuilderInv, BoundsInv, TypeOK
<1> QED
  BY CapacityInvariant, BoundsInvariant, <1>1, PTL
=============================================================================
