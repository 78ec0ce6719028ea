-------------------------- MODULE SandboxScanProofs --------------------------
(***************************************************************************)
(* Theorems about SandboxScan for any number of scans, credential names,   *)
(* networks and settle polls.                                              *)
(***************************************************************************)
EXTENDS SandboxScan, TLAPS

\* Scan i has its container, or has had it: docker create has returned its id.
Prepared(i) ==
    \/ worker[i].stage # "none"
    \/ i = scan /\ caller.pc = "config"

\* What has not started yet has left nothing.
FutureUntouched ==
    \A i \in Scans : i > scan =>
        /\ worker[i] = NoWorker
        /\ ~outcome[i].absent
        /\ \A r \in late : r.scan # i

\* A scan that runs has not ended, and while it prepares, its request is not
\* among those the client gave up on.
CallerInv ==
    caller.pc # "idle" =>
        /\ ~outcome[scan].absent
        /\ caller.pc = "prepare" =>
              /\ worker[scan].stage = "none"
              /\ \A r \in late : r.scan # scan

\* A request that was answered is not acted on again.
AnsweredInv == \A i \in Scans : Prepared(i) => \A r \in late : r.scan # i

\* The inductive invariant.
AbsenceInv == TypeOK /\ FutureUntouched /\ CallerInv /\ AnsweredInv /\ AbsenceStays

-----------------------------------------------------------------------------
(* How the threads move.                                                   *)

\* The caller goes on to another place.
LEMMA CallerMoves ==
    ASSUME caller \in Callers, NEW place \in Places
    PROVE  /\ [caller EXCEPT !.pc = place] \in Callers
           /\ [caller EXCEPT !.pc = place].pc = place
BY DEF Callers

\* A scan that ends leaves the caller idle and changes its own outcome only.
LEMMA EndFacts ==
    ASSUME caller \in Callers, outcome \in [Scans -> Outcomes],
           NEW kind \in Kinds, NEW absent \in BOOLEAN, End(kind, absent)
    PROVE  /\ caller' \in Callers
           /\ caller'.pc = "idle"
           /\ outcome' \in [Scans -> Outcomes]
           /\ \A i \in Scans : outcome'[i].absent = IF i = scan THEN absent
                                                   ELSE outcome[i].absent
<1>1. caller' \in Callers /\ caller'.pc = "idle"
  BY SandboxScanConstants DEF End, Idle, Callers, Places, Kinds, Stages
<1>2. [kind |-> kind, readback |-> caller.readback, absent |-> absent] \in Outcomes
  BY DEF Callers, Outcomes
<1> QED
  BY <1>1, <1>2 DEF End

\* A caller that starts a cleanup leaves the outcomes alone.
LEMMA CleanUpFacts ==
    ASSUME caller \in Callers, NEW verdict \in Kinds, NEW polls \in 0..SettlePolls,
           CleanUp(verdict, polls)
    PROVE  /\ caller' \in Callers
           /\ caller'.pc = "list"
           /\ outcome' = outcome
BY DEF CleanUp, Callers, Places

\* A worker that moves changes its own stage and result only.
LEMMA StageFacts ==
    ASSUME worker \in [Scans -> Workers],
           NEW i \in Scans, NEW stage \in Stages,
           NEW result \in {"none", "ok", "failed", "timeout"},
           Stage(i, stage, result)
    PROVE  /\ worker' \in [Scans -> Workers]
           /\ worker'[i].stage = stage /\ worker'[i].result = result
           /\ \A j \in Scans : j # i => worker'[j] = worker[j]
BY DEF Stage, Workers

\* Releasing a worker changes neither stages nor results.
LEMMA ReleaseFacts ==
    ASSUME worker \in [Scans -> Workers], NEW released \in BOOLEAN,
           worker' = [worker EXCEPT ![scan].released = released]
    PROVE  /\ worker' \in [Scans -> Workers]
           /\ \A j \in Scans : /\ worker'[j].stage = worker[j].stage
                               /\ worker'[j].result = worker[j].result
                               /\ worker[j] = NoWorker /\ j # scan => worker'[j] = NoWorker
BY DEF Workers

-----------------------------------------------------------------------------
(* Types.                                                                  *)

\* Every step keeps the variables within their types.
LEMMA TypeStep ==
    ASSUME TypeOK, [Next]_vars
    PROVE  TypeOK'
<1> USE SandboxScanConstants
<1> /\ caller \in Callers /\ worker \in [Scans -> Workers]
    /\ outcome \in [Scans -> Outcomes]
    /\ 0 \in 0..SettlePolls /\ SettlePolls \in 0..SettlePolls
  BY DEF TypeOK
<1>1. ASSUME NEW keys \in SUBSET Keys, NEW mode \in {"none", "dummy"}, StartScan(keys, mode)
      PROVE  TypeOK'
  <2>1. /\ scan' = scan + 1 /\ scan' \in Scans
        /\ asked' \in [Scans -> SUBSET Keys] /\ env' \in SUBSET Keys
    BY <1>1 DEF StartScan, Scans, TypeOK
  <2>2. [Idle EXCEPT !.pc = "prepare"] \in Callers /\ Refused \in Outcomes
    BY DEF Idle, Callers, Places, Kinds, Stages, Refused, Running, Outcomes
  <2>3. caller' \in Callers /\ outcome' \in [Scans -> Outcomes]
    BY <1>1, <2>1, <2>2 DEF StartScan
  <2> QED
    BY <1>1, <2>1, <2>3 DEF StartScan, TypeOK, Scans
<1>2. CASE PrepareRefused
  BY <1>2, EndFacts DEF TypeOK, PrepareRefused, Kinds
<1>3. CASE CreateContainer
  BY <1>3, CallerMoves DEF TypeOK, CreateContainer, Created, Containers, Places, Callers, Scans
<1>4. CASE CreateFails
  BY <1>4, CleanUpFacts DEF TypeOK, CreateFails, Created, Containers, Kinds
<1>5. CASE CreateTimesOut
  BY <1>5, CleanUpFacts DEF TypeOK, CreateTimesOut, Kinds
<1>6. ASSUME NEW ok \in BOOLEAN, BuildConfig(ok)
      PROVE  TypeOK'
  <2>1. CASE ok
    <3>1. /\ caller' = [caller EXCEPT !.pc = "probe"]
          /\ worker' = [worker EXCEPT ![scan].stage = "launch"]
          /\ scan \in Scans
      BY <1>6, <2>1 DEF BuildConfig, TypeOK
    <3>2. /\ worker' \in [Scans -> Workers]
          /\ \A i \in Scans : worker'[i].stage \in {"closing", "done"} =>
                worker'[i].result # "none"
      BY <3>1 DEF Workers, Stages, TypeOK
    <3>3. caller' \in Callers
      BY <3>1, CallerMoves DEF Places
    <3> QED
      BY <1>6, <2>1, <3>1, <3>2, <3>3 DEF BuildConfig, TypeOK
  <2>2. CASE ~ok
    BY <1>6, <2>2, CleanUpFacts DEF BuildConfig, TypeOK, Kinds
  <2> QED
    BY <2>1, <2>2
<1>7. CASE ConnectorUnusable
  BY <1>7, EndFacts DEF TypeOK, ConnectorUnusable, Kinds
<1>8. CASE ProbeAttests
  BY <1>8, ReleaseFacts DEF TypeOK, ProbeAttests, Callers, Places, Workers
<1>9. CASE ProbeFails
  BY <1>9, CleanUpFacts, ReleaseFacts DEF TypeOK, ProbeFails, Kinds
<1>10. CASE JoinReturns
  BY <1>10, CleanUpFacts DEF TypeOK, JoinReturns, VerdictsOf, Kinds, Workers
<1>11. CASE JoinTimesOut
  BY <1>11, CleanUpFacts DEF TypeOK, JoinTimesOut, Kinds
<1>12. CASE ListOwned
  BY <1>12, CallerMoves, EndFacts DEF TypeOK, ListOwned, CleanupFails, Kinds, Places
<1>13. CASE RemoveOwned
  BY <1>13, CallerMoves DEF TypeOK, RemoveOwned, Places
<1>14. CASE ConfirmAbsent
  <2>1. caller.verdict \in Kinds /\ caller.polls \in 0..SettlePolls
    BY DEF Callers
  <2>2. caller.polls > 0 => caller.polls - 1 \in 0..SettlePolls
    BY <2>1
  <2>3. /\ caller' \in Callers /\ outcome' \in [Scans -> Outcomes]
        /\ prepared' \in {prepared, Nobody}
    BY <1>14, <2>1, <2>2, CleanUpFacts, EndFacts
       DEF ConfirmAbsent, CleanupDone, CleanupFails, Kinds
  <2>4. caller.pc # "idle"
    BY <1>14 DEF ConfirmAbsent
  <2> QED
    BY <1>14, <2>3, <2>4 DEF ConfirmAbsent, TypeOK
<1>15. CASE CleanupCommandFails
  BY <1>15, EndFacts DEF TypeOK, CleanupCommandFails, CleanupFails, Kinds
<1>16. CASE Interrupt
  BY <1>16, CleanUpFacts DEF TypeOK, Interrupt, Kinds, Workers
<1>17. CASE InterruptUnguarded
  <2>1. caller' \in Callers /\ caller'.pc = "idle" /\ outcome' \in [Scans -> Outcomes]
    BY <1>17, EndFacts DEF InterruptUnguarded, Kinds
  <2>2. scan \in Scans
    BY <1>17 DEF InterruptUnguarded, TypeOK
  <2> QED
    BY <1>17, <2>1, <2>2 DEF InterruptUnguarded, TypeOK
<1>18. ASSUME NEW i \in Scans, Launch(i)
      PROVE  TypeOK'
  BY <1>18, StageFacts DEF TypeOK, Launch, workerFrame, Stages, Owns, Containers
<1>19. ASSUME NEW i \in Scans, ListCapabilities(i)
      PROVE  TypeOK'
  BY <1>19, StageFacts DEF TypeOK, ListCapabilities, workerFrame, Stages
<1>20. ASSUME NEW i \in Scans, Release(i)
      PROVE  TypeOK'
  BY <1>20, StageFacts DEF TypeOK, Release, workerFrame, Stages
<1>21. ASSUME NEW i \in Scans, Close(i)
      PROVE  TypeOK'
  <2>1. /\ worker[i].stage = "closing" /\ Stage(i, "done", worker[i].result)
        /\ UNCHANGED <<container, workerFrame>>
    BY <1>21 DEF Close
  <2>2. worker[i].result \in {"none", "ok", "failed", "timeout"} /\ worker[i].result # "none"
    BY <2>1 DEF Workers, TypeOK
  <2>3. /\ worker' \in [Scans -> Workers] /\ worker'[i].result = worker[i].result
        /\ \A k \in Scans : k # i => worker'[k] = worker[k]
    BY <2>1, <2>2, StageFacts DEF Stages
  <2> QED
    BY <2>1, <2>2, <2>3 DEF TypeOK, workerFrame
<1>22. ASSUME NEW i \in Scans, NEW result \in {"failed", "timeout"}, ConnectionEnds(i, result)
      PROVE  TypeOK'
  BY <1>22, StageFacts DEF TypeOK, ConnectionEnds, workerFrame, Stages
<1>23. CASE ServerExits
  BY <1>23 DEF TypeOK, ServerExits, Containers
<1>24. ASSUME NEW r \in late, Materialize(r)
      PROVE  TypeOK'
  BY <1>24 DEF TypeOK, Materialize, Containers
<1>25. CASE UNCHANGED vars
  BY <1>25 DEF TypeOK, vars
<1> QED
  BY <1>1, <1>2, <1>3, <1>4, <1>5, <1>6, <1>7, <1>8, <1>9, <1>10, <1>11, <1>12, <1>13, <1>14, <1>15, <1>16, <1>17, <1>18, <1>19, <1>20, <1>21, <1>22, <1>23, <1>24, <1>25 DEF Next, Advance

\* The sandbox, the container, the threads and the outcomes stay within their
\* types, whatever fails or comes late.
THEOREM TypeCorrect == Spec => []TypeOK
<1>1. Init => TypeOK
  BY SandboxScanConstants DEF Init, TypeOK, Kinds, Stages, Places, Containers,
     Callers, Workers, Outcomes, Scans, Idle, NoWorker, Running
<1>2. TypeOK /\ [Next]_vars => TypeOK'
  BY TypeStep
<1> QED
  BY <1>1, <1>2, PTL DEF Spec

-----------------------------------------------------------------------------
(* Verified absence.                                                       *)

\* What a step of a worker does to the invariant: nothing, because it leaves
\* alone which scan has a container.
LEMMA WorkerStep ==
    ASSUME AbsenceInv, NEW i \in Scans, worker[i].stage # "none",
           NEW stage \in Stages \ {"none"},
           NEW result \in {"none", "ok", "failed", "timeout"},
           Stage(i, stage, result), UNCHANGED workerFrame,
           \A j \in Scans : Owns(j)' => Owns(j)
    PROVE  (FutureUntouched /\ CallerInv /\ AnsweredInv /\ AbsenceStays)'
<1>1. /\ worker'[i].stage # "none"
      /\ \A j \in Scans : j # i => worker'[j] = worker[j]
  BY StageFacts DEF AbsenceInv, TypeOK
<1>2. ~(i > scan)
  BY DEF AbsenceInv, FutureUntouched, NoWorker
<1>3. i = scan => caller.pc # "prepare"
  BY DEF AbsenceInv, CallerInv
<1>4. /\ UNCHANGED <<prepared, late, scan, caller, outcome>>
      /\ \A j \in Scans : worker'[j].stage # "none" <=> worker[j].stage # "none"
  BY <1>1 DEF workerFrame
<1>5. FutureUntouched'
  BY <1>1, <1>2, <1>4 DEF AbsenceInv, FutureUntouched
<1>6. CallerInv'
  BY <1>4 DEF AbsenceInv, CallerInv, TypeOK
<1>7. (AnsweredInv /\ AbsenceStays)'
  BY <1>4 DEF AbsenceInv, AnsweredInv, AbsenceStays, Prepared
<1> QED
  BY <1>5, <1>6, <1>7

\* Every step preserves the invariant.
LEMMA AbsenceStep ==
    ASSUME AbsenceInv, [Next]_vars
    PROVE  AbsenceInv'
<1> DEFINE Rest == FutureUntouched /\ CallerInv /\ AnsweredInv /\ AbsenceStays
<1> SUFFICES Rest'
  BY TypeStep DEF AbsenceInv
<1> USE SandboxScanConstants
        DEF FutureUntouched, CallerInv, AnsweredInv, AbsenceStays, Prepared, Owns
<1> /\ TypeOK /\ Rest
    /\ caller \in Callers /\ worker \in [Scans -> Workers]
    /\ outcome \in [Scans -> Outcomes] /\ scan \in Nat
    /\ caller.pc # "idle" => scan \in Scans
    /\ Scans \subseteq Nat
    /\ 0 \in 0..SettlePolls /\ SettlePolls \in 0..SettlePolls
  BY DEF AbsenceInv, TypeOK, Scans
<1>1. ASSUME NEW keys \in SUBSET Keys, NEW mode \in {"none", "dummy"}, StartScan(keys, mode)
      PROVE  Rest'
  <2>1. /\ scan' = scan + 1 /\ scan' \in Scans
        /\ UNCHANGED <<prepared, container, late, worker>>
        /\ caller'.pc \in {"idle", "prepare"}
    BY <1>1 DEF StartScan, Scans, TypeOK, Idle
  <2>2. \A i \in Scans : outcome'[i].absent <=> outcome[i].absent
    <3>1. \/ outcome' = outcome
          \/ outcome' = [outcome EXCEPT ![scan + 1] = Refused]
      BY <1>1 DEF StartScan
    <3>2. ~outcome[scan + 1].absent /\ ~Refused.absent
      BY <2>1 DEF Refused, Running
    <3> QED
      BY <2>1, <3>1, <3>2
  <2>3. \A i \in Scans : i > scan' => i > scan
    BY <2>1
  <2>4. /\ worker[scan'] = NoWorker /\ ~outcome[scan'].absent
        /\ \A r \in late : r.scan # scan'
    BY <2>1
  <2>5. \A i \in Scans : Prepared(i)' => Prepared(i)
    BY <2>1
  <2>6. FutureUntouched'
    BY <2>1, <2>2, <2>3
  <2>7. CallerInv'
    BY <2>1, <2>2, <2>4 DEF NoWorker
  <2> QED
    BY <2>1, <2>2, <2>5, <2>6, <2>7
<1>2. CASE PrepareRefused
  BY <1>2, EndFacts DEF PrepareRefused, Kinds
<1>3. CASE CreateContainer
  BY <1>3, CallerMoves DEF CreateContainer, Created, Places
<1>4. CASE CreateFails
  BY <1>4, CleanUpFacts DEF CreateFails, Created, Kinds
<1>5. CASE CreateTimesOut
  BY <1>5, CleanUpFacts DEF CreateTimesOut, Kinds
<1>6. ASSUME NEW ok \in BOOLEAN, BuildConfig(ok)
      PROVE  Rest'
  <2>1. CASE ok
    <3>1. /\ worker' = [worker EXCEPT ![scan].stage = "launch"]
          /\ caller' = [caller EXCEPT !.pc = "probe"]
          /\ caller.pc = "config" /\ scan \in Scans
          /\ UNCHANGED <<prepared, container, late, scan, outcome>>
      BY <1>6, <2>1 DEF BuildConfig
    <3>2. caller'.pc = "probe"
      BY <3>1, CallerMoves DEF Places
    <3>3. \A i \in Scans : i # scan => worker'[i] = worker[i]
      BY <3>1
    <3>4. \A i \in Scans : Prepared(i)' => Prepared(i)
      BY <3>1, <3>2, <3>3
    <3>5. \A i \in Scans : outcome[i].absent /\ worker'[i].stage # "none" =>
              worker[i].stage # "none"
      BY <3>1, <3>3
    <3> QED
      BY <3>1, <3>2, <3>3, <3>4, <3>5
  <2>2. CASE ~ok
    BY <1>6, <2>2, CleanUpFacts DEF BuildConfig, Kinds
  <2> QED
    BY <2>1, <2>2
<1>7. CASE ConnectorUnusable
  BY <1>7, EndFacts DEF ConnectorUnusable, Kinds
<1>8. CASE ProbeAttests
  BY <1>8, ReleaseFacts DEF ProbeAttests, Callers
<1>9. CASE ProbeFails
  BY <1>9, CleanUpFacts, ReleaseFacts DEF ProbeFails, Kinds
<1>10. CASE JoinReturns
  BY <1>10, CleanUpFacts DEF JoinReturns, VerdictsOf, Kinds, Workers, TypeOK
<1>11. CASE JoinTimesOut
  BY <1>11, CleanUpFacts DEF JoinTimesOut, Kinds
<1>12. CASE ListOwned
  <2>1. /\ caller.pc = "list"
        /\ UNCHANGED <<network, env, container, late, scan, asked, worker>>
    BY <1>12 DEF ListOwned
  <2>2. CASE End("error", FALSE) /\ UNCHANGED prepared
    BY <2>1, <2>2, EndFacts DEF Kinds
  <2>3. CASE /\ \E place \in {"confirm", "remove"} : caller' = [caller EXCEPT !.pc = place]
             /\ UNCHANGED <<prepared, outcome>>
    <3>1. caller'.pc \in {"confirm", "remove"}
      BY <2>3, CallerMoves DEF Places
    <3> QED
      BY <2>1, <2>3, <3>1
  <2> QED
    BY <1>12, <2>2, <2>3 DEF ListOwned, CleanupFails
<1>13. CASE RemoveOwned
  BY <1>13, CallerMoves DEF RemoveOwned, Places
<1>14. CASE ConfirmAbsent
  <2>1. caller.verdict \in Kinds /\ caller.polls \in 0..SettlePolls
    BY DEF Callers
  <2>2. caller.polls > 0 => caller.polls - 1 \in 0..SettlePolls
    BY <2>1
  <2>3. CASE container = Nobody /\ caller.polls > 0
    <3>1. /\ CleanUp(caller.verdict, caller.polls - 1) /\ prepared' = Nobody
          /\ UNCHANGED <<network, env, container, late, scan, asked, worker>>
      BY <1>14, <2>3 DEF ConfirmAbsent, CleanupDone
    <3>2. caller'.pc = "list" /\ outcome' = outcome
      BY <2>1, <2>2, <2>3, <3>1, CleanUpFacts
    <3>3. caller.pc = "confirm"
      BY <1>14 DEF ConfirmAbsent
    <3> QED
      BY <3>1, <3>2, <3>3
  <2>4. CASE container = Nobody /\ ~(caller.polls > 0)
    <3>1. /\ caller'.pc = "idle" /\ prepared' = Nobody /\ container' = Nobody
          /\ UNCHANGED <<late, scan, worker>>
          /\ \A i \in Scans : outcome'[i].absent = IF i = scan THEN TRUE
                                                  ELSE outcome[i].absent
      BY <1>14, <2>1, <2>4, EndFacts DEF ConfirmAbsent, CleanupDone
    <3>2. FutureUntouched'
      <4> SUFFICES ASSUME NEW i \in Scans, i > scan
                   PROVE  /\ worker[i] = NoWorker /\ ~outcome'[i].absent
                          /\ \A r \in late : r.scan # i
        BY <3>1
      <4>1. i # scan
        OBVIOUS
      <4> QED
        BY <3>1, <4>1
    <3>3. CallerInv' /\ AnsweredInv'
      BY <3>1
    <3>4. AbsenceStays'
      BY <3>1
    <3> QED
      BY <3>2, <3>3, <3>4
  <2>5. CASE container # Nobody
    <3>1. /\ End("error", FALSE) /\ caller.pc = "confirm"
          /\ UNCHANGED <<prepared, container, late, scan, worker>>
      BY <1>14, <2>5 DEF ConfirmAbsent, CleanupFails
    <3>2. /\ caller'.pc = "idle"
          /\ \A i \in Scans : outcome'[i].absent = IF i = scan THEN FALSE
                                                  ELSE outcome[i].absent
      BY <3>1, EndFacts DEF Kinds
    <3> QED
      BY <3>1, <3>2
  <2> QED
    BY <2>3, <2>4, <2>5
<1>15. CASE CleanupCommandFails
  BY <1>15, EndFacts DEF CleanupCommandFails, CleanupFails, Kinds
<1>16. CASE Interrupt
  BY <1>16, CleanUpFacts, ReleaseFacts DEF Interrupt, Kinds, Workers
<1>17. CASE InterruptUnguarded
  <2>1. /\ scan \in Scans /\ caller'.pc = "idle"
        /\ UNCHANGED <<prepared, scan, worker>>
        /\ container' \in {container, Nobody}
        /\ \A i \in Scans : outcome'[i].absent = IF i = scan THEN FALSE
                                                ELSE outcome[i].absent
    BY <1>17, EndFacts DEF InterruptUnguarded, Kinds
  <2>2. \/ late' = late
        \/ /\ caller.pc = "prepare"
           /\ late' = late \cup {[scan |-> scan, env |-> env]}
    BY <1>17 DEF InterruptUnguarded
  <2>3. \A i \in Scans : (\A r \in late : r.scan # i) /\ ~(\A r \in late' : r.scan # i) =>
            i = scan /\ worker[i].stage = "none"
    BY <2>2
  <2>4. FutureUntouched'
    <3> SUFFICES ASSUME NEW i \in Scans, i > scan
                 PROVE  /\ worker[i] = NoWorker /\ ~outcome'[i].absent
                        /\ \A r \in late' : r.scan # i
      BY <2>1
    <3>1. i # scan
      OBVIOUS
    <3> QED
      BY <2>1, <2>3, <3>1
  <2>5. CallerInv' /\ AnsweredInv'
    BY <2>1, <2>3
  <2>6. AbsenceStays'
    BY <2>1, <2>3
  <2> QED
    BY <2>4, <2>5, <2>6
<1>18. ASSUME NEW i \in Scans, Launch(i)
      PROVE  Rest'
  <2>1. worker[i].stage = "launch" /\ Stage(i, "session", "none") /\ UNCHANGED workerFrame
    BY <1>18 DEF Launch
  <2>2. container' # Nobody => container # Nobody /\ container'.scan = container.scan
    BY <1>18 DEF Launch, TypeOK, Containers
  <2> QED
    BY <2>1, <2>2, WorkerStep DEF Stages
<1>19. ASSUME NEW i \in Scans, ListCapabilities(i)
      PROVE  Rest'
  BY <1>19, WorkerStep DEF ListCapabilities, Stages
<1>20. ASSUME NEW i \in Scans, Release(i)
      PROVE  Rest'
  BY <1>20, WorkerStep DEF Release, Stages
<1>21. ASSUME NEW i \in Scans, Close(i)
      PROVE  Rest'
  BY <1>21, WorkerStep DEF Close, Stages, Workers
<1>22. ASSUME NEW i \in Scans, NEW result \in {"failed", "timeout"}, ConnectionEnds(i, result)
      PROVE  Rest'
  <2>1. /\ worker[i].stage # "none" /\ Stage(i, "closing", result)
        /\ UNCHANGED <<container, workerFrame>>
    BY <1>22 DEF ConnectionEnds
  <2>2. \A j \in Scans : Owns(j)' => Owns(j)
    BY <2>1
  <2>3. "closing" \in Stages \ {"none"} /\ result \in {"none", "ok", "failed", "timeout"}
    BY DEF Stages
  <2>4. UNCHANGED workerFrame /\ AbsenceInv
    BY <2>1 DEF AbsenceInv
  <2> HIDE DEF FutureUntouched, CallerInv, AnsweredInv, AbsenceStays, Prepared, Owns
  <2> QED
    BY <2>1, <2>2, <2>3, <2>4, WorkerStep
<1>23. CASE ServerExits
  BY <1>23 DEF ServerExits, Containers, TypeOK
<1>24. ASSUME NEW r \in late, Materialize(r)
      PROVE  Rest'
  BY <1>24 DEF Materialize, TypeOK
<1>25. CASE UNCHANGED vars
  BY <1>25 DEF vars
<1> QED
  BY <1>1, <1>2, <1>3, <1>4, <1>5, <1>6, <1>7, <1>8, <1>9, <1>10, <1>11, <1>12, <1>13, <1>14, <1>15, <1>16, <1>17, <1>18, <1>19, <1>20, <1>21, <1>22, <1>23, <1>24, <1>25 DEF Next, Advance

\* AbsenceInv holds in every reachable state.
THEOREM AbsenceInvariant == Spec => []AbsenceInv
<1>1. Init => AbsenceInv
  BY SandboxScanConstants DEF Init, AbsenceInv, TypeOK, Kinds, Stages, Places,
     Containers, Callers, Workers, Outcomes, Scans, Idle, NoWorker, Running,
     FutureUntouched, CallerInv, AnsweredInv, AbsenceStays, Prepared, Owns
<1>2. AbsenceInv /\ [Next]_vars => AbsenceInv'
  BY AbsenceStep
<1> QED
  BY <1>1, <1>2, PTL DEF Spec

\* A container that a cleanup has verified to be absent never comes back,
\* although the worker of its scan may still be running.
THEOREM AbsenceStaysHolds == Spec => []AbsenceStays
<1>1. AbsenceInv => AbsenceStays
  BY DEF AbsenceInv
<1> QED
  BY AbsenceInvariant, <1>1, PTL

-----------------------------------------------------------------------------
(* The name and the credentials.                                           *)

\* Dummy credentials are those of a scan's own source, wherever they wait: in
\* the sandbox, in the container, in a request whose client has gone.
CredentialInv ==
    /\ scan \in Scans => env \subseteq asked[scan]
    /\ env # {} => network = "none"
    /\ container # Nobody => container.scan <= scan
    /\ CredentialsContained
    /\ \A r \in late : /\ r.scan <= scan /\ r.env \subseteq asked[r.scan]
                       /\ r.env # {} => network = "none"

NameInv == TypeOK /\ NameHeld /\ CredentialInv

\* Every step keeps the name with the running scan, and the credentials with
\* the scan that declared them.
LEMMA NameStep ==
    ASSUME NameInv, [Next]_vars
    PROVE  NameInv'
<1> USE SandboxScanConstants DEF NameInv, NameHeld, CredentialInv, CredentialsContained, Owns
<1> TypeOK /\ TypeOK'
  BY TypeStep
<1>1. ASSUME NEW keys \in SUBSET Keys, NEW mode \in {"none", "dummy"}, StartScan(keys, mode)
      PROVE  NameInv'
  <2>1. /\ scan' = scan + 1 /\ scan' \in Scans /\ scan \in Nat
        /\ asked'[scan'] = keys /\ \A i \in Scans : i <= scan => asked'[i] = asked[i]
        /\ env' \in {{}, keys} /\ (env' # {} => network = "none")
        /\ caller'.pc \in {"idle", "prepare"}
        /\ UNCHANGED <<network, prepared, container, late>>
    BY <1>1 DEF StartScan, TypeOK, Scans, Idle
  <2>2. /\ \A r \in late : r.scan \in Scans
        /\ container # Nobody => container.scan \in Scans
    BY DEF TypeOK, Containers
  <2> QED
    BY <2>1, <2>2 DEF Scans
<1>2. CASE PrepareRefused
  BY <1>2, EndFacts DEF PrepareRefused, Kinds, TypeOK
<1>3. CASE CreateContainer
  <2>1. scan \in Scans /\ env \in SUBSET Keys
    BY <1>3 DEF CreateContainer, TypeOK
  <2>2. Created \in Containers /\ Created.scan = scan /\ Created.env = env
    BY <2>1 DEF Created, Containers
  <2>3. Created # Nobody
    BY <2>2
  <2>4. /\ container' = Created /\ prepared' = scan
        /\ UNCHANGED <<network, env, late, scan, asked>>
    BY <1>3 DEF CreateContainer
  <2> QED
    BY <2>1, <2>2, <2>3, <2>4 DEF Scans
<1>4. CASE CreateFails
  BY <1>4, CleanUpFacts DEF CreateFails, Created, TypeOK, Kinds, Scans
<1>5. CASE CreateTimesOut
  BY <1>5, CleanUpFacts DEF CreateTimesOut, TypeOK, Kinds, Scans
<1>6. ASSUME NEW ok \in BOOLEAN, BuildConfig(ok)
      PROVE  NameInv'
  <2>1. caller.pc = "config" /\ caller'.pc \in {"probe", "list"}
    BY <1>6, CleanUpFacts DEF BuildConfig, TypeOK, Kinds, Callers
  <2>2. UNCHANGED <<network, env, prepared, container, late, scan, asked>>
    BY <1>6 DEF BuildConfig
  <2> QED
    BY <2>1, <2>2
<1>7. CASE ConnectorUnusable
  BY <1>7, EndFacts DEF ConnectorUnusable, Kinds, TypeOK
<1>8. CASE ProbeAttests
  BY <1>8 DEF ProbeAttests, TypeOK, Callers
<1>9. CASE ProbeFails \/ JoinReturns \/ JoinTimesOut \/ Interrupt
  <2>1. /\ caller'.pc = "list"
        /\ UNCHANGED <<network, env, prepared, container, late, scan, asked>>
    BY <1>9 DEF ProbeFails, JoinReturns, JoinTimesOut, Interrupt, CleanUp, TypeOK, Callers
  <2> QED
    BY <2>1
<1>10. CASE ListOwned \/ RemoveOwned \/ ConfirmAbsent \/ CleanupCommandFails
  <2>1. /\ container' \in {container, Nobody}
        /\ UNCHANGED <<network, env, late, scan, asked>>
    BY <1>10 DEF ListOwned, RemoveOwned, ConfirmAbsent, CleanupCommandFails
  <2>2. CleanupDone \/ CleanupFails => caller'.pc \in {"idle", "list"}
    <3>1. \A kind, absent : End(kind, absent) => caller'.pc = "idle"
      BY DEF End, Idle
    <3>2. \A verdict, polls : CleanUp(verdict, polls) => caller'.pc = "list"
      BY DEF CleanUp, TypeOK, Callers
    <3> QED
      BY <3>1, <3>2 DEF CleanupDone, CleanupFails
  <2>3. caller'.pc \in {"idle", "list", "remove", "confirm"}
    <3>1. \A place : [caller EXCEPT !.pc = place].pc = place
      BY DEF TypeOK, Callers
    <3> QED
      BY <1>10, <2>2, <3>1 DEF ListOwned, RemoveOwned, ConfirmAbsent, CleanupCommandFails
  <2> QED
    BY <2>1, <2>3
<1>11. CASE InterruptUnguarded
  BY <1>11 DEF InterruptUnguarded, End, Idle, TypeOK, Scans
<1>12. ASSUME NEW i \in Scans, Launch(i)
       PROVE  NameInv'
  <2>1. /\ container \in Containers /\ container' = [container EXCEPT !.state = "running"]
        /\ UNCHANGED workerFrame
    BY <1>12 DEF Launch, TypeOK
  <2>2. container' # Nobody /\ container'.scan = container.scan /\ container'.env = container.env
    BY <2>1 DEF Containers
  <2> QED
    BY <2>1, <2>2 DEF workerFrame
<1>13. ASSUME NEW i \in Scans,
              \/ ListCapabilities(i) \/ Release(i) \/ Close(i)
              \/ \E result \in {"failed", "timeout"} : ConnectionEnds(i, result)
       PROVE  NameInv'
  BY <1>13 DEF ListCapabilities, Release, Close, ConnectionEnds, workerFrame
<1>14. CASE ServerExits
  <2>1. /\ container \in Containers /\ container' = [container EXCEPT !.state = "exited"]
        /\ UNCHANGED <<network, env, prepared, late, scan, asked, caller>>
    BY <1>14 DEF ServerExits, TypeOK
  <2>2. container' # Nobody /\ container'.scan = container.scan /\ container'.env = container.env
    BY <2>1 DEF Containers
  <2> QED
    BY <2>1, <2>2
<1>15. ASSUME NEW r \in late, Materialize(r)
       PROVE  NameInv'
  BY <1>15 DEF Materialize, TypeOK, Containers
<1>16. CASE UNCHANGED vars
  BY <1>16 DEF vars
<1> QED
  BY <1>1, <1>2, <1>3, <1>4, <1>5, <1>6, <1>7, <1>8, <1>9, <1>10, <1>11, <1>12, <1>13, <1>14,
     <1>15, <1>16 DEF Next, Advance

\* In every behaviour the running scan keeps the name of the sandbox, and what is
\* asked of the daemon for a scan has no credentials but those it declared.
THEOREM NameInvariant == Spec => []NameInv
<1>1. Init => NameInv
  BY SandboxScanConstants DEF Init, NameInv, TypeOK, Kinds, Stages, Places,
     Containers, Callers, Workers, Outcomes, Scans, Idle, NoWorker, Running,
     NameHeld, CredentialInv, CredentialsContained
<1>2. NameInv /\ [Next]_vars => NameInv'
  BY NameStep
<1> QED
  BY <1>1, <1>2, PTL DEF Spec

\* From docker create to the cleanup the unique name belongs to the running
\* scan: no request left over from an earlier scan takes it.
THEOREM NameHeldHolds == Spec => []NameHeld
<1>1. NameInv => NameHeld
  BY DEF NameInv
<1> QED
  BY NameInvariant, <1>1, PTL

\* No container ever carries a dummy credential its own source does not
\* declare, or any while the sandbox has a network.
THEOREM CredentialsContainedHolds == Spec => []CredentialsContained
<1>1. NameInv => CredentialsContained
  BY DEF NameInv, CredentialInv
<1> QED
  BY NameInvariant, <1>1, PTL

-----------------------------------------------------------------------------
(* The attestation.                                                        *)

\* The worker has started the container.
Opened == {"session", "gated", "closing", "done"}

\* A worker that has not been released cannot have ended well, so a good
\* connection that is attested is attested before it ends.
Attested ==
    /\ caller.pc = "idle" => caller = Idle
    /\ caller.pc \in {"prepare", "config"} => worker[scan] = NoWorker
    /\ caller.pc = "probe" => ~worker[scan].released
    /\ caller.pc \in {"prepare", "config", "probe"} => caller.readback = "none"
    /\ caller.pc = "join" => caller.readback \in Opened
    /\ \A i \in Scans : ~worker[i].released => worker[i].result # "ok"
    /\ container # Nobody /\ container.state = "running" =>
          worker[container.scan].stage \in Opened
    /\ caller.readback \in {"closing", "done"} =>
          /\ worker[scan].stage \in {"closing", "done"}
          /\ worker[scan].result \in {"failed", "timeout"}
    /\ caller.verdict = "result" => caller.readback \in {"session", "gated"}
    /\ ResultAttested

AttestInv == NameInv /\ AbsenceInv /\ Attested

\* The caller ends the scan with its verdict, or with none.
LEMMA AttestedEnd ==
    ASSUME AttestInv, NEW kind \in {"error", "interrupted", caller.verdict},
           NEW absent \in BOOLEAN, End(kind, absent), scan \in Scans,
           worker' = worker, scan' = scan,
           container' = container \/ container' = Nobody
    PROVE  Attested'
<1>1. /\ caller' = Idle
      /\ outcome' = [outcome EXCEPT ![scan] =
                       [kind |-> kind, readback |-> caller.readback, absent |-> absent]]
  BY DEF End
<1>2. /\ caller'.pc = "idle" /\ caller'.readback = "none" /\ caller'.verdict = "none"
  BY <1>1 DEF Idle
<1>3. ResultAttested'
  <2>1. kind = "result" => caller.readback \in {"session", "gated"}
    BY DEF AttestInv, Attested
  <2>2. outcome \in [Scans -> Outcomes]
    BY DEF AttestInv, AbsenceInv, TypeOK
  <2>3. \A i \in Scans : i # scan => outcome'[i] = outcome[i]
    BY <1>1, <2>2
  <2>4. outcome'[scan].kind = kind /\ outcome'[scan].readback = caller.readback
    BY <1>1, <2>2
  <2> QED
    BY <2>1, <2>3, <2>4 DEF AttestInv, Attested, ResultAttested
<1> QED
  BY <1>1, <1>2, <1>3 DEF AttestInv, Attested

\* The caller starts or continues the cleanup; a worker may be released.
LEMMA AttestedClean ==
    ASSUME AttestInv, caller' \in Callers,
           caller'.pc \in {"list", "remove", "confirm"},
           caller'.readback = caller.readback,
           caller'.verdict = "result" => caller.readback \in {"session", "gated"},
           outcome' = outcome, scan' = scan,
           \A i \in Scans : /\ worker'[i].stage = worker[i].stage
                            /\ worker'[i].result = worker[i].result
                            /\ worker[i].released => worker'[i].released,
           container' # Nobody /\ container'.state = "running" => container' = container
    PROVE  Attested'
<1>1. scan \in 0..MaxScans /\ (container # Nobody => container.scan \in Scans)
  BY DEF AttestInv, AbsenceInv, TypeOK, Containers
<1>2. caller.readback \in {"closing", "done"} => scan \in Scans
  BY DEF AttestInv, AbsenceInv, Attested, TypeOK, Idle
<1> QED
  BY <1>1, <1>2 DEF AttestInv, Attested, ResultAttested

\* A worker moves.
LEMMA AttestedWork ==
    ASSUME AttestInv, NEW i \in Scans,
           NEW stage \in Stages, NEW result \in {"none", "ok", "failed", "timeout"},
           Stage(i, stage, result), UNCHANGED <<caller, outcome, scan>>,
           worker[i].stage # "none",
           stage \in Opened,
           result = "ok" => \/ worker[i].stage = "gated" /\ worker[i].released
                            \/ worker[i].stage = "closing" /\ worker[i].result = "ok",
           worker[i].stage \in {"closing", "done"} =>
              /\ stage \in {"closing", "done"}
              /\ worker[i].result \in {"failed", "timeout"} => result \in {"failed", "timeout"},
           \/ container' = container
           \/ container' # Nobody /\ container'.scan = i
    PROVE  Attested'
<1>1. /\ worker \in [Scans -> Workers] /\ scan \in 0..MaxScans
      /\ container # Nobody => container.scan \in Scans
  BY DEF AttestInv, AbsenceInv, TypeOK, Containers
<1>2. /\ worker'[i].stage = stage /\ worker'[i].result = result
      /\ worker'[i].released = worker[i].released
      /\ \A j \in Scans : j # i => worker'[j] = worker[j]
  BY <1>1 DEF Stage, Workers
<1>3. caller.pc \in {"prepare", "config"} => scan # i
  BY DEF AttestInv, Attested, NoWorker
<1>4. /\ caller.pc # "idle" => scan \in Scans
      /\ caller.readback \in {"closing", "done"} => scan \in Scans
  BY DEF AttestInv, AbsenceInv, Attested, TypeOK, Idle
<1>5. \A j \in Scans : ~worker'[j].released => worker'[j].result # "ok"
  BY <1>1, <1>2 DEF AttestInv, Attested
<1>6. container' # Nobody /\ container'.state = "running" =>
          worker'[container'.scan].stage \in Opened
  BY <1>1, <1>2 DEF AttestInv, Attested
<1>7. caller.readback \in {"closing", "done"} =>
          /\ worker'[scan].stage \in {"closing", "done"}
          /\ worker'[scan].result \in {"failed", "timeout"}
  BY <1>1, <1>2, <1>4 DEF AttestInv, Attested
<1>8. /\ caller.pc \in {"prepare", "config"} => worker'[scan] = NoWorker
      /\ caller.pc = "probe" => ~worker'[scan].released
  BY <1>1, <1>2, <1>3, <1>4 DEF AttestInv, Attested
<1> QED
  BY <1>5, <1>6, <1>7, <1>8 DEF AttestInv, Attested, ResultAttested

\* Every step preserves AttestInv.
LEMMA AttestStep ==
    ASSUME AttestInv, [Next]_vars
    PROVE  AttestInv'
<1> USE SandboxScanConstants
<1> /\ TypeOK /\ NameHeld /\ AbsenceInv /\ AbsenceInv' /\ NameInv' /\ TypeOK'
  BY AbsenceStep, NameStep DEF AttestInv, AbsenceInv, NameInv
<1> SUFFICES Attested'
  BY DEF AttestInv
<1>0. /\ caller \in Callers /\ caller' \in Callers
      /\ caller.pc # "idle" => scan \in Scans
      /\ worker \in [Scans -> Workers] /\ outcome \in [Scans -> Outcomes]
  BY DEF TypeOK
<1>1. ASSUME NEW keys \in SUBSET Keys, NEW mode \in {"none", "dummy"}, StartScan(keys, mode)
      PROVE  Attested'
  <2>1. /\ scan' = scan + 1 /\ scan' \in Scans /\ scan \in Nat
        /\ caller.pc = "idle" /\ caller'.readback = "none" /\ caller'.verdict = "none"
        /\ caller' = Idle \/ caller'.pc = "prepare"
        /\ outcome' = outcome \/ outcome' = [outcome EXCEPT ![scan'] = Refused]
        /\ UNCHANGED <<container, worker>>
    BY <1>1 DEF StartScan, TypeOK, Scans, Idle, AttestInv, Attested
  <2>2. worker[scan'] = NoWorker
    BY <2>1 DEF AbsenceInv, FutureUntouched
  <2>3. ResultAttested'
    BY <1>0, <2>1 DEF AttestInv, Attested, ResultAttested, Refused, Running
  <2> QED
    BY <2>1, <2>2, <2>3 DEF AttestInv, Attested, Idle
<1>2. CASE PrepareRefused
  BY <1>0, <1>2, AttestedEnd DEF PrepareRefused
<1>3. CASE CreateContainer
  <2>1. /\ caller.pc = "prepare" /\ caller' = [caller EXCEPT !.pc = "config"]
        /\ container' = Created /\ UNCHANGED <<scan, worker, outcome>>
    BY <1>3 DEF CreateContainer
  <2>2. Created.state = "created"
    BY DEF Created
  <2>3. caller'.pc = "config" /\ caller'.readback = caller.readback
        /\ caller'.verdict = caller.verdict
    BY <1>0, <2>1 DEF Callers
  <2> QED
    BY <2>1, <2>2, <2>3 DEF AttestInv, Attested, ResultAttested
<1>4. CASE CreateFails
  <2>1. /\ CleanUp("error", 0) /\ UNCHANGED <<scan, worker>>
        /\ container' = container \/ container' = Created
    BY <1>4 DEF CreateFails
  <2>2. Created.state = "created"
    BY DEF Created
  <2>3. /\ caller'.pc = "list" /\ caller'.readback = caller.readback
        /\ caller'.verdict = "error" /\ outcome' = outcome
    BY <1>0, <2>1 DEF CleanUp, Callers
  <2> QED
    BY <1>0, <2>1, <2>2, <2>3, AttestedClean
<1>5. CASE CreateTimesOut
  <2>1. CleanUp("error", SettlePolls) /\ UNCHANGED <<container, scan, worker>>
    BY <1>5 DEF CreateTimesOut
  <2>2. /\ caller'.pc = "list" /\ caller'.readback = caller.readback
        /\ caller'.verdict = "error" /\ outcome' = outcome
    BY <1>0, <2>1 DEF CleanUp, Callers
  <2> QED
    BY <1>0, <2>1, <2>2, AttestedClean
<1>6. ASSUME NEW ok \in BOOLEAN, BuildConfig(ok)
      PROVE  Attested'
  <2>1. CASE ok
    <3>1. /\ caller.pc = "config" /\ caller' = [caller EXCEPT !.pc = "probe"]
          /\ worker' = [worker EXCEPT ![scan].stage = "launch"]
          /\ UNCHANGED <<container, scan, outcome>>
      BY <1>6, <2>1 DEF BuildConfig
    <3>2. /\ caller'.pc = "probe" /\ caller'.readback = caller.readback
          /\ caller'.verdict = caller.verdict
      BY <1>0, <3>1 DEF Callers
    <3>3. /\ worker[scan] = NoWorker /\ scan \in Scans
          /\ worker'[scan].released = FALSE /\ worker'[scan].result = "none"
          /\ \A i \in Scans : i # scan => worker'[i] = worker[i]
      BY <1>0, <3>1 DEF AttestInv, Attested, NoWorker
    <3>4. container # Nobody /\ container.state = "running" => container.scan # scan
      BY <3>3 DEF AttestInv, Attested, Opened, NoWorker
    <3>5. container # Nobody => container.scan \in Scans
      BY DEF TypeOK, Containers
    <3> QED
      BY <3>1, <3>2, <3>3, <3>4, <3>5 DEF AttestInv, Attested, ResultAttested
  <2>2. CASE ~ok
    <3>1. CleanUp("error", 0) /\ UNCHANGED <<container, scan, worker>>
      BY <1>6, <2>2 DEF BuildConfig
    <3>2. /\ caller'.pc = "list" /\ caller'.readback = caller.readback
          /\ caller'.verdict = "error" /\ outcome' = outcome
      BY <1>0, <3>1 DEF CleanUp, Callers
    <3> QED
      BY <1>0, <3>1, <3>2, AttestedClean
  <2> QED
    BY <2>1, <2>2
<1>7. CASE ConnectorUnusable
  BY <1>0, <1>7, AttestedEnd DEF ConnectorUnusable
<1>8. CASE ProbeAttests
  <2>1. /\ caller.pc = "probe" /\ scan \in Scans
        /\ container # Nobody /\ container.scan = prepared /\ container.state = "running"
        /\ caller' = [caller EXCEPT !.pc = "join", !.readback = worker[scan].stage]
        /\ worker' = [worker EXCEPT ![scan].released = TRUE]
        /\ UNCHANGED <<container, scan, outcome>>
    BY <1>0, <1>8 DEF ProbeAttests, ObservedRunning, Owns
  <2>2. prepared = scan
    BY <2>1 DEF NameHeld
  <2>3. /\ caller'.pc = "join" /\ caller'.readback = worker[scan].stage
        /\ caller'.verdict = caller.verdict
    BY <1>0, <2>1 DEF Callers
  <2>4. /\ worker[scan].stage \in Opened /\ ~worker[scan].released
        /\ worker[scan].result # "ok" /\ caller.readback = "none"
    BY <2>1, <2>2 DEF AttestInv, Attested
  <2>5. worker[scan].stage \in {"closing", "done"} =>
            worker[scan].result \in {"failed", "timeout"}
    BY <1>0, <2>1, <2>4 DEF TypeOK, Workers
  <2>6. /\ \A i \in Scans : /\ worker'[i].stage = worker[i].stage
                             /\ worker'[i].result = worker[i].result
                             /\ worker[i].released => worker'[i].released
    BY <1>0, <2>1 DEF Workers
  <2>7. container # Nobody => container.scan \in Scans
    BY DEF TypeOK, Containers
  <2>8. caller.verdict # "result"
    BY <2>4 DEF AttestInv, Attested
  <2> QED
    BY <2>1, <2>3, <2>4, <2>5, <2>6, <2>7, <2>8 DEF AttestInv, Attested, ResultAttested
<1>9. CASE ProbeFails \/ JoinReturns \/ JoinTimesOut \/ Interrupt
  <2>1. /\ scan' = scan /\ container' = container /\ scan \in Scans
        /\ worker' = worker \/ \E released \in BOOLEAN :
              /\ worker[scan].released => released
              /\ worker' = [worker EXCEPT ![scan].released = released]
    <3>1. scan \in Scans
      BY <1>0, <1>9 DEF ProbeFails, JoinReturns, JoinTimesOut, Interrupt
    <3>2. worker[scan].released \in BOOLEAN
      BY <1>0, <3>1 DEF Workers
    <3> QED
      BY <1>9, <3>1, <3>2 DEF ProbeFails, JoinReturns, JoinTimesOut, Interrupt
  <2>2. \A i \in Scans : /\ worker'[i].stage = worker[i].stage
                         /\ worker'[i].result = worker[i].result
                         /\ worker[i].released => worker'[i].released
    BY <1>0, <2>1 DEF Workers
  <2>3. PICK verdict : /\ CleanUp(verdict, 0)
                       /\ verdict = "result" => caller.readback \in {"session", "gated"}
    <3>1. CASE JoinReturns
      <4>1. PICK verdict \in VerdictsOf(worker[scan].result) : CleanUp(verdict, 0)
        BY <3>1 DEF JoinReturns
      <4>2. caller.readback \in Opened
        BY <3>1 DEF JoinReturns, AttestInv, Attested
      <4>3. verdict = "result" => worker[scan].result \notin {"failed", "timeout"}
        BY <4>1 DEF VerdictsOf
      <4> QED
        BY <4>1, <4>2, <4>3 DEF AttestInv, Attested, Opened
    <3>2. CASE ProbeFails \/ JoinTimesOut \/ Interrupt
      BY <3>2 DEF ProbeFails, JoinTimesOut, Interrupt
    <3> QED
      BY <1>9, <3>1, <3>2
  <2>4. /\ caller'.pc = "list" /\ caller'.readback = caller.readback
        /\ caller'.verdict = verdict /\ outcome' = outcome
    BY <1>0, <2>3 DEF CleanUp, Callers
  <2> QED
    BY <1>0, <2>1, <2>2, <2>3, <2>4, AttestedClean
<1>10. CASE ListOwned \/ RemoveOwned \/ ConfirmAbsent \/ CleanupCommandFails
  <2>1. /\ UNCHANGED <<scan, worker>> /\ scan \in Scans
        /\ container' = container \/ container' = Nobody
    BY <1>0, <1>10 DEF ListOwned, RemoveOwned, ConfirmAbsent, CleanupCommandFails
  <2>2. ASSUME NEW kind \in {"error", caller.verdict}, NEW absent \in BOOLEAN,
               End(kind, absent)
        PROVE  Attested'
    BY <2>1, <2>2, AttestedEnd
  <2>3. ASSUME NEW polls, CleanUp(caller.verdict, polls)
        PROVE  Attested'
    <3>1. /\ caller'.pc = "list" /\ caller'.readback = caller.readback
          /\ caller'.verdict = caller.verdict /\ outcome' = outcome
      BY <1>0, <2>3 DEF CleanUp, Callers
    <3> QED
      BY <1>0, <2>1, <3>1, AttestedClean DEF AttestInv, Attested
  <2>4. ASSUME NEW place \in {"confirm", "remove"},
               caller' = [caller EXCEPT !.pc = place], outcome' = outcome
        PROVE  Attested'
    <3>1. /\ caller'.pc = place /\ caller'.readback = caller.readback
          /\ caller'.verdict = caller.verdict
      BY <1>0, <2>4 DEF Callers
    <3> QED
      BY <1>0, <2>1, <2>4, <3>1, AttestedClean DEF AttestInv, Attested
  <2>5. CASE CleanupDone \/ CleanupFails
    BY <2>2, <2>3, <2>5 DEF CleanupDone, CleanupFails
  <2> QED
    BY <1>10, <2>4, <2>5 DEF ListOwned, RemoveOwned, ConfirmAbsent, CleanupCommandFails
<1>11. CASE InterruptUnguarded
  <2>1. /\ End("interrupted", FALSE) /\ UNCHANGED <<scan, worker>> /\ scan \in Scans
        /\ container' = container \/ container' = Nobody
    BY <1>0, <1>11 DEF InterruptUnguarded
  <2> QED
    BY <2>1, AttestedEnd
<1>12. ASSUME NEW i \in Scans, Launch(i)
       PROVE  Attested'
  <2>1. /\ worker[i].stage = "launch" /\ Stage(i, "session", "none")
        /\ UNCHANGED <<caller, outcome, scan>>
        /\ container \in Containers /\ container.scan = i
        /\ container' = [container EXCEPT !.state = "running"]
    BY <1>12 DEF Launch, workerFrame, Owns, TypeOK
  <2>2. container' # Nobody /\ container'.scan = i
    BY <2>1 DEF Containers
  <2> QED
    BY <2>1, <2>2, AttestedWork DEF Stages, Opened
<1>13. ASSUME NEW i \in Scans,
              \/ ListCapabilities(i) \/ Release(i) \/ Close(i)
              \/ \E result \in {"failed", "timeout"} : ConnectionEnds(i, result)
       PROVE  Attested'
  <2>1. UNCHANGED <<container, caller, outcome, scan>>
    BY <1>13 DEF ListCapabilities, Release, Close, ConnectionEnds, workerFrame
  <2>2. worker[i].result \in {"none", "ok", "failed", "timeout"}
    BY <1>0 DEF Workers
  <2>3. CASE ListCapabilities(i) \/ Release(i)
    BY <2>1, <2>3, AttestedWork DEF ListCapabilities, Release, Stages, Opened
  <2>4. CASE Close(i)
    BY <2>1, <2>2, <2>4, AttestedWork DEF Close, Stages, Opened
  <2>5. ASSUME NEW result \in {"failed", "timeout"}, ConnectionEnds(i, result)
        PROVE  Attested'
    BY <2>1, <2>5, AttestedWork DEF ConnectionEnds, Stages, Opened
  <2> QED
    BY <1>13, <2>3, <2>4, <2>5
<1>14. CASE ServerExits
  <2>1. /\ container \in Containers /\ container' = [container EXCEPT !.state = "exited"]
        /\ UNCHANGED <<scan, caller, worker, outcome>>
    BY <1>14 DEF ServerExits, TypeOK
  <2>2. container'.state = "exited"
    BY <2>1 DEF Containers
  <2> QED
    BY <2>1, <2>2 DEF AttestInv, Attested, ResultAttested
<1>15. ASSUME NEW r \in late, Materialize(r)
       PROVE  Attested'
  BY <1>15 DEF Materialize, AttestInv, Attested, ResultAttested
<1>16. CASE UNCHANGED vars
  BY <1>16 DEF vars, AttestInv, Attested, ResultAttested
<1> QED
  BY <1>1, <1>2, <1>3, <1>4, <1>5, <1>6, <1>7, <1>8, <1>9, <1>10, <1>11, <1>12, <1>13, <1>14,
     <1>15, <1>16 DEF Next, Advance

\* Who is released when, for every interleaving of caller, worker and daemon.
THEOREM AttestInvariant == Spec => []AttestInv
<1>1. Init => Attested
  BY SandboxScanConstants DEF Init, Attested, Scans, Idle, NoWorker, Running, ResultAttested
<1>2. AttestInv /\ [Next]_vars => AttestInv'
  BY AttestStep
<1>3. Init /\ NameInv /\ AbsenceInv => AttestInv
  BY <1>1 DEF AttestInv
<1> QED
  BY <1>2, <1>3, NameInvariant, AbsenceInvariant, PTL DEF Spec

\* A scan reports a result only after an attestation of the running container
\* while the session that listed the capabilities was still open.
THEOREM ResultAttestedHolds == Spec => []ResultAttested
<1>1. AttestInv => ResultAttested
  BY DEF AttestInv, Attested
<1> QED
  BY AttestInvariant, <1>1, PTL
=============================================================================
