----------------------------- MODULE SandboxScan -----------------------------
(***************************************************************************)
(* One sandboxed scan after another: src/mcp_trust/engine/mcpaudit.py and  *)
(* engine/sandbox.py.  The caller creates the container of a scan, starts  *)
(* a worker thread that launches it and talks to the server, attests the   *)
(* live container meanwhile, waits with a deadline, and removes the        *)
(* container.  The worker may outlive its scan, the Docker daemon may act  *)
(* on a request long after the client gave up, and the same DockerSandbox  *)
(* object may serve the next scan.                                         *)
(*                                                                         *)
(* The daemon keeps at most one container of the sandbox's unique name.    *)
(* Each scan sends one create request, so the scan also names the          *)
(* container, and stands for its immutable id.                             *)
(***************************************************************************)
EXTENDS Naturals, FiniteSets

CONSTANTS
    Keys,          \* environment names that sources declare (env_keys)
    Networks,      \* MCP_TRUST_SANDBOX_NETWORK: "none" or a reachable one
    MaxScans,      \* bound on the scans that use the sandbox
    SettlePolls,   \* _DOCKER_CREATE_SETTLE_POLLS
    Nobody         \* no container, no prepared container

Scans == 1..MaxScans

Containers ==
    [scan : Scans, env : SUBSET Keys, state : {"created", "running", "exited"}]

ASSUME SandboxScanConstants ==
    /\ MaxScans \in Nat /\ SettlePolls \in Nat
    /\ Nobody \notin Nat /\ Nobody \notin Containers

VARIABLES
    network,    \* network of the sandbox
    env,        \* its dummy credentials, by name
    prepared,   \* _container_id
    container,  \* the daemon's container [scan, env, state], or Nobody
    late,       \* create requests the client gave up on, [scan, env]
    scan,       \* the scan that runs or ran last
    asked,      \* asked[i]: env_keys of the source of scan i
    caller,     \* the calling thread
    worker,     \* worker[i]: the connector thread of scan i
    outcome     \* outcome[i]: how scan i ended, when it was attested, and
                \* whether its container was verified to be absent

vars == <<network, env, prepared, container, late, scan, asked, caller, worker,
          outcome>>

Idle == [pc |-> "idle", polls |-> 0, verdict |-> "none", readback |-> "none"]
NoWorker == [stage |-> "none", released |-> FALSE, result |-> "none"]
Running == [kind |-> "none", readback |-> "none", absent |-> FALSE]
Refused == [Running EXCEPT !.kind = "error"]

Owns(i) == container # Nobody /\ container.scan = i

\* The scan ends: it returns a result or raises; absent when a cleanup has
\* verified that its container is gone.
End(kind, absent) ==
    /\ caller' = Idle
    /\ outcome' = [outcome EXCEPT ![scan] =
                     [kind |-> kind, readback |-> caller.readback,
                      absent |-> absent]]

\* On to cleanup_owned_container, and then to the verdict.
CleanUp(verdict, polls) ==
    /\ caller' = [caller EXCEPT !.pc = "list", !.verdict = verdict, !.polls = polls]
    /\ UNCHANGED outcome

-----------------------------------------------------------------------------
(* MCPAuditEngine.scan up to the connector.                                *)

\* Mutant: the credentials of the scan before stay in the sandbox.
StartScanWithoutReset(keys, mode) ==
    /\ caller.pc = "idle" /\ scan < MaxScans
    /\ mode # "dummy" \/ keys = {} \/ network = "none"
    /\ scan' = scan + 1
    /\ asked' = [asked EXCEPT ![scan + 1] = keys]
    /\ env' = IF mode = "dummy" /\ keys # {} THEN keys ELSE env
    /\ caller' = [Idle EXCEPT !.pc = "prepare"]
    /\ UNCHANGED <<network, prepared, container, late, worker, outcome>>

\* _apply_dummy_credentials: reset first; dummy credentials for the source's
\* keys are refused unless the network is off.
StartScan(keys, mode) ==
    LET dummy == mode = "dummy" /\ keys # {}
        refused == dummy /\ network # "none"
    IN  /\ caller.pc = "idle" /\ scan < MaxScans
        /\ scan' = scan + 1
        /\ asked' = [asked EXCEPT ![scan + 1] = keys]
        /\ env' = IF dummy /\ ~refused THEN keys ELSE {}
        /\ IF refused
           THEN /\ outcome' = [outcome EXCEPT ![scan + 1] = Refused]
                /\ UNCHANGED caller
           ELSE /\ caller' = [Idle EXCEPT !.pc = "prepare"]
                /\ UNCHANGED outcome
        /\ UNCHANGED <<network, prepared, container, late, worker>>

\* prepare_owned_container refuses a sandbox whose last cleanup failed.
PrepareRefused ==
    /\ caller.pc = "prepare"
    /\ prepared # Nobody
    /\ End("error", FALSE)
    /\ UNCHANGED <<network, env, prepared, container, late, scan, asked, worker>>

Created == [scan |-> scan, env |-> env, state |-> "created"]

\* The daemon refuses a second container of the name.
CreateContainer ==
    /\ caller.pc = "prepare"
    /\ prepared = Nobody
    /\ container = Nobody
    /\ container' = Created
    /\ prepared' = scan
    /\ caller' = [caller EXCEPT !.pc = "config"]
    /\ UNCHANGED <<network, env, late, scan, asked, worker, outcome>>

\* The client fails or prints no id; a container may exist nevertheless.
CreateFails ==
    /\ caller.pc = "prepare"
    /\ prepared = Nobody
    /\ \/ UNCHANGED container
       \/ container = Nobody /\ container' = Created
    /\ CleanUp("error", 0)
    /\ UNCHANGED <<network, env, prepared, late, scan, asked, worker>>

\* The client times out: the daemon may still create the container.  A series
\* of cleanups watches for it, and a last one decides.
CreateTimesOut ==
    /\ caller.pc = "prepare"
    /\ prepared = Nobody
    /\ late' = late \cup {[scan |-> scan, env |-> env]}
    /\ CleanUp("error", SettlePolls)
    /\ UNCHANGED <<network, env, prepared, container, scan, asked, worker>>

\* _build_config, and the start of the worker thread.  A failure of
\* _build_config is cleaned up.
BuildConfig(ok) ==
    /\ caller.pc = "config"
    /\ IF ok
       THEN /\ caller' = [caller EXCEPT !.pc = "probe"]
            /\ worker' = [worker EXCEPT ![scan].stage = "launch"]
            /\ UNCHANGED outcome
       ELSE CleanUp("error", 0) /\ UNCHANGED worker
    /\ UNCHANGED <<network, env, prepared, container, late, scan, asked>>

\* The connector cannot be built or gated (no _list_capabilities hook): the
\* scan raises and the prepared container stays.
ConnectorUnusable ==
    /\ caller.pc = "config"
    /\ End("error", FALSE)
    /\ UNCHANGED <<network, env, prepared, container, late, scan, asked, worker>>

-----------------------------------------------------------------------------
(* _run_sync and _connect_with_lifecycle.                                  *)

\* The exact container, seen running within the polls.
ObservedRunning == Owns(prepared) /\ container.state = "running"

\* The controls: Docker's configuration and the attestor inside the container
\* agree with the sandbox.  Those that can differ here are the environment and
\* the network.
ControlsVerified == container.env = env /\ network = "none"

\* capture_runtime_readback.
ProbeAttests ==
    /\ caller.pc = "probe"
    /\ ObservedRunning
    /\ ControlsVerified
    /\ caller' = [caller EXCEPT !.pc = "join", !.readback = worker[scan].stage]
    /\ worker' = [worker EXCEPT ![scan].released = TRUE]
    /\ UNCHANGED <<network, env, prepared, container, late, scan, asked, outcome>>

\* A control fails, a command fails, or the container is never seen running
\* within the deadline.  The worker is released and not waited for.
ProbeFails ==
    /\ caller.pc = "probe"
    /\ CleanUp("error", 0)
    /\ worker' = [worker EXCEPT ![scan].released = TRUE]
    /\ UNCHANGED <<network, env, prepared, container, late, scan, asked>>

\* What the caller makes of the connection of the worker.  A good one may
\* still fail in the analysis that follows.
VerdictsOf(result) ==
    CASE result = "ok" -> {"result", "error"}
      [] result = "timeout" -> {"timeout"}
      [] result = "failed" -> {"error"}

JoinReturns ==
    /\ caller.pc = "join"
    /\ worker[scan].stage = "done"
    /\ \E verdict \in VerdictsOf(worker[scan].result) : CleanUp(verdict, 0)
    /\ UNCHANGED <<network, env, prepared, container, late, scan, asked, worker>>

\* Mutant: the caller waits for the worker without a deadline of its own.
JoinWithoutDeadline ==
    /\ caller.pc = "join"
    /\ worker[scan].stage = "done"
    /\ CleanUp("timeout", 0)
    /\ UNCHANGED <<network, env, prepared, container, late, scan, asked, worker>>

\* The outer deadline passes while the thread is alive.
JoinTimesOut ==
    /\ caller.pc = "join"
    /\ worker[scan].stage # "done"
    /\ CleanUp("timeout", 0)
    /\ UNCHANGED <<network, env, prepared, container, late, scan, asked, worker>>

-----------------------------------------------------------------------------
(* cleanup_owned_container.                                                *)

\* A cleanup that cannot prove the container absent makes every caller raise,
\* and leaves _container_id as it is.
CleanupFails == End("error", FALSE) /\ UNCHANGED prepared

\* Mutant: one cleanup too many is counted.
CleanupDoneOnceMore ==
    /\ IF caller.polls >= 0
       THEN CleanUp(caller.verdict, caller.polls - 1)
       ELSE End(caller.verdict, TRUE)
    /\ prepared' = Nobody

CleanupDone ==
    /\ IF caller.polls > 0
       THEN CleanUp(caller.verdict, caller.polls - 1)
       ELSE End(caller.verdict, TRUE)
    /\ prepared' = Nobody

\* _owned_container_ids.
ListOwned ==
    /\ caller.pc = "list"
    /\ IF container # Nobody /\ prepared # Nobody /\ container.scan # prepared
       THEN CleanupFails
       ELSE /\ caller' = [caller EXCEPT
                            !.pc = IF container = Nobody THEN "confirm" ELSE "remove"]
            /\ UNCHANGED <<prepared, outcome>>
    /\ UNCHANGED <<network, env, container, late, scan, asked, worker>>

\* The inspection of the identity and the forced removal by id.
RemoveOwned ==
    /\ caller.pc = "remove"
    /\ container' = Nobody
    /\ caller' = [caller EXCEPT !.pc = "confirm"]
    /\ UNCHANGED <<network, env, prepared, late, scan, asked, worker, outcome>>

\* The second listing must be empty.
ConfirmAbsent ==
    /\ caller.pc = "confirm"
    /\ IF container = Nobody THEN CleanupDone ELSE CleanupFails
    /\ UNCHANGED <<network, env, container, late, scan, asked, worker>>

\* A Docker command of the cleanup fails or times out, after its effect or
\* without it.
CleanupCommandFails ==
    /\ caller.pc \in {"list", "remove", "confirm"}
    /\ \/ UNCHANGED container
       \/ caller.pc = "remove" /\ container' = Nobody
    /\ CleanupFails
    /\ UNCHANGED <<network, env, late, scan, asked, worker>>

\* KeyboardInterrupt or SystemExit.  While the configuration is built and the
\* worker runs, the container is cleaned up first.
Interrupt ==
    /\ caller.pc \in {"config", "probe", "join"}
    /\ CleanUp("interrupted", 0)
    /\ worker' = [worker EXCEPT ![scan].released = @ \/ caller.pc = "probe"]
    /\ UNCHANGED <<network, env, prepared, container, late, scan, asked>>

\* Elsewhere it is not: the Docker command under way is killed, and the daemon
\* may act on it nevertheless.
InterruptUnguarded ==
    /\ caller.pc \in {"prepare", "config", "list", "remove", "confirm"}
    /\ End("interrupted", FALSE)
    /\ \/ UNCHANGED <<container, late>>
       \/ /\ caller.pc = "prepare" /\ prepared = Nobody
          /\ late' = late \cup {[scan |-> scan, env |-> env]}
          /\ UNCHANGED container
       \/ /\ caller.pc = "remove"
          /\ container' = Nobody
          /\ UNCHANGED late
    /\ UNCHANGED <<network, env, prepared, scan, asked, worker>>

-----------------------------------------------------------------------------
(* The worker thread of scan i: connector.connect around docker start.     *)

Stage(i, stage, result) ==
    worker' = [worker EXCEPT ![i].stage = stage, ![i].result = result]

workerFrame == <<network, env, prepared, late, scan, asked, caller, outcome>>

\* Mutant: the worker is given docker run, which creates the container.
LaunchByRun(i) ==
    /\ worker[i].stage = "launch"
    /\ container # Nobody => Owns(i) /\ container.state = "created"
    /\ container' = [scan |-> i, env |-> IF i = scan THEN env ELSE {}, state |-> "running"]
    /\ Stage(i, "session", "none")
    /\ UNCHANGED workerFrame

\* docker start of the prepared id.
Launch(i) ==
    /\ worker[i].stage = "launch"
    /\ Owns(i) /\ container.state = "created"
    /\ container' = [container EXCEPT !.state = "running"]
    /\ Stage(i, "session", "none")
    /\ UNCHANGED workerFrame

ListCapabilities(i) ==
    /\ worker[i].stage = "session"
    /\ Owns(i) /\ container.state = "running"
    /\ Stage(i, "gated", "none")
    /\ UNCHANGED <<container, workerFrame>>

\* Mutant: the session is torn down without waiting for the attestation.
ReleaseAtOnce(i) ==
    /\ worker[i].stage = "gated"
    /\ Stage(i, "closing", "ok")
    /\ UNCHANGED <<container, workerFrame>>

\* gate_connector_teardown_for_runtime_attestation holds the session until
\* the caller has attested the container.
Release(i) ==
    /\ worker[i].stage = "gated"
    /\ worker[i].released
    /\ Stage(i, "closing", "ok")
    /\ UNCHANGED <<container, workerFrame>>

\* docker start fails, the connector or the gate times out, or the connection
\* breaks.
ConnectionEnds(i, result) ==
    /\ worker[i].stage \in {"launch", "session", "gated", "closing"}
    /\ Stage(i, "closing", result)
    /\ UNCHANGED <<container, workerFrame>>

Close(i) ==
    /\ worker[i].stage = "closing"
    /\ Stage(i, "done", worker[i].result)
    /\ UNCHANGED <<container, workerFrame>>

-----------------------------------------------------------------------------
(* The Docker daemon and the server in the container.                      *)

\* Mutant: the container was created with --rm.
ExitAndRemove ==
    /\ container # Nobody /\ container.state = "running"
    /\ container' = Nobody
    /\ UNCHANGED <<network, env, prepared, late, scan, asked, caller, worker, outcome>>

\* wrap's --rm is dropped from the create command: the container stays.
ServerExits ==
    /\ container # Nobody /\ container.state = "running"
    /\ container' = [container EXCEPT !.state = "exited"]
    /\ UNCHANGED <<network, env, prepared, late, scan, asked, caller, worker, outcome>>

\* The daemon comes to a request whose client is gone, or drops it.
Materialize(r) ==
    /\ r \in late
    /\ late' = late \ {r}
    /\ \/ UNCHANGED container
       \/ /\ container = Nobody
          /\ container' = [scan |-> r.scan, env |-> r.env, state |-> "created"]
    /\ UNCHANGED <<network, env, prepared, scan, asked, caller, worker, outcome>>

Init ==
    /\ network \in Networks
    /\ env = {}
    /\ prepared = Nobody
    /\ container = Nobody
    /\ late = {}
    /\ scan = 0
    /\ asked = [i \in Scans |-> {}]
    /\ caller = Idle
    /\ worker = [i \in Scans |-> NoWorker]
    /\ outcome = [i \in Scans |-> Running]

\* The steps of the caller's thread within a scan.
Advance ==
    \/ PrepareRefused \/ CreateContainer \/ CreateFails \/ CreateTimesOut
    \/ \E ok \in BOOLEAN : BuildConfig(ok)
    \/ ConnectorUnusable
    \/ ProbeAttests \/ ProbeFails
    \/ JoinReturns \/ JoinTimesOut
    \/ ListOwned \/ RemoveOwned \/ ConfirmAbsent \/ CleanupCommandFails

Next ==
    \/ \E keys \in SUBSET Keys, mode \in {"none", "dummy"} : StartScan(keys, mode)
    \/ Advance
    \/ Interrupt \/ InterruptUnguarded
    \/ \E i \in Scans :
          \/ Launch(i) \/ ListCapabilities(i) \/ Release(i) \/ Close(i)
          \/ \E result \in {"failed", "timeout"} : ConnectionEnds(i, result)
    \/ ServerExits
    \/ \E r \in late : Materialize(r)

Spec == Init /\ [][Next]_vars

\* The calling thread keeps running, each of its commands has a timeout, and
\* nothing is assumed of the worker, the daemon or the server.
FairSpec == Spec /\ WF_vars(Advance)

-----------------------------------------------------------------------------
(* Properties.                                                             *)

Kinds == {"none", "result", "timeout", "error", "interrupted"}
Stages == {"none", "launch", "session", "gated", "closing", "done"}
Places == {"idle", "prepare", "config", "probe", "join", "list", "remove", "confirm"}

Callers == [pc : Places, polls : 0..SettlePolls, verdict : Kinds, readback : Stages]
Workers == [stage : Stages, released : BOOLEAN,
            result : {"none", "ok", "failed", "timeout"}]
Outcomes == [kind : Kinds, readback : Stages, absent : BOOLEAN]

\* Values; the settle polls of prepare_owned_container stay within their count,
\* and a connection that is done has a result.
TypeOK ==
    /\ network \in Networks
    /\ env \subseteq Keys
    /\ prepared \in Scans \cup {Nobody}
    /\ container \in Containers \cup {Nobody}
    /\ late \subseteq [scan : Scans, env : SUBSET Keys]
    /\ scan \in 0..MaxScans
    /\ asked \in [Scans -> SUBSET Keys]
    /\ caller \in Callers
    /\ caller.pc # "idle" => scan \in Scans
    /\ worker \in [Scans -> Workers]
    /\ outcome \in [Scans -> Outcomes]
    /\ \A i \in Scans : worker[i].stage \in {"closing", "done"} => worker[i].result # "none"

\* Once the cleanup of a scan whose worker was started has verified that the
\* container is gone, it never comes back, although the worker may still be
\* running, and the sandbox has let go of it.
AbsenceStays ==
    \A i \in Scans : outcome[i].absent /\ worker[i].stage # "none" =>
        /\ ~Owns(i)
        /\ prepared # i
        /\ \A r \in late : r.scan # i

\* A result rests on an attestation of the running container taken while the
\* session that listed the capabilities was still open.
ResultAttested ==
    \A i \in Scans :
        outcome[i].kind = "result" => outcome[i].readback \in {"session", "gated"}

\* From its creation to the cleanup the name belongs to the container of the
\* running scan: a request left over from an earlier scan cannot take it.
NameHeld == caller.pc \in {"config", "probe", "join"} => Owns(scan) /\ prepared = scan

\* A container carries dummy credentials only for keys its own source
\* declares, and only without a network, whatever scans came before.
CredentialsContained ==
    container # Nobody =>
        /\ container.env \subseteq asked[container.scan]
        /\ container.env # {} => network = "none"

\* Every scan ends, whatever hangs.
ScanEnds == caller.pc # "idle" ~> caller.pc = "idle"
=============================================================================
