---------------------------- MODULE SnapshotTrust ----------------------------
(***************************************************************************)
(* Offline snapshot verification: src/mcp_trust/catalog/snapshot_trust.py, *)
(* and the consumers that keep a pinned root and a checkpoint around it.   *)
(* The verifier is read-only; a consumer persists the checkpoint that a    *)
(* VERIFIED result returns, later, and may be interrupted before it does.  *)
(* Whatever is delivered to a consumer is chosen freely: any statement,    *)
(* any signatures, any snapshot bytes, in any order and any number of      *)
(* times.                                                                  *)
(*                                                                         *)
(* Digests are modelled by what they identify: the digest of a statement   *)
(* is the signed record, the digest of a root is the root.                 *)
(***************************************************************************)
EXTENDS Naturals, Sequences, FiniteSets

CONSTANTS
    Consumers,
    Roots,          \* root files, well-formed or not
    FirstRoots,     \* the roots consumers pin on first use
    SignerSets,     \* sets of key ids whose signatures may be delivered
    Snapshots,      \* snapshot byte strings
    WellFormed,     \* those parse_catalog_snapshot accepts
    MaxPublication, \* bound on publication ids
    MaxTime,        \* bound on the clock
    Windows,        \* <<issued_at, expires_at>> a statement may carry
    NoRoot          \* no root update in progress

Publications == 1..MaxPublication

\* previous: null.  Publication ids start at 1, so no statement equals it.
NoStatement == [publication |-> 0]

\* No checkpoint file; no pending result.
NoCheckpoint == [statement |-> NoStatement]

ASSUME SnapshotTrustConstants ==
    /\ MaxPublication \in Nat /\ MaxTime \in Nat
    /\ FirstRoots \subseteq Roots
    /\ WellFormed \subseteq Snapshots
    /\ NoRoot \notin Roots
    /\ Windows \subseteq Nat \X Nat
    /\ \A r \in Roots : /\ r.version \in Nat /\ r.min \in Nat
                        /\ r.lifetime \in Nat /\ r.skew \in Nat

VARIABLES
    now,         \* the clock of the consumers
    root,        \* root[u]: the pinned root file
    checkpoint,  \* checkpoint[u]: the persisted checkpoint
    pending,     \* pending[u]: next_checkpoint of a VERIFIED result
    rotation,    \* rotation[u]: new_root of a VERIFIED update
    accepted     \* accepted[u]: history, the statements u has persisted

vars == <<now, root, checkpoint, pending, rotation, accepted>>

-----------------------------------------------------------------------------
(* The verifier.                                                           *)

KeysOf(r, role) == {k \in r.keys : k.role = role}

\* _validate_root: distinct key ids, non-empty windows, thresholds within the
\* number of keys of the role, whatever their windows are.
ValidRoot(r) ==
    /\ r.version >= 1 /\ r.min >= 1 /\ r.lifetime >= 1
    /\ r.threshold["snapshot"] >= 1 /\ r.threshold["recovery"] >= 1
    /\ Cardinality(r.keys) >= 2
    /\ \A k \in r.keys : 1 <= k.from /\ k.from <= k.through
    /\ \A k, l \in r.keys : k.id = l.id => k = l
    /\ \A role \in {"snapshot", "recovery"} :
          r.threshold[role] <= Cardinality(KeysOf(r, role))

\* _key_is_authorized
Authorized(r, role, pub) ==
    {k.id : k \in {x \in KeysOf(r, role) : x.from <= pub /\ pub <= x.through}}

\* _verify_signatures: one signature that is unknown, unauthorized, repeated
\* or invalid is a reason to refuse, however many others are good.
SignaturesVerified(r, role, pub, signers) ==
    /\ signers \subseteq Authorized(r, role, pub)
    /\ Cardinality(signers) >= r.threshold[role]

\* _checkpoint_matches_root
CheckpointMatchesRoot(c, r) == c.root = r

InWindow(r, window) ==
    LET issued == window[1]
        expires == window[2]
    IN  /\ issued <= now + r.skew
        /\ now < expires
        /\ issued < expires /\ expires <= issued + r.lifetime

\* Mutants of Follows.
FollowsByLinkOnly(c, r, s) ==
    IF c = NoCheckpoint
    THEN s.publication = r.min /\ s.previous = NoStatement
    ELSE s = c.statement \/ s.previous = c.statement

FollowsByNumberOnly(c, r, s) ==
    IF c = NoCheckpoint
    THEN s.publication = r.min /\ s.previous = NoStatement
    ELSE s = c.statement \/ s.publication > c.statement.publication

FollowsFromAnywhere(c, r, s) ==
    IF c = NoCheckpoint
    THEN s.publication = r.min
    ELSE \/ s = c.statement
         \/ s.publication > c.statement.publication /\ s.previous = c.statement

\* The position of a statement relative to the checkpoint.  An earlier
\* publication is a rollback, another statement with the same id a fork, a
\* later one that does not name the accepted statement a gap.
Follows(c, r, s) ==
    IF c = NoCheckpoint
    THEN s.publication = r.min /\ s.previous = NoStatement
    ELSE \/ s = c.statement
         \/ s.publication > c.statement.publication /\ s.previous = c.statement

\* verify_snapshot on the statement s, its signers and the snapshot bytes b;
\* current is require_current_checkpoint.
SnapshotVerified(u, s, signers, b, current) ==
    LET r == root[u]
        c == checkpoint[u]
    IN  /\ s.publisher = r.publisher
        /\ s.version = r.version
        /\ s.publication >= r.min
        /\ s.snapshot = b /\ b \in WellFormed
        /\ Follows(c, r, s)
        /\ current => /\ c # NoCheckpoint
                      /\ s.publication <= c.statement.publication
        /\ InWindow(r, s.window)
        /\ SignaturesVerified(r, "snapshot", s.publication, signers)
        /\ c # NoCheckpoint => CheckpointMatchesRoot(c, r)
        /\ ValidRoot(r)

\* verify_root_update of the update <<publisher, new, window>> bound
\* to the previous root old.
RootUpdateVerified(u, old, new, window, signers) ==
    LET r == root[u]
        c == checkpoint[u]
    IN  /\ ValidRoot(r)
        /\ c # NoCheckpoint
        /\ CheckpointMatchesRoot(c, r)
        /\ InWindow(r, window)
        /\ ValidRoot(new)
        /\ old = r
        /\ new.min >= c.statement.publication
        /\ new.publisher = r.publisher
        /\ new.version = r.version + 1
        /\ SignaturesVerified(r, "recovery", c.statement.publication, signers)

-----------------------------------------------------------------------------
(* The consumers.                                                          *)

\* What may be delivered: the previous statement is absent or one that some
\* consumer has accepted.
Known == UNION {{accepted[u][i] : i \in 1..Len(accepted[u])} : u \in Consumers}
Publishers == {r.publisher : r \in Roots}
Versions == {r.version : r \in Roots}

Tick ==
    /\ now < MaxTime
    /\ now' = now + 1
    /\ UNCHANGED <<root, checkpoint, pending, rotation, accepted>>

\* A verification that returns VERIFIED.  An UNKNOWN result changes nothing.
VerifySnapshot(u, s, signers, b, current) ==
    /\ rotation[u] = NoRoot
    /\ SnapshotVerified(u, s, signers, b, current)
    /\ pending' = [pending EXCEPT ![u] = [root |-> root[u], statement |-> s]]
    /\ UNCHANGED <<now, root, checkpoint, rotation, accepted>>

Persist(u) ==
    /\ pending[u] # NoCheckpoint
    /\ rotation[u] = NoRoot
    /\ checkpoint' = [checkpoint EXCEPT ![u] = pending[u]]
    /\ accepted' = IF checkpoint[u] # NoCheckpoint
                      /\ checkpoint[u].statement = pending[u].statement
                   THEN accepted
                   ELSE [accepted EXCEPT ![u] = Append(@, pending[u].statement)]
    /\ pending' = [pending EXCEPT ![u] = NoCheckpoint]
    /\ UNCHANGED <<now, root, rotation>>

\* Mutant: next_checkpoint is a copy of the checkpoint, not bound to new.
VerifyRootUpdateUnbound(u, old, new, window, signers) ==
    /\ rotation[u] = NoRoot
    /\ RootUpdateVerified(u, old, new, window, signers)
    /\ rotation' = [rotation EXCEPT ![u] = new]
    /\ pending' = [pending EXCEPT ![u] = checkpoint[u]]
    /\ UNCHANGED <<now, root, checkpoint, accepted>>

VerifyRootUpdate(u, old, new, window, signers) ==
    /\ rotation[u] = NoRoot
    /\ RootUpdateVerified(u, old, new, window, signers)
    /\ rotation' = [rotation EXCEPT ![u] = new]
    /\ pending' = [pending EXCEPT ![u] = [checkpoint[u] EXCEPT !.root = new]]
    /\ UNCHANGED <<now, root, checkpoint, accepted>>

\* The new root is persisted first, the checkpoint after it.
PersistRoot(u) ==
    /\ rotation[u] # NoRoot
    /\ root' = [root EXCEPT ![u] = rotation[u]]
    /\ rotation' = [rotation EXCEPT ![u] = NoRoot]
    /\ UNCHANGED <<now, checkpoint, pending, accepted>>

\* The consumer is interrupted: results that were not persisted are lost.
Crash(u) ==
    /\ pending[u] # NoCheckpoint
    /\ pending' = [pending EXCEPT ![u] = NoCheckpoint]
    /\ rotation' = [rotation EXCEPT ![u] = NoRoot]
    /\ UNCHANGED <<now, root, checkpoint, accepted>>

Init ==
    /\ now = 0
    /\ root \in [Consumers -> FirstRoots]
    /\ checkpoint = [u \in Consumers |-> NoCheckpoint]
    /\ pending = [u \in Consumers |-> NoCheckpoint]
    /\ rotation = [u \in Consumers |-> NoRoot]
    /\ accepted = [u \in Consumers |-> <<>>]

Statements ==
    [publisher : Publishers, version : Versions, publication : Publications,
     snapshot : Snapshots, previous : Known \cup {NoStatement},
     window : Windows]

Next ==
    \/ Tick
    \/ \E u \in Consumers :
          \/ \E s \in Statements, signers \in SignerSets, b \in Snapshots,
                current \in BOOLEAN : VerifySnapshot(u, s, signers, b, current)
          \/ Persist(u)
          \/ \E old, new \in Roots, window \in Windows, signers \in SignerSets :
                VerifyRootUpdate(u, old, new, window, signers)
          \/ PersistRoot(u)
          \/ Crash(u)

Spec == Init /\ [][Next]_vars

-----------------------------------------------------------------------------
(* Properties.                                                             *)

\* Every consumer holds a root file and, once it has accepted something, a
\* checkpoint for the statement it accepted last; a next_checkpoint not yet
\* persisted is bound to the root it will be used with.
TypeOK ==
    /\ now \in 0..MaxTime
    /\ root \in [Consumers -> Roots]
    /\ rotation \in [Consumers -> Roots \cup {NoRoot}]
    /\ \A u \in Consumers :
          IF checkpoint[u] = NoCheckpoint THEN accepted[u] = <<>>
          ELSE /\ accepted[u] # <<>>
               /\ checkpoint[u].statement = accepted[u][Len(accepted[u])]
    /\ \A u \in Consumers :
          /\ rotation[u] # NoRoot => pending[u] # NoCheckpoint
          /\ pending[u] # NoCheckpoint =>
                pending[u].root = IF rotation[u] = NoRoot THEN root[u]
                                  ELSE rotation[u]

\* What a consumer has accepted is one chain: every statement names the one
\* accepted before it, and root versions never go back, whatever was
\* delivered, rotated or lost in between.
AcceptedChain ==
    \A u \in Consumers : \A i \in 2..Len(accepted[u]) :
        LET s == accepted[u][i]
            t == accepted[u][i - 1]
        IN  s.previous = t /\ s.version >= t.version

\* A step that replaces a checkpoint keeps the accepted statement or moves to
\* a later publication: no rollback and no second statement for an id.
NoRollback ==
    [][\A u \in Consumers :
          checkpoint[u] # NoCheckpoint =>
             /\ checkpoint'[u] # NoCheckpoint
             /\ \/ checkpoint'[u].statement = checkpoint[u].statement
                \/ checkpoint'[u].statement.publication
                      > checkpoint[u].statement.publication]_vars

\* Two consumers that accepted one common statement accepted the same
\* statements before it, so once their views differ no later publication can
\* join them again.
SplitsStaySplit ==
    \A u, v \in Consumers :
        \A i \in 1..Len(accepted[u]), j \in 1..Len(accepted[v]) :
            accepted[u][i] = accepted[v][j] =>
                /\ i = j
                /\ \A k \in 1..i : accepted[u][k] = accepted[v][k]

\* OFFLINE-SNAPSHOT-TRUST-V1.md: "An exact replay of the current checkpoint
\* is idempotent."  While the statement has not expired, verifying it again
\* with the signatures it was accepted with succeeds.
ReplayIdempotent ==
    \A u \in Consumers :
        /\ checkpoint[u] # NoCheckpoint
        /\ CheckpointMatchesRoot(checkpoint[u], root[u])
        /\ now < checkpoint[u].statement.window[2]
        => LET s == checkpoint[u].statement
           IN  \E signers \in SignerSets :
                  SnapshotVerified(u, s, signers, s.snapshot, FALSE)
=============================================================================
