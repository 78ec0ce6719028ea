------------------------ MODULE SnapshotTrustProofs ------------------------
(***************************************************************************)
(* Proofs about SnapshotTrust, for any consumers, roots, signers, windows  *)
(* and bounds: type correctness, the chain of accepted statements, no      *)
(* rollback of a checkpoint, and that consumers whose views differ are     *)
(* never joined again.                                                     *)
(*                                                                         *)
(* Nothing is assumed of what is delivered.  The argument rests on the     *)
(* pending result: what Follows compared with the checkpoint at the time   *)
(* of the verification still holds of the checkpoint when the result is    *)
(* persisted, because only Persist replaces a checkpoint and it takes the  *)
(* pending result away.                                                    *)
(***************************************************************************)
EXTENDS SnapshotTrust, SequenceTheorems, TLAPS

\* A statement proper: its publication tells it from NoStatement.
Proper(s) == s.publication \in Publications /\ s.version \in Nat

\* A checkpoint, or one to be: it names a root at least as new as the
\* statement's.
Bound(c) ==
    /\ c = [root |-> c.root, statement |-> c.statement]
    /\ c.root \in Roots
    /\ Proper(c.statement)
    /\ c.statement.version <= c.root.version

\* What Follows established of the statement s against the checkpoint c.
Extends(c, s) ==
    IF c = NoCheckpoint
    THEN s.previous = NoStatement
    ELSE \/ s = c.statement
         \/ /\ s.publication > c.statement.publication
            /\ s.previous = c.statement
            /\ s.version >= c.statement.version

ShapeInv ==
    /\ checkpoint = [u \in Consumers |-> checkpoint[u]]
    /\ pending = [u \in Consumers |-> pending[u]]
    /\ accepted \in [Consumers -> Seq(Known)]
    /\ \A s \in Known : Proper(s)
    /\ \A u \in Consumers : checkpoint[u] # NoCheckpoint => Bound(checkpoint[u])
    /\ \A u \in Consumers : pending[u] # NoCheckpoint => Bound(pending[u])

PendingInv ==
    \A u \in Consumers :
        pending[u] # NoCheckpoint => Extends(checkpoint[u], pending[u].statement)

\* The first statement of a chain names none before it.
FirstInv ==
    \A u \in Consumers :
        accepted[u] # <<>> => accepted[u][1].previous = NoStatement

TrustInv ==
    /\ TypeOK /\ ShapeInv /\ PendingInv
    /\ FirstInv /\ AcceptedChain /\ SplitsStaySplit

-----------------------------------------------------------------------------
\* Nothing with the form of a checkpoint for a proper statement is
\* NoCheckpoint, and no proper statement is NoStatement.
LEMMA ProperIsSome ==
    /\ \A s : Proper(s) => s # NoStatement
    /\ \A c : Proper(c.statement) => c # NoCheckpoint
<1>1. NoStatement.publication = 0 /\ NoCheckpoint.statement = NoStatement
  BY DEF NoStatement, NoCheckpoint
<1>2. 0 \notin Publications
  BY SnapshotTrustConstants DEF Publications
<1> QED BY <1>1, <1>2 DEF Proper

\* The state at the start satisfies the invariant.
LEMMA TrustInit == Init => TrustInv
<1> SUFFICES ASSUME Init PROVE TrustInv
  OBVIOUS
<1> USE DEF Init
<1>1. \A u \in Consumers :
         /\ checkpoint[u] = NoCheckpoint /\ pending[u] = NoCheckpoint
         /\ accepted[u] = <<>> /\ Len(accepted[u]) = 0 /\ rotation[u] = NoRoot
  OBVIOUS
<1>2. TypeOK
  <2>1. root \in [Consumers -> Roots] BY SnapshotTrustConstants
  <2>2. rotation \in [Consumers -> Roots \cup {NoRoot}] OBVIOUS
  <2>3. now \in 0..MaxTime BY SnapshotTrustConstants
  <2> QED BY <1>1, <2>1, <2>2, <2>3 DEF TypeOK
<1>3. Known = {}
  <2>1. \A u \in Consumers : {accepted[u][i] : i \in 1..Len(accepted[u])} = {}
    BY <1>1
  <2> QED BY <2>1 DEF Known
<1>4. ShapeInv
  <2>1. accepted \in [Consumers -> Seq(Known)]
    BY EmptySeq
  <2> QED BY <1>1, <1>3, <2>1 DEF ShapeInv
<1>5. PendingInv /\ FirstInv
  BY <1>1 DEF PendingInv, FirstInv
<1>6. AcceptedChain /\ SplitsStaySplit
  BY <1>1 DEF AcceptedChain, SplitsStaySplit
<1> QED BY <1>2, <1>4, <1>5, <1>6 DEF TrustInv

\* Persisting appends one statement to the history of one consumer: the
\* others keep theirs, and what is known grows by that statement.
LEMMA AppendKnown ==
  ASSUME NEW u \in Consumers, NEW s,
         accepted \in [Consumers -> Seq(Known)],
         accepted' = [accepted EXCEPT ![u] = Append(@, s)]
  PROVE  /\ Known' = Known \cup {s}
         /\ accepted' \in [Consumers -> Seq(Known')]
         /\ Len(accepted[u]) \in Nat
         /\ Len(accepted'[u]) = Len(accepted[u]) + 1
         /\ \A i \in 1..Len(accepted[u]) : accepted'[u][i] = accepted[u][i]
         /\ accepted'[u][Len(accepted[u]) + 1] = s
         /\ \A v \in Consumers \ {u} : accepted'[v] = accepted[v]
<1> DEFINE K == Known \cup {s}
<1> DEFINE n == Len(accepted[u])
<1>0. \A v \in Consumers : accepted[v] \in Seq(K)
  <2> SUFFICES ASSUME NEW v \in Consumers PROVE accepted[v] \in Seq(K)
    OBVIOUS
  <2>1. accepted[v] \in Seq(Known) OBVIOUS
  <2> QED BY <2>1, SeqMonotonic
<1>1. /\ Append(accepted[u], s) \in Seq(K)
      /\ Len(Append(accepted[u], s)) = n + 1
      /\ \A i \in 1..n : Append(accepted[u], s)[i] = accepted[u][i]
      /\ Append(accepted[u], s)[n + 1] = s
  <2>1. accepted[u] \in Seq(K) /\ s \in K BY <1>0
  <2> HIDE DEF K
  <2> QED BY <2>1, AppendProperties
<1>2. n \in Nat
  BY LenProperties
<1>3. accepted'[u] = Append(accepted[u], s)
  OBVIOUS
<1>4. \A v \in Consumers \ {u} : accepted'[v] = accepted[v]
  OBVIOUS
<1>5. accepted' \in [Consumers -> Seq(K)]
  BY <1>0, <1>1
<1>6. Known' = K
  <2>1. ASSUME NEW x \in Known' PROVE x \in K
    <3>1. PICK v \in Consumers : \E i \in 1..Len(accepted'[v]) : x = accepted'[v][i]
      BY <2>1 DEF Known
    <3>2. PICK i \in 1..Len(accepted'[v]) : x = accepted'[v][i]
      BY <3>1
    <3>3. accepted'[v] \in Seq(K)
      BY <1>5
    <3> QED BY <3>2, <3>3, ElementOfSeq
  <2>2. ASSUME NEW x \in Known PROVE x \in Known'
    <3>1. PICK v \in Consumers : \E i \in 1..Len(accepted[v]) : x = accepted[v][i]
      BY <2>2 DEF Known
    <3>2. PICK i \in 1..Len(accepted[v]) : x = accepted[v][i]
      BY <3>1
    <3>3. i \in 1..Len(accepted'[v]) /\ x = accepted'[v][i]
      BY <1>1, <1>2, <1>3, <1>4, <3>2
    <3> QED BY <3>3 DEF Known
  <2>3. s \in Known'
    <3>1. n + 1 \in 1..Len(accepted'[u]) /\ s = accepted'[u][n + 1]
      BY <1>1, <1>2, <1>3
    <3> QED BY <3>1 DEF Known
  <2> QED BY <2>1, <2>2, <2>3
<1> QED BY <1>1, <1>2, <1>3, <1>4, <1>5, <1>6

\* What a consumer has accepted is a finite sequence of known statements.
LEMMA AcceptedFacts ==
  ASSUME ShapeInv, NEW v \in Consumers
  PROVE  /\ Len(accepted[v]) \in Nat
         /\ accepted[v] = <<>> <=> Len(accepted[v]) = 0
         /\ \A i \in 1..Len(accepted[v]) :
               accepted[v][i] \in Known /\ Proper(accepted[v][i])
<1>1. accepted[v] \in Seq(Known) BY DEF ShapeInv
<1>2. Len(accepted[v]) \in Nat BY <1>1, LenProperties
<1>3. accepted[v] = <<>> <=> Len(accepted[v]) = 0 BY <1>1, EmptySeq
<1>4. \A i \in 1..Len(accepted[v]) : accepted[v][i] \in Known
  BY <1>1, ElementOfSeq
<1> QED BY <1>2, <1>3, <1>4 DEF ShapeInv

-----------------------------------------------------------------------------
\* A step that leaves the histories alone disturbs nothing said of them.
LEMMA HistoryUndisturbed ==
  ASSUME FirstInv, AcceptedChain, SplitsStaySplit, UNCHANGED accepted
  PROVE  FirstInv' /\ AcceptedChain' /\ SplitsStaySplit'
BY DEF FirstInv, AcceptedChain, SplitsStaySplit

\* A verification leaves a pending result that extends the checkpoint and is
\* bound to the pinned root.
LEMMA VerifySnapshotStep ==
  ASSUME TrustInv, NEW u \in Consumers, NEW s \in Statements,
         NEW signers \in SignerSets, NEW b \in Snapshots, NEW current \in BOOLEAN,
         VerifySnapshot(u, s, signers, b, current)
  PROVE  TrustInv'
<1> USE DEF TrustInv, VerifySnapshot
<1> DEFINE p == [root |-> root[u], statement |-> s]
<1>1. pending'[u] = p /\ \A v \in Consumers \ {u} : pending'[v] = pending[v]
  BY DEF ShapeInv
<1>2. root[u] \in Roots
  BY DEF TypeOK
<1>3. s.version = root[u].version /\ Follows(checkpoint[u], root[u], s)
  BY DEF SnapshotVerified
<1>4. Bound(p)
  <2>1. s.publication \in Publications
    BY DEF Statements
  <2>2. root[u].version \in Nat
    BY <1>2, SnapshotTrustConstants
  <2> QED BY <1>2, <1>3, <2>1, <2>2 DEF Bound, Proper
<1>5. p # NoCheckpoint
  BY <1>4, ProperIsSome DEF Bound
<1>6. Extends(checkpoint[u], s)
  <2>1. CASE checkpoint[u] = NoCheckpoint
    BY <1>3, <2>1 DEF Follows, Extends
  <2>2. CASE checkpoint[u] # NoCheckpoint
    <3>1. Bound(checkpoint[u]) BY <2>2 DEF ShapeInv
    <3>2. CheckpointMatchesRoot(checkpoint[u], root[u])
      BY <2>2 DEF SnapshotVerified
    <3>3. s.version >= checkpoint[u].statement.version
      BY <1>3, <3>1, <3>2 DEF CheckpointMatchesRoot, Bound
    <3> QED BY <1>3, <2>2, <3>3 DEF Follows, Extends
  <2> QED BY <2>1, <2>2
<1> HIDE DEF p
<1>7. TypeOK'
  <2>1. rotation[u] = NoRoot /\ p.root = root[u] BY DEF p
  <2> QED BY <1>1, <1>5, <2>1 DEF TypeOK
<1>8. ShapeInv'
  <2>1. Known' = Known BY DEF Known
  <2>2. pending' = [v \in Consumers |-> pending'[v]] BY DEF ShapeInv
  <2> QED BY <1>1, <1>4, <2>1, <2>2 DEF ShapeInv
<1>9. PendingInv'
  <2>1. p.statement = s BY DEF p
  <2> QED BY <1>1, <1>6, <2>1 DEF PendingInv
<1> QED BY <1>7, <1>8, <1>9, HistoryUndisturbed

\* A root update leaves a pending checkpoint that keeps the accepted
\* statement and is bound to the new root.
LEMMA VerifyRootUpdateStep ==
  ASSUME TrustInv, NEW u \in Consumers, NEW old \in Roots, NEW new \in Roots,
         NEW window \in Windows, NEW signers \in SignerSets,
         VerifyRootUpdate(u, old, new, window, signers)
  PROVE  TrustInv'
<1> USE DEF TrustInv, VerifyRootUpdate
<1> DEFINE c == checkpoint[u]
<1> DEFINE p == [c EXCEPT !.root = new]
<1>1. /\ pending'[u] = p /\ \A v \in Consumers \ {u} : pending'[v] = pending[v]
      /\ rotation'[u] = new /\ \A v \in Consumers \ {u} : rotation'[v] = rotation[v]
      /\ rotation' \in [Consumers -> Roots \cup {NoRoot}]
  BY DEF ShapeInv, TypeOK
<1>2. c # NoCheckpoint /\ Bound(c) /\ CheckpointMatchesRoot(c, root[u])
      /\ new.version = root[u].version + 1
  BY DEF RootUpdateVerified, ShapeInv
<1>3. p = [root |-> new, statement |-> c.statement]
  BY <1>2 DEF Bound
<1>4. p.root = new /\ p.statement = c.statement
  BY <1>3
<1>5. Bound(p)
  <2>1. c.statement.version <= new.version
    BY <1>2, SnapshotTrustConstants DEF Bound, Proper, CheckpointMatchesRoot
  <2> QED BY <1>2, <1>3, <1>4, <2>1 DEF Bound
<1>6. p # NoCheckpoint
  BY <1>5, ProperIsSome DEF Bound
<1>7. Extends(c, p.statement)
  BY <1>2, <1>4 DEF Extends
<1> HIDE DEF p
<1>8. TypeOK'
  <2>1. new # NoRoot BY SnapshotTrustConstants
  <2> QED BY <1>1, <1>4, <1>6, <2>1 DEF TypeOK
<1>9. ShapeInv'
  <2>1. Known' = Known BY DEF Known
  <2>2. pending' = [v \in Consumers |-> pending'[v]] BY DEF ShapeInv
  <2> QED BY <1>1, <1>5, <2>1, <2>2 DEF ShapeInv
<1>10. PendingInv'
  BY <1>1, <1>7 DEF PendingInv
<1> QED BY <1>8, <1>9, <1>10, HistoryUndisturbed

\* Persisting the root first makes it the one the pending checkpoint is
\* bound to.
LEMMA PersistRootStep ==
  ASSUME TrustInv, NEW u \in Consumers, PersistRoot(u)
  PROVE  TrustInv'
<1> USE DEF TrustInv, PersistRoot
<1>1. TypeOK'
  BY DEF TypeOK
<1>2. ShapeInv'
  <2>1. Known' = Known BY DEF Known
  <2> QED BY <2>1 DEF ShapeInv
<1>3. PendingInv'
  BY DEF PendingInv
<1> QED BY <1>1, <1>2, <1>3, HistoryUndisturbed

\* An interruption loses what was pending and nothing else.
LEMMA CrashStep ==
  ASSUME TrustInv, NEW u \in Consumers, Crash(u)
  PROVE  TrustInv'
<1> USE DEF TrustInv, Crash
<1>1. pending'[u] = NoCheckpoint /\ \A v \in Consumers \ {u} : pending'[v] = pending[v]
  BY DEF ShapeInv
<1>2. TypeOK'
  BY <1>1 DEF TypeOK
<1>3. ShapeInv'
  <2>1. Known' = Known BY DEF Known
  <2>2. pending' = [v \in Consumers |-> pending'[v]] BY DEF ShapeInv
  <2> QED BY <1>1, <2>1, <2>2 DEF ShapeInv
<1>4. PendingInv'
  BY <1>1 DEF PendingInv
<1> QED BY <1>2, <1>3, <1>4, HistoryUndisturbed

-----------------------------------------------------------------------------
\* When a consumer is about to accept the statement s, any consumer that has
\* accepted s already has it at the place s will take, after the same
\* statements.
LEMMA JoinsAtItsPlace ==
  ASSUME TrustInv, NEW u \in Consumers, NEW s,
         IF accepted[u] = <<>> THEN s.previous = NoStatement
         ELSE s.previous = accepted[u][Len(accepted[u])],
         NEW v \in Consumers, NEW j \in 1..Len(accepted[v]),
         accepted[v][j] = s
  PROVE  /\ j = Len(accepted[u]) + 1
         /\ \A k \in 1..Len(accepted[u]) : accepted[v][k] = accepted[u][k]
<1> USE DEF TrustInv
<1> DEFINE n == Len(accepted[u])
<1>1. /\ n \in Nat /\ Len(accepted[v]) \in Nat
      /\ accepted[u] = <<>> <=> n = 0
      /\ \A i \in 1..n : accepted[u][i] # NoStatement
      /\ \A i \in 1..Len(accepted[v]) : accepted[v][i] # NoStatement
  BY AcceptedFacts, ProperIsSome
<1>2. CASE j = 1
  <2>1. s.previous = NoStatement
    BY <1>1, <1>2 DEF FirstInv
  <2>2. n = 0
    BY <1>1, <2>1
  <2> QED BY <1>2, <2>2
<1>3. CASE j # 1
  <2>1. j \in 2..Len(accepted[v]) /\ j - 1 \in 1..Len(accepted[v])
    BY <1>1, <1>3
  <2>2. s.previous = accepted[v][j - 1]
    BY <2>1 DEF AcceptedChain
  <2>3. n # 0 /\ s.previous = accepted[u][n]
    BY <1>1, <2>1, <2>2
  <2>4. n \in 1..n /\ accepted[u][n] = accepted[v][j - 1]
    BY <1>1, <2>2, <2>3
  <2>5. n = j - 1 /\ \A k \in 1..n : accepted[u][k] = accepted[v][k]
    BY <2>1, <2>4 DEF SplitsStaySplit
  <2> QED BY <1>1, <2>5
<1> QED BY <1>2, <1>3

\* What persisting does to the checkpoint and the pending result.
LEMMA PersistMoves ==
  ASSUME TrustInv, NEW u \in Consumers, Persist(u)
  PROVE  /\ checkpoint'[u] = pending[u] /\ pending'[u] = NoCheckpoint
         /\ \A v \in Consumers \ {u} :
               checkpoint'[v] = checkpoint[v] /\ pending'[v] = pending[v]
         /\ checkpoint' = [v \in Consumers |-> checkpoint'[v]]
         /\ pending' = [v \in Consumers |-> pending'[v]]
         /\ Bound(checkpoint'[u]) /\ checkpoint'[u] # NoCheckpoint
         /\ Extends(checkpoint[u], checkpoint'[u].statement)
BY DEF TrustInv, ShapeInv, PendingInv, Persist

\* Persisting a pending result for the accepted statement (a replay, or a new
\* root) leaves the histories as they are.
LEMMA PersistSameStep ==
  ASSUME TrustInv, NEW u \in Consumers, Persist(u),
         checkpoint[u] # NoCheckpoint,
         checkpoint[u].statement = pending[u].statement
  PROVE  TrustInv'
<1> USE DEF TrustInv
<1>1. UNCHANGED <<now, root, rotation, accepted>> /\ rotation[u] = NoRoot
  BY DEF Persist
<1>2. TypeOK'
  BY <1>1, PersistMoves DEF TypeOK
<1>3. ShapeInv'
  <2>1. Known' = Known BY <1>1 DEF Known
  <2> QED BY <1>1, <2>1, PersistMoves DEF ShapeInv
<1>4. PendingInv'
  BY PersistMoves DEF PendingInv
<1> QED BY <1>1, <1>2, <1>3, <1>4, HistoryUndisturbed

\* Persisting a pending result for a new statement makes the history of the
\* consumer one longer and keeps it a chain, and apart from the chains it is
\* not part of.
LEMMA PersistNewStep ==
  ASSUME TrustInv, NEW u \in Consumers, Persist(u),
         ~ (checkpoint[u] # NoCheckpoint
            /\ checkpoint[u].statement = pending[u].statement)
  PROVE  TrustInv'
<1> USE DEF TrustInv
<1> DEFINE s == pending[u].statement
<1> DEFINE n == Len(accepted[u])
<1>1. /\ UNCHANGED <<now, root, rotation>> /\ rotation[u] = NoRoot
      /\ accepted' = [accepted EXCEPT ![u] = Append(@, s)]
  BY DEF Persist
<1>2. /\ Known' = Known \cup {s}
      /\ accepted' \in [Consumers -> Seq(Known')]
      /\ n \in Nat
      /\ Len(accepted'[u]) = n + 1
      /\ \A i \in 1..n : accepted'[u][i] = accepted[u][i]
      /\ accepted'[u][n + 1] = s
      /\ \A v \in Consumers \ {u} : accepted'[v] = accepted[v]
  BY <1>1, AppendKnown DEF ShapeInv
<1>3. /\ accepted'[u] # <<>>
      /\ accepted[u] = <<>> <=> n = 0
      /\ \A v \in Consumers : Len(accepted[v]) \in Nat
  <2>1. accepted'[u] \in Seq(Known') BY <1>2
  <2>2. Len(<<>>) = 0 BY EmptySeq
  <2> QED BY <1>2, <2>2, AcceptedFacts
<1>4. checkpoint[u] = NoCheckpoint <=> n = 0
  BY <1>3 DEF TypeOK
<1>5. n # 0 => checkpoint[u].statement = accepted[u][n] /\ n \in 1..n
  BY <1>2, <1>3, <1>4 DEF TypeOK
<1>6. IF accepted[u] = <<>> THEN s.previous = NoStatement
      ELSE s.previous = accepted[u][n]
  BY <1>3, <1>4, <1>5, PersistMoves DEF Extends
<1>7. n # 0 => s.version >= accepted[u][n].version
  BY <1>4, <1>5, PersistMoves DEF Extends
<1>8. Proper(s)
  BY PersistMoves DEF Bound
<1>9. TypeOK'
  <2>1. checkpoint'[u].statement = accepted'[u][Len(accepted'[u])]
    BY <1>2, PersistMoves
  <2>2. \A v \in Consumers :
           IF checkpoint'[v] = NoCheckpoint THEN accepted'[v] = <<>>
           ELSE /\ accepted'[v] # <<>>
                /\ checkpoint'[v].statement = accepted'[v][Len(accepted'[v])]
    <3>1. ASSUME NEW v \in Consumers \ {u}
          PROVE  checkpoint'[v] = checkpoint[v] /\ accepted'[v] = accepted[v]
      BY <1>2, PersistMoves
    <3>2. checkpoint'[u] # NoCheckpoint BY PersistMoves
    <3> QED BY <1>3, <2>1, <3>1, <3>2 DEF TypeOK
  <2>3. \A v \in Consumers :
           /\ rotation'[v] # NoRoot => pending'[v] # NoCheckpoint
           /\ pending'[v] # NoCheckpoint =>
                 pending'[v].root = IF rotation'[v] = NoRoot THEN root'[v]
                                    ELSE rotation'[v]
    BY <1>1, PersistMoves DEF TypeOK
  <2> QED BY <1>1, <2>2, <2>3 DEF TypeOK
<1>10. ShapeInv'
  BY <1>2, <1>8, PersistMoves DEF ShapeInv
<1>11. PendingInv'
  BY PersistMoves DEF PendingInv
<1>12. FirstInv'
  <2>1. accepted'[u][1].previous = NoStatement
    <3>1. CASE n = 0 BY <1>2, <1>3, <1>6, <3>1
    <3>2. CASE n # 0
      <4>1. 1 \in 1..n BY <1>2, <3>2
      <4> QED BY <1>2, <1>3, <3>2, <4>1 DEF FirstInv
    <3> QED BY <3>1, <3>2
  <2> QED BY <1>2, <2>1 DEF FirstInv
<1>13. AcceptedChain'
  <2>1. ASSUME NEW i \in 2..(n + 1)
        PROVE  /\ accepted'[u][i].previous = accepted'[u][i - 1]
               /\ accepted'[u][i].version >= accepted'[u][i - 1].version
    <3>1. CASE i = n + 1
      <4>1. n # 0 /\ i - 1 = n
        <5>1. n \in Nat /\ i \in 2..(n + 1) BY <1>2, <2>1
        <5> HIDE DEF n
        <5> QED BY <3>1, <5>1
      <4>2. accepted'[u][i] = s /\ accepted'[u][i - 1] = accepted[u][n]
        BY <1>2, <1>5, <3>1, <4>1
      <4> QED BY <1>3, <1>6, <1>7, <4>1, <4>2
    <3>2. CASE i # n + 1
      <4>1. i \in 2..n /\ i \in 1..n /\ i - 1 \in 1..n
        <5>1. n \in Nat /\ i \in 2..(n + 1) BY <1>2, <2>1
        <5> HIDE DEF n
        <5> QED BY <3>2, <5>1
      <4> QED BY <1>2, <4>1 DEF AcceptedChain
    <3> QED BY <3>1, <3>2
  <2>2. ASSUME NEW v \in Consumers \ {u}, NEW i \in 2..Len(accepted'[v])
        PROVE  /\ accepted'[v][i].previous = accepted'[v][i - 1]
               /\ accepted'[v][i].version >= accepted'[v][i - 1].version
    <3>1. accepted'[v] = accepted[v] BY <1>2
    <3> QED BY <2>2, <3>1 DEF AcceptedChain
  <2>3. \A v \in Consumers : \A i \in 2..Len(accepted'[v]) :
           /\ accepted'[v][i].previous = accepted'[v][i - 1]
           /\ accepted'[v][i].version >= accepted'[v][i - 1].version
    <3>1. Len(accepted'[u]) = n + 1 BY <1>2
    <3> HIDE DEF n
    <3> QED BY <2>1, <2>2, <3>1
  <2> QED BY <2>3 DEF AcceptedChain
<1>14. SplitsStaySplit'
  <2>1. ASSUME NEW v \in Consumers, NEW j \in 1..Len(accepted[v]),
               accepted[v][j] = s
        PROVE  /\ j = n + 1
               /\ \A k \in 1..n : accepted[v][k] = accepted[u][k]
    BY <1>6, <2>1, JoinsAtItsPlace
  <2>2. \A v \in Consumers :
           /\ \A i \in 1..Len(accepted[v]) : accepted'[v][i] = accepted[v][i]
           /\ \A i \in 1..Len(accepted'[v]) :
                 i \in 1..Len(accepted[v]) \/ (v = u /\ i = n + 1)
    BY <1>2, <1>3
  <2>3. ASSUME NEW v \in Consumers, NEW w \in Consumers,
               NEW i \in 1..Len(accepted'[v]), NEW j \in 1..Len(accepted'[w]),
               accepted'[v][i] = accepted'[w][j]
        PROVE  i = j /\ \A k \in 1..i : accepted'[v][k] = accepted'[w][k]
    <3>1. CASE i \in 1..Len(accepted[v]) /\ j \in 1..Len(accepted[w])
      <4>0. accepted[v][i] = accepted[w][j]
        BY <2>2, <2>3, <3>1
      <4>1. i = j /\ \A k \in 1..i : accepted[v][k] = accepted[w][k]
        BY <3>1, <4>0 DEF SplitsStaySplit
      <4>2. \A k \in 1..i : k \in 1..Len(accepted[v]) /\ k \in 1..Len(accepted[w])
        BY <1>3, <3>1, <4>1
      <4> QED BY <2>2, <4>1, <4>2
    <3>2. CASE i \notin 1..Len(accepted[v]) /\ j \in 1..Len(accepted[w])
      <4>1. v = u /\ i = n + 1 BY <2>2, <2>3, <3>2
      <4>2. accepted[w][j] = s BY <1>2, <2>2, <2>3, <3>2, <4>1
      <4>3. j = n + 1 /\ \A k \in 1..n : accepted[w][k] = accepted[u][k]
        BY <2>1, <3>2, <4>2
      <4>4. \A k \in 1..i : k = n + 1 \/ k \in 1..n
        BY <1>2, <4>1
      <4>5. \A k \in 1..n : k \in 1..Len(accepted[w])
        BY <1>3, <3>2, <4>3
      <4> QED BY <1>2, <2>2, <2>3, <4>1, <4>3, <4>4, <4>5
    <3>3. CASE i \in 1..Len(accepted[v]) /\ j \notin 1..Len(accepted[w])
      <4>1. w = u /\ j = n + 1 BY <2>2, <2>3, <3>3
      <4>2. accepted[v][i] = s BY <1>2, <2>2, <2>3, <3>3, <4>1
      <4>3. i = n + 1 /\ \A k \in 1..n : accepted[v][k] = accepted[u][k]
        BY <2>1, <3>3, <4>2
      <4>4. \A k \in 1..i : k = n + 1 \/ k \in 1..n
        BY <1>2, <4>3
      <4>5. \A k \in 1..n : k \in 1..Len(accepted[v])
        BY <1>3, <3>3, <4>3
      <4> QED BY <1>2, <2>2, <2>3, <4>1, <4>3, <4>4, <4>5
    <3>4. CASE i \notin 1..Len(accepted[v]) /\ j \notin 1..Len(accepted[w])
      <4>1. v = u /\ w = u /\ i = n + 1 /\ j = n + 1 BY <2>2, <2>3, <3>4
      <4> QED BY <4>1
    <3> QED BY <3>1, <3>2, <3>3, <3>4
  <2> QED BY <2>3 DEF SplitsStaySplit
<1> QED BY <1>9, <1>10, <1>11, <1>12, <1>13, <1>14

-----------------------------------------------------------------------------
\* Every step of the consumers and of the clock keeps the invariant.
LEMMA TrustStep == TrustInv /\ [Next]_vars => TrustInv'
<1> SUFFICES ASSUME TrustInv, [Next]_vars PROVE TrustInv'
  OBVIOUS
<1>1. CASE Tick
  <2>1. Known' = Known BY <1>1 DEF Tick, Known
  <2>2. TypeOK' BY <1>1, SnapshotTrustConstants DEF Tick, TrustInv, TypeOK
  <2>3. ShapeInv' BY <1>1, <2>1 DEF Tick, TrustInv, ShapeInv
  <2>4. PendingInv' BY <1>1 DEF Tick, TrustInv, PendingInv
  <2> QED BY <1>1, <2>2, <2>3, <2>4, HistoryUndisturbed DEF Tick, TrustInv
<1>2. ASSUME NEW u \in Consumers,
             \E s \in Statements, signers \in SignerSets, b \in Snapshots,
                current \in BOOLEAN : VerifySnapshot(u, s, signers, b, current)
      PROVE  TrustInv'
  BY <1>2, VerifySnapshotStep
<1>3. ASSUME NEW u \in Consumers, Persist(u) PROVE TrustInv'
  BY <1>3, PersistSameStep, PersistNewStep
<1>4. ASSUME NEW u \in Consumers,
             \E old, new \in Roots, window \in Windows, signers \in SignerSets :
                VerifyRootUpdate(u, old, new, window, signers)
      PROVE  TrustInv'
  BY <1>4, VerifyRootUpdateStep
<1>5. ASSUME NEW u \in Consumers, PersistRoot(u) PROVE TrustInv'
  BY <1>5, PersistRootStep
<1>6. ASSUME NEW u \in Consumers, Crash(u) PROVE TrustInv'
  BY <1>6, CrashStep
<1>7. CASE UNCHANGED vars
  <2>1. Known' = Known BY <1>7 DEF vars, Known
  <2>2. TypeOK' BY <1>7 DEF vars, TrustInv, TypeOK
  <2>3. ShapeInv' BY <1>7, <2>1 DEF vars, TrustInv, ShapeInv
  <2>4. PendingInv' BY <1>7 DEF vars, TrustInv, PendingInv
  <2> QED BY <1>7, <2>2, <2>3, <2>4, HistoryUndisturbed DEF vars, TrustInv
<1> QED BY <1>1, <1>2, <1>3, <1>4, <1>5, <1>6, <1>7 DEF Next

\* The invariant holds throughout: verify_snapshot and verify_root_update, and
\* consumers that persist in the documented order, whatever is delivered to
\* them and wherever they are interrupted.
THEOREM TrustInvariant == Spec => []TrustInv
<1>1. TrustInv /\ [Next]_vars => TrustInv'
  BY TrustStep
<1> QED BY TrustInit, <1>1, PTL DEF Spec

\* A pinned root, a checkpoint for the statement accepted last, and a pending
\* result bound to the root it will be used with (next_checkpoint of
\* verify_root_update names the new root, of verify_snapshot the pinned one).
THEOREM TypeCorrect == Spec => []TypeOK
<1>1. TrustInv => TypeOK BY DEF TrustInv
<1> QED BY TrustInvariant, <1>1, PTL

\* The statements a consumer has accepted form one chain, and root versions
\* in it never go back (the ordering checks of verify_snapshot, the version
\* check of verify_root_update).
THEOREM AcceptedChainHolds == Spec => []AcceptedChain
<1>1. TrustInv => AcceptedChain BY DEF TrustInv
<1> QED BY TrustInvariant, <1>1, PTL

\* Consumers that accepted a common statement accepted the same ones before
\* it: a publisher that shows two histories can never join them again.
THEOREM SplitsStaySplitHolds == Spec => []SplitsStaySplit
<1>1. TrustInv => SplitsStaySplit BY DEF TrustInv
<1> QED BY TrustInvariant, <1>1, PTL

\* No step replaces a checkpoint by an earlier publication or by another
\* statement of the same publication, including the steps of a root update
\* and those after an interruption.
THEOREM NoRollbackHolds == Spec => NoRollback
<1> DEFINE Kept(u) ==
      checkpoint[u] # NoCheckpoint =>
         /\ checkpoint'[u] # NoCheckpoint
         /\ \/ checkpoint'[u].statement = checkpoint[u].statement
            \/ checkpoint'[u].statement.publication
                  > checkpoint[u].statement.publication
<1>1. TrustInv /\ [Next]_vars => [\A u \in Consumers : Kept(u)]_vars
  <2> SUFFICES ASSUME TrustInv, Next, NEW u \in Consumers PROVE Kept(u)
    OBVIOUS
  <2>1. CASE Tick
    BY <2>1 DEF Tick
  <2>2. ASSUME NEW v \in Consumers,
               \/ \E s \in Statements, signers \in SignerSets, b \in Snapshots,
                     current \in BOOLEAN :
                     VerifySnapshot(v, s, signers, b, current)
               \/ \E old, new \in Roots, window \in Windows,
                     signers \in SignerSets :
                     VerifyRootUpdate(v, old, new, window, signers)
               \/ PersistRoot(v)
               \/ Crash(v)
        PROVE  Kept(u)
    BY <2>2 DEF VerifySnapshot, VerifyRootUpdate, PersistRoot, Crash
  <2>3. ASSUME NEW v \in Consumers, Persist(v) PROVE Kept(u)
    <3>1. CASE u = v
      BY <2>3, <3>1, PersistMoves DEF Extends
    <3>2. CASE u # v
      <4>1. checkpoint'[u] = checkpoint[u] BY <2>3, <3>2, PersistMoves
      <4> QED BY <4>1
    <3> QED BY <3>1, <3>2
  <2> QED BY <2>1, <2>2, <2>3 DEF Next
<1> QED BY TrustInvariant, <1>1, PTL DEF Spec, NoRollback
=============================================================================
