-------------------------- MODULE MCSnapshotTrust --------------------------
(***************************************************************************)
(* Instances of SnapshotTrust for TLC: two snapshot keys and one recovery  *)
(* key; the second root drops a snapshot key and raises the floor, the     *)
(* third cannot meet its own threshold.                                    *)
(***************************************************************************)
EXTENDS SnapshotTrust, TLC

CONSTANTS u1, u2, good, bad, p1, ka, kb, kc

Key(id, role, from, through) ==
    [id |-> id, role |-> role, from |-> from, through |-> through]

Root1 == [version |-> 1, publisher |-> p1, min |-> 1, lifetime |-> 2, skew |-> 0,
          threshold |-> [snapshot |-> 2, recovery |-> 1],
          keys |-> {Key(ka, "snapshot", 1, 3), Key(kb, "snapshot", 1, 3),
                    Key(kc, "recovery", 1, 3)}]
Root2 == [Root1 EXCEPT !.version = 2, !.min = 2, !.threshold["snapshot"] = 1,
                       !.keys = {Key(kb, "snapshot", 2, 3), Key(kc, "recovery", 1, 3)}]
BadRoot == [Root2 EXCEPT !.threshold["snapshot"] = 2]

MCRoots == {Root1, Root2, BadRoot}
MCFirstRoots == {Root1, Root2}
MCSignerSets == {{ka, kb}, {kb}, {kc}}
MCWindows == {<<0, 1>>, <<0, 2>>}

Symmetry == Permutations(Consumers)
=============================================================================
