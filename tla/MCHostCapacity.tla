--------------------------- MODULE MCHostCapacity ---------------------------
(***************************************************************************)
(* An instance of HostCapacity for TLC: two devices, one of which grows,   *)
(* with enough space, too little, or so little of so much that it reads as *)
(* full.                                                                   *)
(***************************************************************************)
EXTENDS HostCapacity

Disk(device, total, available) ==
    [device |-> device, total |-> total, available |-> available]

MCSamples == {Disk(1, 4, 3), Disk(1, 9, 3), Disk(1, 9, 1), Disk(2, 4, 3)}
MCSteps == {-1, 1}
=============================================================================
