------------------------------ MODULE Release ------------------------------
(***************************************************************************)
(* What every exclusive output of this repository promises, whichever      *)
(* command writes it: a name holds nothing or one whole value, that value  *)
(* was granted for that name before it appeared there, and it never        *)
(* changes afterwards.  TargetScan and RefreshCandidate implement this     *)
(* specification, each with its own names, values and grants.              *)
(***************************************************************************)
CONSTANTS
    Names,      \* the names of outputs
    Nothing     \* the name is free

VARIABLES
    granted,    \* pairs <<name, value>> that may be released
    store       \* store[n]: the value under name n, or Nothing

Init ==
    /\ granted = {}
    /\ store = [n \in Names |-> Nothing]

\* Approvals, scans or authorizations are recorded; none is withdrawn.
Grant ==
    /\ granted \subseteq granted'
    /\ granted' # granted
    /\ UNCHANGED store

\* A granted value takes a free name.
Put(n) ==
    /\ store[n] = Nothing
    /\ store'[n] # Nothing
    /\ <<n, store'[n]>> \in granted
    /\ store' = [store EXCEPT ![n] = store'[n]]
    /\ UNCHANGED granted

Next == Grant \/ \E n \in Names : Put(n)

Spec == Init /\ [][Next]_<<granted, store>>
=============================================================================
