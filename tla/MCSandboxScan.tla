--------------------------- MODULE MCSandboxScan ---------------------------
(***************************************************************************)
(* Instances of SandboxScan for TLC.                                       *)
(***************************************************************************)
EXTENDS SandboxScan

CONSTANTS e1    \* the name of a credential
=============================================================================
