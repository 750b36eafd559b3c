---------------------- MODULE MCWorkspaceObservations ----------------------
(***************************************************************************)
(* Instances of WorkspaceObservations for TLC: an audited workspace wa and *)
(* a guest's workspace wg.                                                 *)
(***************************************************************************)
EXTENDS WorkspaceObservations

CONSTANTS wa, wg
============================================================================
