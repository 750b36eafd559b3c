-------------------------- MODULE MCWorkspaceView --------------------------
(***************************************************************************)
(* TLC instance of WorkspaceView: one session, whose history outgrows a    *)
(* snapshot.                                                               *)
(***************************************************************************)
EXTENDS WorkspaceView

CONSTANTS v1, q1
=============================================================================
