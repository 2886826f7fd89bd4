-------------------------- MODULE MCViewerRestart --------------------------
(* Instances of ViewerRestart for TLC. *)
EXTENDS ViewerRestart
=============================================================================
