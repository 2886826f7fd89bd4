------------------------------ MODULE MCPolicy ------------------------------
(* Instances of Policy for TLC, with one edit. *)
EXTENDS Policy

MCEdits == {[enabled |-> 1]}
=============================================================================
