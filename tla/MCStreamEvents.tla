--------------------------- MODULE MCStreamEvents ---------------------------
(* Instances of StreamEvents for TLC. *)
EXTENDS StreamEvents
=============================================================================
