--------------------------- MODULE MCVerdictRing ---------------------------
(* Instances of VerdictRing for TLC. *)
EXTENDS VerdictRing, TLC

ConnSymmetry == Permutations(Conns)

(* A request to the daemon over IPv6, and an event that is almost one. *)
MCTraffic ==
  {[addr_family |-> 6, protocol |-> 6, src_port |-> "any", dst_port |-> "own"],
   [addr_family |-> 4, protocol |-> 17, src_port |-> "any", dst_port |-> "own"]}
=============================================================================
