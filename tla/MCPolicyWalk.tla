---------------------------- MODULE MCPolicyWalk ----------------------------
(* Instances of PolicyWalk for TLC: two edits that share one value name. *)
EXTENDS PolicyWalk, TLC

MCEdits == {[enabled |-> 0, priority |-> 1], [enabled |-> 1]}

PolicySymmetry == Permutations(Names) \cup Permutations(Threads)
=============================================================================
