----------------------------- MODULE Selections -----------------------------
(***************************************************************************)
(* Iterator::filter and Array.prototype.filter: the entries of a sequence  *)
(* that belong to a set, in their order.  It is SelectSeq with a set in    *)
(* place of the test and with the recursion in sight, so that it can be    *)
(* reasoned about.                                                         *)
(***************************************************************************)
EXTENDS Integers, Sequences

Filtered(s, T) ==
  LET upTo[i \in 0 .. Len(s)] ==
        IF i = 0 THEN <<>>
        ELSE IF s[i] \in T THEN Append(upTo[i - 1], s[i]) ELSE upTo[i - 1]
  IN  upTo[Len(s)]
=============================================================================
