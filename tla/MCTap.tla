------------------------------- MODULE MCTap -------------------------------
(* An instance of Tap for TLC: a frame of an HTTP request, with a VLAN tag *)
(* and IPv4 options, and a foreign one that differs from it in one byte.   *)
(* Port 8081 is <<31, 145>>.                                               *)
EXTENDS Tap, TLC

CONSTANTS own, foreign

Zeros(n) == [i \in 1 .. n |-> 0]
FrameOf(protocol) ==
  Zeros(12) \o <<129, 0, 0, 1>> \o <<8, 0, 70>> \o Zeros(8) \o <<protocol>> \o Zeros(14)
    \o <<0, 80, 31, 145>> \o Zeros(16)

MCBytes == own :> FrameOf(6) @@ foreign :> FrameOf(17)
=============================================================================
