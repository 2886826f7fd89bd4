---------------------------- MODULE MCPacketList ----------------------------
(* Instances of PacketList for TLC. *)
EXTENDS PacketList
CONSTANT f
MCFlowOf == <<None, f>>
MCVFlowOf == <<f, f>>
MCTime == <<1, 3>>
MCVTime == <<0, 2>>
MCFilters == {{}, {f}}
=============================================================================
