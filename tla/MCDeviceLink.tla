--------------------------- MODULE MCDeviceLink ---------------------------
(* Instances of DeviceLink for TLC. *)
EXTENDS DeviceLink
=============================================================================
