---------------------------- MODULE MCDeviceFlow ----------------------------
(* Small instances of DeviceFlow for TLC. *)
EXTENDS DeviceFlow, TLC

Symmetry == Permutations(People)
=============================================================================
