--------------------------- MODULE MCDeviceServer ---------------------------
(***************************************************************************)
(* DeviceServer for TLC: two threads, two devices, every combination of    *)
(* message fields.                                                         *)
(***************************************************************************)
EXTENDS DeviceServer, TLC

Symmetry == Permutations(Handlers) \cup Permutations(Known)
              \cup Permutations(Nonces)
=============================================================================
