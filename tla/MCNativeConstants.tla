-------------------------- MODULE MCNativeConstants --------------------------
(* NativeConstants over interchangeable packets. *)
EXTENDS NativeConstants, TLC

PacketSymmetry == Permutations(Packets)

=============================================================================
