---------------------------- MODULE MCRemoteRpc ----------------------------
(* Instances of RemoteRpc for TLC. *)
EXTENDS RemoteRpc

CONSTANTS s1, s2

OneSlot == {s1}
TwoSlots == {s1, s2}
=============================================================================
