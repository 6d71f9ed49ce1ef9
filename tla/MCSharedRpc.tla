---------------------------- MODULE MCSharedRpc ----------------------------
(* Instances of SharedRpc for TLC. *)
EXTENDS SharedRpc

CONSTANTS c1, t1, t2, p1, p2

OneClient == {c1}
TwoCallers == {t1, t2}
OnePoller == {p1}
TwoPollers == {p1, p2}
=============================================================================
