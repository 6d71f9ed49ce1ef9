----------------------------- MODULE MCLauncher -----------------------------
(* Instances of Launcher for TLC. *)
EXTENDS Launcher

CONSTANTS a1, b1

OneBefore == {a1}
OneAfter == {b1}
None == {}
AllModes == {"immediate", "activate-only", "serve"}
Foreground == {"immediate", "activate-only"}
=============================================================================
