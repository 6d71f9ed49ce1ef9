-------------------------- MODULE MCLauncherSession --------------------------
EXTENDS LauncherSession, TLC

\* Ports are alike.
Symmetry ==  Permutations(Ports)
=============================================================================
