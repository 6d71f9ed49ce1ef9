------------------------------- MODULE MCTopics -------------------------------
EXTENDS Topics, TLC

\* Connections, topics and names are alike.
Symmetry == Permutations(Conns) \cup Permutations(PduKeys) \cup Permutations(Names)
=============================================================================
