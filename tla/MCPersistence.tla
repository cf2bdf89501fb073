--------------------------- MODULE MCPersistence ---------------------------
EXTENDS Persistence

Symmetry == Permutations(Tabs) \cup Permutations(Sessions)
=============================================================================
