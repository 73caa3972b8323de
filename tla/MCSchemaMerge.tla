--------------------------- MODULE MCSchemaMerge ----------------------------
EXTENDS SchemaMerge, TLC

Symmetry == Permutations(Names) \cup Permutations(Keys) \cup Permutations(Atoms)
=============================================================================
