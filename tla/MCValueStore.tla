---------------------------- MODULE MCValueStore ----------------------------
EXTENDS ValueStore, TLC

Symmetry ==
  Permutations(Variables) \cup Permutations(Values) \cup Permutations(Holders)
=============================================================================
