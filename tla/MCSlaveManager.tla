--------------------------- MODULE MCSlaveManager ---------------------------
(* Instances of SlaveManager with model values for ids, URIs and addresses.  *)
EXTENDS SlaveManager, TLC

Symmetry == Permutations(Names) \cup Permutations(Wrappers)
=============================================================================
