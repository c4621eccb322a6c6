--------------------------- MODULE MCMasterManager ---------------------------
(* Instances of MasterManager with model values for ids and slaves.          *)
EXTENDS MasterManager, TLC

Symmetry == Permutations(Ids) \cup Permutations(Slaves)
=============================================================================
