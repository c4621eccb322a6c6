----------------------------- MODULE MCProcessor -----------------------------
(* Instances of Processor with directories as model values.                  *)
EXTENDS Processor, TLC

Symmetry == Permutations(Dirs)
=============================================================================
