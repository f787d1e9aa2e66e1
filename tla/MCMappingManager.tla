-------------------------- MODULE MCMappingManager --------------------------
(* Model values for MappingManager: two contents tell an old mapping from  *)
(* a new one, and one number more than there is room for.                  *)
EXTENDS MappingManager, TLC

CONSTANTS d1, d2

MCData == {d1, d2}
DataSymmetry == Permutations(MCData)
=============================================================================
