------------------------ MODULE MCProviderSession ------------------------
(* ProviderSession for TLC.                                              *)
EXTENDS ProviderSession

IdSymmetry == Permutations(Ids)
============================================================================
