---------------------------- MODULE MCAppState ----------------------------
(* AppState on two identifiers, one model and one configuration.           *)
EXTENDS AppState, TLC

IdSymmetry == Permutations(Ids)
============================================================================
