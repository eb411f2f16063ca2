-------------------------- MODULE MCDocumentJobs --------------------------
(* DocumentJobs for TLC.                                                   *)
EXTENDS DocumentJobs, TLC

JobSymmetry == Permutations(Jobs)
============================================================================
