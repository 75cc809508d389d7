----------------------------- MODULE MCAsyncJobs -----------------------------
(***************************************************************************)
(* AsyncJobs on a small instance for TLC.                                   *)
(***************************************************************************)
EXTENDS AsyncJobs, TLC

JobSymmetry == Permutations(Job)

=============================================================================
