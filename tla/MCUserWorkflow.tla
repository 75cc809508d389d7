---------------------------- MODULE MCUserWorkflow ----------------------------
(* Instances of UserWorkflow for TLC. *)
EXTENDS UserWorkflow

=============================================================================
