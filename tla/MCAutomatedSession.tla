-------------------------- MODULE MCAutomatedSession --------------------------
(* Instances of AutomatedSession for TLC. *)
EXTENDS AutomatedSession

=============================================================================
