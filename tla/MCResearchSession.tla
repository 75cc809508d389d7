-------------------------- MODULE MCResearchSession --------------------------
(* Instances of ResearchSession for TLC. *)
EXTENDS ResearchSession

=============================================================================
