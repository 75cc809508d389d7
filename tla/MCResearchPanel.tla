---------------------------- MODULE MCResearchPanel ----------------------------
(* Instances of ResearchPanel for TLC. *)
EXTENDS ResearchPanel, TLC

\* No form of the panel is special.
Forms == Permutations(Form)
=============================================================================
