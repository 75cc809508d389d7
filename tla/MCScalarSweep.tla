---------------------------- MODULE MCScalarSweep ----------------------------
(* Instances of ScalarSweep for TLC. *)
EXTENDS ScalarSweep

=============================================================================
