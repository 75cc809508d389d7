----------------------------- MODULE MCWorkspace -----------------------------
(* An instance of Workspace for TLC: two captures of one finding, one of which came with
   viewport facts and the other with field notes, and the capture of a promotion. *)
EXTENDS Workspace, TLC

MCCaptures ==
  {[name |-> "plain", finding |-> "f", files |-> [a \in {"state", "facts"} |-> 1]],
   [name |-> "noted", finding |-> "f", files |-> [a \in {"state", "notes"} |-> 1]]}

MCDerived == [name |-> "derived", finding |-> "d", files |-> [a \in {"state"} |-> 2]]

Symmetry == Permutations(Process)

=============================================================================
