------------------------------ MODULE MCOutbox ------------------------------
(* Instances of Outbox for TLC: symmetry for the safety runs.              *)
EXTENDS Outbox, TLC

Symmetry == Permutations(Event) \cup Permutations(Instance)
=============================================================================
