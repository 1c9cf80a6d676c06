------------------------------ MODULE MCBranches ------------------------------
(* Instances of Branches for TLC.                                          *)
EXTENDS Branches, TLC

Symmetry ==
  Permutations(Req) \cup Permutations(Branch \ {FirstBranch})
    \cup Permutations(Chair) \cup Permutations(Label)
=============================================================================
