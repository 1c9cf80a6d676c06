--------------------------- MODULE MCCustomerAuth ---------------------------
(* Instance of CustomerAuth for TLC.                                       *)
EXTENDS CustomerAuth, TLC

Symmetry ==
  Permutations(Req) \cup Permutations(Customer) \cup Permutations(Code)
    \cup Permutations(Session)
=============================================================================
