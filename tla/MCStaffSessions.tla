--------------------------- MODULE MCStaffSessions ---------------------------
(* Instances of StaffSessions for TLC.                                     *)
EXTENDS StaffSessions, TLC

Symmetry == Permutations(Req) \cup Permutations(Session) \cup Permutations(Code)
=============================================================================
