SPECIFICATION Spec
CONSTANTS
  Attempt = {a1, a2, a3, a4}
  None = none
  MaxFaults = 1
SYMMETRY Symmetry
CHECK_DEADLOCK FALSE
INVARIANTS TypeOK ExecutedOnce ReplayIsReal ClaimHasOwner
