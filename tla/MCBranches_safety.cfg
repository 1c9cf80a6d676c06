SPECIFICATION Spec
CONSTANTS
  Req = {r1, r2}
  Branch = {b0, b1, b2}
  FirstBranch = b0
  Chair = {c1, c2}
  Label = {l1, l2}
  Owner = {owner}
  Manager = {manager}
  None = none
  MaxRequests = 3
SYMMETRY Symmetry
CHECK_DEADLOCK FALSE
INVARIANTS TypeOK SerialDeletionRules
PROPERTIES NeverRevived
