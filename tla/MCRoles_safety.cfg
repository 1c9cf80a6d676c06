SPECIFICATION Spec
CONSTANTS
  Req = {r1, r2}
  User = {u1, u2}
  Role = {x, y}
  Seeded = x
  Owner = ownerRole
  Manager = managerRole
  Perm = {"role:assign"}
  Name = {n1, n2}
  SeededName = n1
  None = none
  MaxRequests = 3
SYMMETRY Symmetry
CHECK_DEADLOCK FALSE
INVARIANTS TypeOK SerialMemberRules
PROPERTIES DeletedForGood
