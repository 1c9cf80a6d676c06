SPECIFICATION Spec
CONSTANTS
  Req = {r1, r2}
  Customer = {c1, c2}
  Code = {k1, k2, k3}
  Session = {s1, s2}
  Email = text
  Phone = text
  None = none
  MaxRequests = 5
SYMMETRY Symmetry
CHECK_DEADLOCK FALSE
INVARIANTS TypeOK OneAccountPerColumn NotLockedOut NoCircularWait
