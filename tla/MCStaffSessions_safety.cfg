SPECIFICATION Spec
CONSTANTS
  Req = {r1, r2}
  Session = {s1, s2, s3}
  Code = {c1, c2}
  User = user
  None = none
  MaxPassword = 3
  MaxParams = 1
  MaxRequests = 5
SYMMETRY Symmetry
CHECK_DEADLOCK FALSE
INVARIANTS TypeOK RotatedTokenDead UsedCodeDead NoCircularWait
PROPERTIES ResetRevokesEarlier StoreSpec
