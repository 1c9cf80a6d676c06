SPECIFICATION FairSpec
CONSTANTS
  c1 = c1
  c2 = c2
  u1 = u1
  s1 = s1
  Creates = {c1, c2}
  Updates = {u1}
  Streams = {s1}
  Keyed = {c2, u1}
  Traffic <- SomeTraffic
  Tick = {t1, t2}
  PoolSize = 2
  Owner = Owner
  Custom = {ro1, ro2}
  Perm = {"queue:view"}
  None = None
  MaxChanges = 2
CHECK_DEADLOCK FALSE
INVARIANTS TypeOK AllowedHadRight SecondSalonByOverlap ListenersHaveClients
PROPERTIES RequestsServed RevokedStreamEnds
