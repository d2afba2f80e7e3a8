SPECIFICATION FairSpec
CONSTANTS
  r1 = r1
  r2 = r2
  c1 = c1
  c2 = c2
  Readers = {r1, r2}
  Callbacks = {c1, c2}
  Crowds <- BothCrowds
  Outages = TRUE
  None = None
INVARIANTS TypeOK StoredIsUsable
PROPERTIES OneIdentity RotatedIsNotStored SignInHasAReason RotationsAreStored
CHECK_DEADLOCK FALSE
