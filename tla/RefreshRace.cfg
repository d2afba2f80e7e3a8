SPECIFICATION Spec
CONSTANTS
  r1 = r1
  r2 = r2
  c1 = c1
  c2 = c2
  Readers = {r1, r2}
  Callbacks = {c1}
  Crowds <- ReadersOnly
  Outages = FALSE
  None = None
PROPERTIES ValidAuthorizationIsUsed
CHECK_DEADLOCK FALSE
