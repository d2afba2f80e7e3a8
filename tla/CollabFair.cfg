SPECIFICATION FairSpec
CONSTANTS
  Requests = {r1, r2}
  None = None
  Users <- MCUsers
  Writers <- MCWriters
  Keys <- MCKeys
  Commands <- AllWrites
PROPERTIES EveryRequestEnds
CHECK_DEADLOCK FALSE
