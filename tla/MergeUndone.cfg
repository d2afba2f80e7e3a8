SPECIFICATION Spec
CONSTANTS
  Requests = {r1, r2}
  None = None
  Users <- MCUsers
  Writers <- MCWriters
  Keys <- MCKeys
  Commands <- PullWrites
PROPERTIES MergeIsNotUndone
CHECK_DEADLOCK FALSE
