SPECIFICATION SequentialSpec
CONSTANTS
  Requests = {r1, r2, r3}
  None = None
  Users <- MCUsers
  Writers <- MCWriters
  Keys <- MCKeys
  Commands <- Writes
SYMMETRY Symmetry
PROPERTIES ConditionalWrite MergeIsNotUndone ReuseIsAnswered
CHECK_DEADLOCK FALSE
