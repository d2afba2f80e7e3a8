SPECIFICATION Spec
CONSTANTS
  Requests = {r1, r2, r3}
  None = None
  Users <- MCUsers
  Writers <- MCWriters
  Keys <- MCKeys
  Commands <- AllWrites
SYMMETRY Symmetry
INVARIANTS TypeOK NumbersAreDense EffectsAreRecorded AnswersAreRecorded MergesAreRecorded CommentsAreNotOvercounted DatesAgreeWithState
PROPERTIES ImplementsIdempotentCommands
CHECK_DEADLOCK FALSE
