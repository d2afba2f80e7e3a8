SPECIFICATION FairSpec
CONSTANTS
  main = main
  trunk = trunk
  Branches <- Changing
  RepositoryFailures = {"missing", "failed"}
  TreeFailures = {"failed"}
  None = None
INVARIANTS TypeOK TreeIsOfDefaultBranch
PROPERTIES ShownStaysShown RequestsEnd LoadingEndsWithRepository
CHECK_DEADLOCK FALSE
