SPECIFICATION FairSpec
CONSTANTS
  main = main
  trunk = trunk
  Branches <- Fixed
  RepositoryFailures = {"missing"}
  TreeFailures = {}
  None = None
PROPERTIES LoadingEnds
CHECK_DEADLOCK FALSE
