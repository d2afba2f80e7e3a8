SPECIFICATION Spec
CONSTANTS
  Names <- MCNames
  Spelled <- MCSpelled
  Branch = "main"
  Tree <- MCTree
  Entries <- MCEntries
  MaxLogins = 2
  None = None
INVARIANTS TypeOK BlankPagesAreKnown  CookieIsLive
PROPERTIES RepositoryLinksKeepTheName SignedInAtDashboard
CHECK_DEADLOCK FALSE
