SPECIFICATION Spec
CONSTANTS
  Refs <- MCRefs
  None = None
INVARIANTS TypeOK WhatExistsCanBeAsked ServedCanBeAsked AnswersAreAsked
CHECK_DEADLOCK FALSE
