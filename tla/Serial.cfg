SPECIFICATION FairSpec
CONSTANTS
  SilenceLimit = 1
  Calm = TRUE
  Consoles <- MCConsoles
INVARIANTS
  TypeOK
  AnswersOwn
  NoneInvented
PROPERTIES
  Reconnects
  Recovers
