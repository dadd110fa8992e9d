SPECIFICATION FairSpec
CONSTANTS
  INBUF_SIZE = 3
  NumChars = 4
  Pool = 3
INVARIANTS TypeOK NoStrandedInput EventsCounted IrqIsOr
PROPERTIES InOrder InputDrains
CHECK_DEADLOCK FALSE
