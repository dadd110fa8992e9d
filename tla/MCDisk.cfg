SPECIFICATION FairSpec
CONSTANTS
  dd_sectors <- MCSectors
  NUMTRACKS = 2
  dd_totsectors = 3
  MAX_WORKTRIES = 4
  Data = {old, new}
  Doom = 3
INVARIANTS TypeOK OneEvent DoomHalts
PROPERTIES ImplementsStore Completes
CHECK_DEADLOCK FALSE
