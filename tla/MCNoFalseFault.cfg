SPECIFICATION Spec
CONSTANTS
  dd_sectors <- MCSectors
  NUMTRACKS = 2
  dd_totsectors = 3
  MAX_WORKTRIES = 4
  Data = {old, new}
  Doom = 0
INVARIANTS NoFalseFault
CHECK_DEADLOCK FALSE
