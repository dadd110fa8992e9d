SPECIFICATION FairSpec
CONSTANTS
  NSECS_PER_CLOCK = 2
  ROTOR = 2
  MAXRUN = 3
  MAXACTIONS = 3
  MinSleep = 1
  Delays = {0, 2}
  MaxSleep = 1
  MaxSteps = 1
  Tags = {FALSE, TRUE}
  Debugger = TRUE
PROPERTIES Dispatched
CHECK_DEADLOCK FALSE
