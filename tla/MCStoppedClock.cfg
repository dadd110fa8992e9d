SPECIFICATION Spec
CONSTANTS
  NSECS_PER_CLOCK = 2
  ROTOR = 2
  MAXRUN = 3
  MAXACTIONS = 2
  MinSleep = 2
  Delays = {1, 5}
  MaxSleep = 2
  MaxSteps = 1
  Tags = {FALSE, TRUE}
  Debugger = TRUE
INVARIANTS StoppedClockStands
CHECK_DEADLOCK FALSE
