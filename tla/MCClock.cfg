SPECIFICATION Spec
CONSTANTS
  NSECS_PER_CLOCK = 2
  ROTOR = 2
  MAXRUN = 3
  MAXACTIONS = 3
  MinSleep = 2
  Delays = {0, 3, 7}
  MaxSleep = 3
  MaxSteps = 2
  Tags = {FALSE}
  Debugger = TRUE
INVARIANTS TypeOK QueueSorted NoUnderflow OnTime LateByAtMostARun
CHECK_DEADLOCK FALSE
