\* Expected to fail: see the findings.
CONSTANTS
    NCPUS = 2
    Slot = {dev, ctl}
    ControllerSlot = ctl
    IsOld = FALSE
SPECIFICATION Spec
INVARIANT NoLostTimerWakeup
CHECK_DEADLOCK FALSE
