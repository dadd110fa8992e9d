\* Two CPUs, one device slot and the controller's own slot.
CONSTANTS
    NCPUS = 2
    Slot = {dev, ctl}
    ControllerSlot = ctl
    IsOld = FALSE
SPECIFICATION Spec
INVARIANTS TypeOK LinesInStep RunningMaskExact NoLostWakeup
PROPERTIES OnlyCpueStarts WakeupHasCause ImplementsLines
CHECK_DEADLOCK FALSE
