\* The power-off path: one CPU and the controller's slot next to a device's.
CONSTANTS
    NCPUS = 1
    Slot = {dev, ctl}
    ControllerSlot = ctl
    IsOld = FALSE
SPECIFICATION FairSpec
PROPERTIES PowersOff
CHECK_DEADLOCK FALSE
