CONSTANTS
    N = 4
    Blank = {2}
    MaxFaults = 3
    Starts = {0, 1, 4}
    MaxDrains = 3
    DrainBound = 5
SPECIFICATION BothSpec
INVARIANTS CursorSound ReturnsAfterCompletion
PROPERTIES ImplementsDelivery WaitEnds DeadlineEndsWait
CHECK_DEADLOCK FALSE
