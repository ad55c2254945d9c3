CONSTANTS
    Start <- Starts
    LockTime = {0}
    Drift = {0}
    PassTime = {0}
    Shift <- Backward
    ShiftTime <- Night
    Horizon <- FiveDays
SPECIFICATION Spec
PROPERTIES
    EveryDayOnce
CHECK_DEADLOCK FALSE
