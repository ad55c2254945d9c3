CONSTANTS
    Start <- Starts
    LockTime <- LockTimes
    Drift <- Drifts
    PassTime <- PassTimes
    Shift <- ForwardShifts
    ShiftTime <- ShiftTimes
    Horizon <- FiveDays
SPECIFICATION Spec
INVARIANTS
    TypeOK
PROPERTIES
    EveryDayOnce
    NotBeforeFour
CHECK_DEADLOCK FALSE
