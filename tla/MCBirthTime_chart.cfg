CONSTANTS
    LeapDays <- MCLeapDays
    DeltaT <- MCDeltaT
    Walked <- MCWalked
    BirthYears <- Modern
    Hours = {0, 6, 12, 23}
    Zones <- MCZones
    LastYear = 10000
SPECIFICATION Spec
INVARIANTS ChartKeepsInstant
CHECK_DEADLOCK FALSE
