CONSTANTS
    LeapDays <- MCLeapDays
    DeltaT <- MCDeltaT
    Walked <- MCWalked
    BirthYears <- MCBirthYears
    Hours = {0, 6, 12, 23}
    Zones <- MCZones
    LastYear = 10000
SPECIFICATION Spec
INVARIANTS DaysAreCounted UtcIsOneToOne TransitKeepsInstant
CHECK_DEADLOCK FALSE
