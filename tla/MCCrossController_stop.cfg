CONSTANTS
    DenyRollsBack = TRUE
    Schedules <- MCSchedules
SPECIFICATION Spec
INVARIANT TimerStopsOnRequest
