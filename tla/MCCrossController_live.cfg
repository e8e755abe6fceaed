\* Liveness under Fairness; the monitor forgets denied requests.
CONSTANTS
    DenyRollsBack = TRUE
    Schedules <- MCLiveSchedules
SPECIFICATION FairSpec
PROPERTIES
    ScheduleAnswered
    RequestResolved
    SteadyRegulatedCycles
