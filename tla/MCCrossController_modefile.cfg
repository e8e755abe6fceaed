CONSTANTS
    DenyRollsBack = TRUE
    Schedules <- MCSchedules
SPECIFICATION Spec
PROPERTY ModeFileShowsMode
