\* All interleavings of the two threads of CrossController, LightsGPIO and
\* Diagnostics, with a monitor that forgets denied requests.
CONSTANTS
    DenyRollsBack = TRUE
    Schedules <- MCSchedules
SPECIFICATION Spec
INVARIANTS
    TypeOK
    ControllerInStep
    BehaviorMatchesMode
    PhaseClock
    NoCircularWait
    TurnSettlesRequest
PROPERTIES
    PhaseNotCutShort
    LightsFollowRequest
    CycleNeverRefused
    ImplementsSecuredLights
    ImplementsIntersection
