\* An honest client in front of a monitor that forgets denied requests.
CONSTANTS
    DenyRollsBack = TRUE
    Messages <- MCHonestMessages
    EventCodes = {1}
SPECIFICATION Spec
INVARIANTS
    TypeOK
    NoTrap
    MonitorInStep
    ReportInStep
    PolicyIsExact
PROPERTY ImplementsIntersection
