\* Rounds of ControlSystem with every failure of the way to the server.
CONSTANTS
    IntHalf = 8
    NumRetries = 2
    Posts <- MCPosts
    GarbageModes <- MCGarbageModes
    GarbageCodes = {7}
    GarbageBehaviors = {0}
    Reporters = {"LightsGPIO"}
    EventCodes = {260, 1025}
SPECIFICATION FairSpec
INVARIANT TypeOK
PROPERTIES
    ImplementsPolling
    ReportsAreGenuine
    RoundsGoOn
    ModeReachesController
    CodesReachServer
