\* The whole system and its clock; anything may fail on the way to the server.
CONSTANTS
    IntHalf = 2
    NumRetries = 1
    Posts <- MCPosts
    GarbageModes <- MCGarbageModes
    GarbageCodes = {7}
    GarbageBehaviors = {0}
    DenyRollsBack = TRUE
SPECIFICATION FairSpec
VIEW WhatIsRead
INVARIANTS
    TypeOK
    MutexFreeInSleep
    NoScheduleOverlooked
PROPERTIES
    NoFlicker
    ImplementsRounds
    ImplementsCrossing
    SchedulingIsFair
    ReportIsFresh
    OwnReportFits
    ObeyedOrRefused
