\* The same instance, asked what an answer to GetTrafficMode holds.
CONSTANTS
    IntHalf = 8
    NumRetries = 2
    Posts <- MCPosts
    GarbageModes <- MCGarbageModes
    GarbageCodes = {7}
    GarbageBehaviors = {0}
    Reporters = {"LightsGPIO"}
    EventCodes = {260, 1025}
SPECIFICATION Spec
INVARIANT ModeIsOneOfThree
