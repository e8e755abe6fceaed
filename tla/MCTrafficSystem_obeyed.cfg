\* The way to the server never fails, and a round takes as long as its sleeps.
CONSTANTS
    IntHalf = 2
    NumRetries = 1
    Posts <- MCPosts
    GarbageModes <- MCGarbageModes
    GarbageCodes = {7}
    GarbageBehaviors = {0}
    DenyRollsBack = TRUE
SPECIFICATION FairSpec
ACTION_CONSTRAINT NetworkIsPerfect
PROPERTY OperatorObeyed
