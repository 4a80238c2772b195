SPECIFICATION ViewsSpec
CONSTANTS
    Manifests <- AliasManifests
    NoView = NoView
    MaxTries = 1
    MaxExecutions = 1
INVARIANT AliasIsOwnUpstream
CHECK_DEADLOCK FALSE
