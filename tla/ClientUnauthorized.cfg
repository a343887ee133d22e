SPECIFICATION Spec
CONSTANTS
    Calls = {c1}
    Args <- MCArgs
    Configs <- MCEdgeConfigs
    Responses <- MCResponses
    MaxToken = 3
    AttestTimeout = 1
    HoldMargin = 1
    Second = 2
INVARIANT UnauthorizedMeansRetried
