SPECIFICATION FairSpec
CONSTANTS
    Calls = {c1}
    Args <- MCArgs
    Configs <- MCConfigs
    Responses <- MCResponses
    MaxToken = 3
    AttestTimeout = 1
    HoldMargin = 1
    Second = 2
PROPERTIES
    ImplementsContract
    EveryCallReturns
