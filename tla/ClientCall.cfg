SPECIFICATION CSpec
CONSTANTS
    Calls = {c1}
    Args <- MCArgs
    Configs <- MCConfigs
    Responses <- MCResponses
    MaxToken = 3
    AttestTimeout = 3
    HoldMargin = 1
    Second = 2
    MaxDuration = 7
    PerSecond = 2
    Grain = 8
    MaxFloat = 150
    FloatSeconds <- MCFloatSeconds
    FloatNanos <- MCFloatNanos
    Tolerance = 3
    DefaultTimeout = 1
    MaxTimeout = 2
    DefaultHoldTimeout = 2
    MaxHoldTimeout = 4
    MaxPort = 2
    Hosts <- MCHosts
    ParseIP <- MCParseIP
    Loopback = {"127.0.0.1", "::1"}
    DefaultAddr <- MCDefaultAddr
    DefaultTokenFile = "edge"
    Environments <- MCEnvironments
    OptionSets <- MCOptionSets
INVARIANTS
    TypeOK
    AllowIsTheEdges
    OutageIsNotPolicy
    JudgedOncePerPhase
    RejectionsAreRotations
    HoldWithinBudget
    DeadlineBound
    OnThisMachine
    DurationsAsMeant
    WithinCeilings
