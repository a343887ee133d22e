SPECIFICATION FairSpec
CONSTANTS
    Callers = {k1, k2}
    Tools = {t1, t2}
    Sessions = {s1}
    AttestTimeout = 1
    RetryInterval = 2
INVARIANTS
    TypeOK
    ConfirmedWasReported
    ToolReportedBeforeAdmit
    SingleFlight
PROPERTY RetriedLater
