SPECIFICATION FairSpec
CONSTANTS
    Callers = {k1}
    Tools = {t1, t2}
    Sessions = {s1}
    AttestTimeout = 1
    RetryInterval = 2
PROPERTY FailedAttestThrottled
