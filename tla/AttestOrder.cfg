SPECIFICATION Spec
CONSTANTS
    Callers = {k1, k2}
    Tools = {t1, t2}
    Sessions = {s1}
    AttestTimeout = 1
    RetryInterval = 2
INVARIANT AttestPrecedesAdmit
